------------------------------- MODULE Offices -------------------------------
(***************************************************************************)
(* The desks of the system that keep their tables to themselves: the       *)
(* imports of reader votes, the disputes about earnings, proposals with    *)
(* the editors of their series, signing in, and a page opened in the       *)
(* Studio.  They share the process and nothing else, so that a behaviour   *)
(* goes to one desk, and the others stand as they were set up: the         *)
(* instances explore the sum of the desks instead of their product.        *)
(***************************************************************************)
EXTENDS ReaderVotes, Disputes, SeriesOffice, SignIn, Drawing

VARIABLES desk      \* the desk of this behaviour; it never changes

Desks == {"reader votes", "disputes", "series", "sign in", "drawing"}

readerDesk == <<readerTables, active, voters>>
disputeDesk == <<disputeTables, disputePages, disputeHistory, disputeScene>>
seriesDesk == <<officeTables, savingSeries, office>>
signInDesk == <<accountRow, otpTable, browser, account>>
drawingDesk == <<engineVars, lastId, timer, session, savedVars>>
officesVars == <<desk, readerDesk, disputeDesk, seriesDesk, signInDesk, drawingDesk, requestVars>>

\* A desk starts in one of its scenes, or nobody comes to it.
Set(d, scene, Scenes) ==
    IF desk = d THEN scene \in Scenes /\ mode = scene.mode
    ELSE scene = CHOOSE s \in Scenes : TRUE

OfficesInit ==
    /\ RequestsInit
    /\ desk \in Desks
    /\ \E s \in ReaderScenes :
          /\ Set("reader votes", s, ReaderScenes)
          /\ ReaderStart(s)
          /\ desk = "reader votes" \/ (active = board /\ \A k \in DOMAIN row : row[k] = NoRow)
    /\ \E s \in DisputeScenes :
          /\ Set("disputes", s, DisputeScenes)
          /\ DisputeStart(s)
          /\ desk = "disputes" \/ payment = [t \in Paid |-> Min(Amounts)]
    /\ \E s \in OfficeScenes : Set("series", s, OfficeScenes) /\ OfficeStart(s)
    /\ \E s \in SignInScenes : Set("sign in", s, SignInScenes) /\ SignInStart(s)
    /\ \E s \in DrawingScenes : Set("drawing", s, DrawingScenes) /\ DrawingStart(s)

OfficesNext ==
    /\ \/ /\ desk = "reader votes"
          /\ ReaderNext
          /\ UNCHANGED <<disputeDesk, seriesDesk, signInDesk, drawingDesk>>
       \/ /\ desk = "disputes"
          /\ DisputeNext
          /\ UNCHANGED <<readerDesk, seriesDesk, signInDesk, drawingDesk>>
       \/ /\ desk = "series"
          /\ OfficeNext
          /\ UNCHANGED <<readerDesk, disputeDesk, signInDesk, drawingDesk>>
       \/ /\ desk = "sign in"
          /\ SignInNext
          /\ UNCHANGED <<readerDesk, disputeDesk, seriesDesk, drawingDesk>>
       \/ /\ desk = "drawing"
          /\ DrawingNext
          /\ UNCHANGED <<readerDesk, disputeDesk, seriesDesk, signInDesk>>
    /\ UNCHANGED desk

OfficesSpec == OfficesInit /\ [][OfficesNext]_officesVars

\* The types of the desk that is used.
OfficesTypeOK ==
    /\ desk \in Desks
    /\ mode \in Modes
    /\ desk = "reader votes" => ReaderTypeOK
    /\ desk = "disputes" => DisputeTypeOK
    /\ desk = "series" => OfficeTypeOK
    /\ desk = "sign in" => SignInTypeOK
    /\ desk = "drawing" => DrawingTypeOK
=============================================================================
