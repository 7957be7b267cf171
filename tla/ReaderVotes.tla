----------------------------- MODULE ReaderVotes -----------------------------
(***************************************************************************)
(* Imports of reader votes (rankings/, from importReaderVotesCsv on) and   *)
(* the deletion of an import, for which the other members of the board     *)
(* have to vote; with the page that sends these requests                   *)
(* (pages/board/ReaderVoteImport.tsx).                                     *)
(*                                                                         *)
(* An import is its week; of the rows it ranks (Reader_Vote_Ranking) only  *)
(* the import they belong to is kept, and that they may put a series AT    *)
(* RISK.  The bytes of the CSV, titles and sales are left out: a CSV that  *)
(* passes parseReaderVoteCsv is a set of series, some of them with few     *)
(* stars.                                                                  *)
(***************************************************************************)
EXTENDS Requests, FiniteSetsExt

CONSTANTS
    Series,         \* series ids
    Members,        \* users with the role EDITORIAL_BOARD
    Weeks,          \* bound: the days an import may start on
    MaxImports,     \* bound: imports ever made
    ReaderScenes    \* bound: the mode, board, series and number of imports of a behaviour

ASSUME ReaderVotesAssumption ==
    /\ IsFiniteSet(Members)
    /\ Weeks \subseteq Int
    /\ MaxImports \in Nat
    /\ ReaderScenes \subseteq [mode : Modes, board : SUBSET Members,
                               titles : SUBSET Series, imports : 0 .. MaxImports]

VARIABLES
    import,         \* [ImportIds -> Reader_Vote_Import: its first day and its status]
    row,            \* [Series \X Weeks -> import_id of the Reader_Vote_Ranking row, or NoRow]
    asked,          \* [ImportIds -> Reader_Vote_Import_Delete_Request: its author and status]
    approval,       \* [ImportIds -> the members in Reader_Vote_Import_Delete_Approval]
    marked,         \* the series with series_status = 'AT_RISK'
    active,         \* the members with is_activated = 1
    voters          \* the board, series and imports of this behaviour; it never changes

readerTables == <<import, row, asked, approval, marked>>
readerVars == <<readerTables, active, voters, requestVars>>

board == voters.board

ImportIds == 1 .. MaxImports
NoRow == -1
Legacy == 0         \* a row from before the column import_id
NoImport == [start |-> 0, status |-> "NONE"]
NoRequest == [by |-> Nobody, status |-> "NONE"]

ReaderSteps == {"idle", "import_commit", "import_mark", "page_confirm", "ask_find", "ask_existing",
                "ask_upsert", "ask_board", "approve_request", "approve_insert",
                "approve_summary", "finalize_find", "finalize_commit", "latest_attach"}

Live(i) == import[i].status = "IMPORTED"
Made == {i \in ImportIds : import[i].status # "NONE"}

ReaderTypeOK ==
    /\ import \in [ImportIds -> [start : Weeks \cup {0}, status : {"NONE", "IMPORTED", "DELETED"}]]
    /\ row \in [Series \X Weeks -> ImportIds \cup {NoRow, Legacy}]
    /\ asked \in [ImportIds -> [by : Members \cup {Nobody}, status : {"NONE", "PENDING", "APPROVED"}]]
    /\ approval \in [ImportIds -> SUBSET Members]
    /\ marked \subseteq Series
    /\ active \subseteq board
    /\ voters \in ReaderScenes
    /\ \A c \in Slots : slot[c].pc \in ReaderSteps

\* An empty history, above rows that older versions may have left.
ReaderStart(s) ==
    /\ voters = s
    /\ import = [i \in ImportIds |-> NoImport]
    /\ \E old \in SUBSET (s.titles \X Weeks) :
          row = [k \in Series \X Weeks |-> IF k \in old THEN Legacy ELSE NoRow]
    /\ asked = [i \in ImportIds |-> NoRequest]
    /\ approval = [i \in ImportIds |-> {}]
    /\ marked = {}
    /\ active \in SUBSET s.board

ReaderInit == RequestsInit /\ \E s \in ReaderScenes : mode = s.mode /\ ReaderStart(s)

-----------------------------------------------------------------------------
(* Importing. *)

\* validateWeeklyReaderVotePeriod: an import ends seven days after its start.
EndOf(start) == start + 7

\* period_start_date < newEnd AND period_end_date > newStart
Overlaps(a, b) == a < EndOf(b) /\ EndOf(a) > b

\* Mutant of Conflicts: only the very same week conflicts.
ConflictsSameStart(start) == {i \in ImportIds : Live(i) /\ import[i].start = start}

Conflicts(start) == {i \in ImportIds : Live(i) /\ Overlaps(import[i].start, start)}

\* parseReaderVoteCsv and the SELECT of its titles: the series that are ranked, and those of
\* them with a high risk.
Csvs == {f \in [rows : SUBSET voters.titles, low : SUBSET voters.titles] :
            f.rows # {} /\ f.low \subseteq f.rows}

Importing == {c \in Slots : At(c, "import_commit")}

\* importReaderVotesCsv: no live import overlaps; the CSV names known series.
ImportRead(c, start, csv) ==
    /\ Cardinality(Made) + Cardinality(Importing) < voters.imports
    /\ Conflicts(start) = {}
    /\ Enter(c, [pc |-> "import_commit", start |-> start, rows |-> csv.rows, low |-> csv.low])
    /\ UNCHANGED readerTables

\* The transaction: INSERT the import, then INSERT ... ON DUPLICATE KEY UPDATE its rows.
ImportCommit(c) ==
    /\ At(c, "import_commit")
    /\ LET q == slot[c]
           id == Cardinality(Made) + 1
       IN /\ import' = [import EXCEPT ![id] = [start |-> q.start, status |-> "IMPORTED"]]
          /\ row' = [k \in Series \X Weeks |->
                        IF k[1] \in q.rows /\ k[2] = q.start THEN id ELSE row[k]]
    /\ Goto(c, "import_mark")
    /\ UNCHANGED <<asked, approval, marked>>

\* markSeriesAtRiskAndNotify, for one row with a high risk after the other.
ImportMark(c) ==
    /\ At(c, "import_mark")
    /\ \/ /\ slot[c].low = {}
          /\ Finish(c)
          /\ UNCHANGED marked
       \/ \E s \in slot[c].low :
             /\ marked' = marked \cup {s}
             /\ slot' = [slot EXCEPT ![c].low = @ \ {s}]
    /\ UNCHANGED <<import, row, asked, approval>>

\* READER_VOTE_IMPORT_PERIOD_CONFLICT with the newest of the overlapping imports: the
\* page asks whether it may be deleted.
ImportRefused(c, m, start) ==
    /\ m \in active
    /\ Conflicts(start) # {}
    /\ Enter(c, [pc |-> "page_confirm", member |-> m, id |-> Max(Conflicts(start))])
    /\ UNCHANGED readerTables

\* importCsv: the answer to the confirm dialog.
PageConfirm(c) ==
    /\ At(c, "page_confirm")
    /\ Goto(c, "ask_find") \/ Finish(c)
    /\ UNCHANGED readerTables

-----------------------------------------------------------------------------
(* Asking for a deletion: requestDeleteReaderVoteImport. *)

\* A request for the deletion that no import has preceded.
AskCall(c, m, i) ==
    /\ m \in active
    /\ Enter(c, [pc |-> "ask_find", member |-> m, id |-> i])
    /\ UNCHANGED readerTables

\* findActiveReaderVoteImport
AskFind(c) ==
    /\ At(c, "ask_find")
    /\ IF Live(slot[c].id) THEN Goto(c, "ask_existing") ELSE Finish(c)
    /\ UNCHANGED readerTables

\* SELECT ... AND status = 'PENDING'
AskExisting(c) ==
    /\ At(c, "ask_existing")
    /\ IF asked[slot[c].id].status = "PENDING" THEN Finish(c) ELSE Goto(c, "ask_upsert")
    /\ UNCHANGED readerTables

\* INSERT ... ON DUPLICATE KEY UPDATE
AskUpsert(c) ==
    /\ At(c, "ask_upsert")
    /\ asked' = [asked EXCEPT ![slot[c].id] = [by |-> slot[c].member, status |-> "PENDING"]]
    /\ Goto(c, "ask_board")
    /\ UNCHANGED <<import, row, approval, marked>>

activeBoardUsersExcept(m) == active \ {m}

\* Mutant of AskBoard: a request nobody else can approve is left to wait.
AskBoardWaits(c) ==
    /\ At(c, "ask_board")
    /\ Finish(c)
    /\ UNCHANGED readerTables

\* Without another member the import is deleted at once.
AskBoard(c) ==
    /\ At(c, "ask_board")
    /\ IF activeBoardUsersExcept(slot[c].member) = {} THEN Goto(c, "finalize_find") ELSE Finish(c)
    /\ UNCHANGED readerTables

-----------------------------------------------------------------------------
(* Approving it: approveDeleteReaderVoteImport. *)

\* findActiveReaderVoteImport
ApproveFind(c, m, i) ==
    /\ m \in active
    /\ Live(i)
    /\ Enter(c, [pc |-> "approve_request", member |-> m, id |-> i])
    /\ UNCHANGED readerTables

\* The request is pending and somebody else's.
mayApprove(m, i) == asked[i].status = "PENDING" /\ asked[i].by # m

ApproveRequest(c) ==
    /\ At(c, "approve_request")
    /\ IF mayApprove(slot[c].member, slot[c].id)
       THEN Goto(c, "approve_insert")
       ELSE Finish(c)
    /\ UNCHANGED readerTables

\* INSERT IGNORE
ApproveInsert(c) ==
    /\ At(c, "approve_insert")
    /\ approval' = [approval EXCEPT ![slot[c].id] = @ \cup {slot[c].member}]
    /\ Goto(c, "approve_summary")
    /\ UNCHANGED <<import, row, asked, marked>>

\* Mutant of requiredApprovals: one other member is enough.
requiredApprovalsOne(i) == 1

\* getDeleteRequestSummary
requiredApprovals(i) == Cardinality(active \ {asked[i].by})
approvalCount(i) == Cardinality(approval[i] \cap active)
canCurrentUserApprove(m, i) ==
    asked[i].by # m /\ asked[i].status = "PENDING" /\ m \notin approval[i]

\* The last approval deletes the import.
ApproveSummary(c) ==
    /\ At(c, "approve_summary")
    /\ LET i == slot[c].id IN
       IF asked[i].status = "PENDING" /\ approvalCount(i) >= requiredApprovals(i)
       THEN Goto(c, "finalize_find")
       ELSE Finish(c)
    /\ UNCHANGED readerTables

\* finalizeReaderVoteImportDeletion: findActiveReaderVoteImport
FinalizeFind(c) ==
    /\ At(c, "finalize_find")
    /\ IF Live(slot[c].id) THEN Goto(c, "finalize_commit") ELSE Finish(c)
    /\ UNCHANGED readerTables

\* Mutant of FinalizeCommit: older rows of the same week stay.
FinalizeCommitOwnRows(c) ==
    /\ At(c, "finalize_commit")
    /\ LET i == slot[c].id IN
       /\ row' = [k \in Series \X Weeks |-> IF row[k] = i THEN NoRow ELSE row[k]]
       /\ import' = [import EXCEPT ![i].status = "DELETED"]
       /\ asked' = [asked EXCEPT ![i].status = "APPROVED"]
    /\ Finish(c)
    /\ UNCHANGED <<approval, marked>>

\* Its transaction: DELETE the rows of the import and of its week, UPDATE import and request.
FinalizeCommit(c) ==
    /\ At(c, "finalize_commit")
    /\ LET i == slot[c].id IN
       /\ row' = [k \in Series \X Weeks |->
                     IF row[k] = i \/ (row[k] = Legacy /\ k[2] = import[i].start)
                     THEN NoRow ELSE row[k]]
       /\ import' = [import EXCEPT ![i].status = "DELETED"]
       /\ asked' = [asked EXCEPT ![i].status = "APPROVED"]
    /\ Finish(c)
    /\ UNCHANGED <<approval, marked>>

-----------------------------------------------------------------------------
(* Reading the ranking writes as well: latestReaderVoteRankings. *)

\* ORDER BY period_start_date DESC, import_id DESC LIMIT 1
LatestRead(c, i) ==
    /\ Live(i)
    /\ \A j \in ImportIds \ {i} : Live(j) =>
          \/ import[j].start < import[i].start
          \/ import[j].start = import[i].start /\ j < i
    /\ Enter(c, [pc |-> "latest_attach", id |-> i, start |-> import[i].start])
    /\ UNCHANGED readerTables

\* attachLegacyReaderRankingsToImport: UPDATE ... SET import_id = ? WHERE import_id IS NULL
LatestAttach(c) ==
    /\ At(c, "latest_attach")
    /\ row' = [k \in Series \X Weeks |->
                  IF row[k] = Legacy /\ k[2] = slot[c].start THEN slot[c].id ELSE row[k]]
    /\ Finish(c)
    /\ UNCHANGED <<import, asked, approval, marked>>

-----------------------------------------------------------------------------
\* AdminService.updateUser locks or unlocks the account of a member.
AccountChange(m) ==
    /\ ~Undisturbed
    /\ InTurn => Quiet
    /\ active' = IF m \in active THEN active \ {m} ELSE active \cup {m}
    /\ UNCHANGED <<readerTables, slot>>

ReaderCall(c) ==
    \/ \E start \in Weeks :
          \/ \E csv \in Csvs : ImportRead(c, start, csv)
          \/ \E m \in board : ImportRefused(c, m, start)
    \/ \E i \in Made :
          \/ \E m \in board : AskCall(c, m, i) \/ ApproveFind(c, m, i)
          \/ LatestRead(c, i)

ReaderStep(c) ==
    \/ ImportCommit(c) \/ ImportMark(c) \/ PageConfirm(c)
    \/ AskFind(c) \/ AskExisting(c) \/ AskUpsert(c) \/ AskBoard(c)
    \/ ApproveRequest(c) \/ ApproveInsert(c) \/ ApproveSummary(c)
    \/ FinalizeFind(c) \/ FinalizeCommit(c)
    \/ LatestAttach(c)

ReaderNext ==
    /\ \/ \E c \in Slots :
             /\ ReaderCall(c) \/ ReaderStep(c) \/ (Fail(c) /\ UNCHANGED readerTables)
             /\ UNCHANGED active
       \/ \E m \in board : AccountChange(m)
    /\ UNCHANGED <<voters, mode>>

ReaderSpec == ReaderInit /\ [][ReaderNext]_readerVars

-----------------------------------------------------------------------------
\* Every ranked row belongs to an import that has not been deleted, however imports,
\* deletions and the adoption of older rows interleave: the row's import_id was written
\* from a value read earlier, and the deletion of that import may lie between.
RowsHaveLiveImport == \A k \in Series \X Weeks : row[k] \in ImportIds => Live(row[k])

\* One request at a time, no two live imports overlap (a new one is compared with all of
\* them, a deletion makes room).
WeeksAreImportedOnce ==
    InTurn => \A i, j \in ImportIds : Live(i) /\ Live(j) /\ i # j =>
                  ~Overlaps(import[i].start, import[j].start)

\* One request at a time, an import is deleted only when every active member has approved
\* or asked for it, although approvals and the board they are counted against change in
\* between.
DeletionIsUnanimous ==
    [][InTurn => \A i \in ImportIds : Live(i) /\ import'[i].status = "DELETED" =>
          \A m \in active : m = asked[i].by \/ m \in approval[i]]_readerVars

\* Unless accounts change or the process dies, whatever else interleaves: when all requests
\* have returned, the page offers the deletion of a live import that is still pending to
\* some active member; two last approvals at once do not wait for each other.
PendingIsOffered ==
    Quiet /\ Undisturbed => \A i \in ImportIds :
        Live(i) /\ asked[i].status = "PENDING" =>
            \E m \in active : canCurrentUserApprove(m, i)
=============================================================================
