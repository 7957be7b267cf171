----------------------------- MODULE Publication -----------------------------
(***************************************************************************)
(* Publishing a chapter (publication_schedule/): the one row that          *)
(* Publication_Schedule may hold for it, composed with the production of   *)
(* that chapter.  The slots of Boards hold the schedule requests in        *)
(* flight, as Reqs holds those of the production.  Each of these handlers  *)
(* ends with its only write, or with one transaction whose first update    *)
(* locks the chapter until the commit, so that it is one step here.        *)
(***************************************************************************)
EXTENDS Production

CONSTANTS
    Boards,     \* slots for schedule requests in flight
    MaxDay      \* bound: the last day of the calendar

ASSUME CalendarAssumption == MaxDay \in Nat

VARIABLES
    schedule,       \* the row's publish_status, or Absent
    release,        \* the row's release_date, a day
    today,          \* todayDate()
    seriesStatus,   \* Series.series_status
    pub             \* [Boards -> the request in the slot]

publicationRows == <<schedule, release>>
publicationVars == <<vars, publicationRows, today, seriesStatus, pub>>

SeriesStatus == {"ACTIVE", "AT_RISK", "HIATUS", "CANCELLED", "COMPLETED"}
PublicationStatus == {"SCHEDULED", "PUBLISHED", "CANCELLED"}
Days == 0 .. MaxDay

PubIdle == [pc |-> "idle", day |-> 0]
PubSteps == {"idle", "create_existing", "create_reuse", "create_insert", "cancel_write",
             "publish_commit"}

PublicationTypeOK ==
    /\ TypeOK
    /\ schedule \in PublicationStatus \cup {Absent}
    /\ release \in Days
    /\ today \in Days
    /\ seriesStatus \in SeriesStatus
    /\ pub \in [Boards -> [pc : PubSteps, day : Days]]

PublicationInit ==
    /\ Init
    /\ schedule = Absent
    /\ release = 0
    /\ today = 0
    /\ seriesStatus = "ACTIVE"
    /\ pub = [s \in Boards |-> PubIdle]

-----------------------------------------------------------------------------
PubAt(s, step) == pub[s].pc = step

PubEnter(s, step, d) ==
    /\ PubAt(s, "idle")
    /\ pub' = [pub EXCEPT ![s] = [pc |-> step, day |-> d]]

PubGoto(s, step) == pub' = [pub EXCEPT ![s].pc = step]

PubFinish(s) == pub' = [pub EXCEPT ![s] = PubIdle]

\* Mutant of mayCreate: the editor's approval is enough.
mayCreateAfterEditor(d) ==
    /\ d >= today
    /\ chapter \in {"EDITOR_APPROVED", "BOARD_APPROVED"}
    /\ seriesStatus \notin {"CANCELLED", "HIATUS"}

\* create: the chapter is approved by the board, its series neither cancelled nor
\* on hiatus, the day not in the past.
mayCreate(d) ==
    /\ d >= today
    /\ chapter = "BOARD_APPROVED"
    /\ seriesStatus \notin {"CANCELLED", "HIATUS"}

CreateRead(s, d) ==
    /\ mayCreate(d)
    /\ PubEnter(s, "create_existing", d)
    /\ UNCHANGED <<vars, publicationRows>>

\* create: SELECT the chapter's row; only a cancelled one may be used again.
CreateReadExisting(s) ==
    /\ PubAt(s, "create_existing")
    /\ CASE schedule = Absent -> PubGoto(s, "create_insert")
         [] schedule = "CANCELLED" -> PubGoto(s, "create_reuse")
         [] OTHER -> PubFinish(s)
    /\ UNCHANGED <<vars, publicationRows>>

\* create: UPDATE Publication_Schedule SET publish_status = 'SCHEDULED' WHERE
\* schedule_id = ?
CreateReuse(s) ==
    /\ PubAt(s, "create_reuse")
    /\ schedule' = "SCHEDULED"
    /\ release' = pub[s].day
    /\ PubFinish(s)
    /\ UNCHANGED vars

\* create: INSERT INTO Publication_Schedule; UNIQUE (chapter_id).
CreateInsert(s) ==
    /\ PubAt(s, "create_insert")
    /\ \/ /\ schedule = Absent
          /\ schedule' = "SCHEDULED"
          /\ release' = pub[s].day
       \/ schedule # Absent /\ UNCHANGED publicationRows
    /\ PubFinish(s)
    /\ UNCHANGED vars

\* cancel: the row is SCHEDULED for a day to come.
mayCancel == schedule = "SCHEDULED" /\ release > today

CancelRead(s) ==
    /\ mayCancel
    /\ PubEnter(s, "cancel_write", 0)
    /\ UNCHANGED <<vars, publicationRows>>

\* cancel: UPDATE ... SET publish_status = 'CANCELLED' ... AND publish_status = 'SCHEDULED'
CancelWrite(s) ==
    /\ PubAt(s, "cancel_write")
    /\ schedule' = IF schedule = "SCHEDULED" THEN "CANCELLED" ELSE schedule
    /\ PubFinish(s)
    /\ UNCHANGED <<vars, release>>

\* Mutant of mayPublish: the day is not compared.
mayPublishAnyDay == schedule = "SCHEDULED" /\ chapter = "BOARD_APPROVED"

\* publish: the row is SCHEDULED, its day has come, the chapter still approved.
mayPublish == schedule = "SCHEDULED" /\ release <= today /\ chapter = "BOARD_APPROVED"

PublishRead(s) ==
    /\ mayPublish
    /\ PubEnter(s, "publish_commit", 0)
    /\ UNCHANGED <<vars, publicationRows>>

\* publish: chapter and row, each updated only if its status is still the one read.
PublishCommit(s) ==
    /\ PubAt(s, "publish_commit")
    /\ chapter' = IF chapter = "BOARD_APPROVED" THEN "PUBLISHED" ELSE chapter
    /\ schedule' = IF schedule = "SCHEDULED" THEN "PUBLISHED" ELSE schedule
    /\ PubFinish(s)
    /\ UNCHANGED <<work, req, release>>

\* Midnight.
NextDay ==
    /\ today < MaxDay
    /\ today' = today + 1
    /\ UNCHANGED <<vars, publicationRows, pub, seriesStatus>>

\* A board decision or a closed vote period commits a new series status.
SeriesStatusChanges ==
    /\ seriesStatus' \in {"ACTIVE", "AT_RISK", "HIATUS", "CANCELLED"}
    /\ UNCHANGED <<vars, publicationRows, today, pub>>

ScheduleSteps(s) ==
    \/ \E d \in Days : CreateRead(s, d)
    \/ CreateReadExisting(s) \/ CreateReuse(s) \/ CreateInsert(s)
    \/ CancelRead(s) \/ CancelWrite(s)
    \/ PublishRead(s) \/ PublishCommit(s)

PublicationNext ==
    \/ Next /\ UNCHANGED <<publicationRows, today, seriesStatus, pub>>
    \/ \E s \in Boards : ScheduleSteps(s) /\ UNCHANGED <<today, seriesStatus>>
    \/ NextDay
    \/ SeriesStatusChanges

PublicationSpec == PublicationInit /\ [][PublicationNext]_publicationVars

-----------------------------------------------------------------------------
(* What holds while one board member at a time works on the schedule. *)

\* The schedule and the chapter tell the same story: published together, and while
\* a day is set the chapter stays approved (publish tests both statuses again).
ScheduleFollowsChapter ==
    /\ schedule = "PUBLISHED" <=> chapter = "PUBLISHED"
    /\ schedule = "SCHEDULED" => chapter = "BOARD_APPROVED"

\* No chapter is out before its day, even when its date was set anew.
NothingIsReleasedEarly == chapter = "PUBLISHED" => release <= today

\* A published chapter stays published, whatever reviews are still under way.
PublishedIsFinal == [][chapter = "PUBLISHED" => chapter' = "PUBLISHED"]_publicationVars

\* With one request at a time on the chapter and one on its schedule, handlers, deaths and
\* midnight together implement the life of a chapter: nothing of it moves once the board has
\* approved it, and it comes out in one step with its entry, on its day or later, with its
\* work done and paid for once.
Life == INSTANCE ChapterLife WITH paid <- accruals
ImplementsLife == Life!LifeSpec

-----------------------------------------------------------------------------
(* What the repository says of the program and the program does not do. *)

\* "Chapter reaches PUBLISHED only after editor EDITOR_APPROVED AND all pages are
\* COMPLETED" (documents/01-overview/04-business-rules.md, BR-FLOW-006).
PublishedPagesAreCompleted ==
    [][chapter # "PUBLISHED" /\ chapter' = "PUBLISHED" =>
          \A p \in ExistingPages : page[p] = "COMPLETED"]_publicationVars
=============================================================================
