-------------------------- MODULE PublicationProofs --------------------------
(***************************************************************************)
(* Proofs about Publication, under the pages of Screens: for any pages,    *)
(* regions, tasks and days, with or without failures, with the production  *)
(* and the board making one request each at a time.                        *)
(***************************************************************************)
EXTENDS Screens, ProductionProofs

\* One request of the production, and one of the board, at a time.
OneEach == (\A r, q \in Reqs : r = q) /\ (\A s, t \in Boards : s = t)

Creating == {"create_existing", "create_reuse", "create_insert"}
PublicationRequest == [pc : PubSteps, day : Days]

\* The types of Publication, with what TypeInv adds to those of Production.
CalendarInv == TypeInv /\ PublicationTypeOK

\* A request that is about to write the status of the chapter has found it before the
\* board's approval, and does not publish it.
Undecided ==
    \A r \in Reqs :
        req[r].pc \in ChapterPcs => /\ chapter \notin {"BOARD_APPROVED", "PUBLISHED"}
                                    /\ req[r].status # "PUBLISHED"

\* What a request on the schedule has read still holds.
ScheduleIsAsRead ==
    \A s \in Boards :
        /\ pub[s].pc \in Creating => chapter = "BOARD_APPROVED"
        /\ pub[s].pc = "create_reuse" => schedule = "CANCELLED"
        /\ pub[s].pc = "create_insert" => schedule = Absent
        /\ pub[s].pc \in {"cancel_write", "publish_commit"} => schedule = "SCHEDULED"
        /\ pub[s].pc = "publish_commit" => release <= today

PublicationInv ==
    /\ Undecided
    /\ ScheduleIsAsRead
    /\ ScheduleFollowsChapter
    /\ NothingIsReleasedEarly

-----------------------------------------------------------------------------
(* Types. *)

\* The types, at the start.
LEMMA InitCalendar == ScreensInit => CalendarInv
  <1> SUFFICES ASSUME ScreensInit PROVE CalendarInv
    OBVIOUS
  <1>1. TypeInv
    BY InitTypeInv DEF ScreensInit, PublicationInit
  <1>2. PubIdle \in PublicationRequest
    BY CalendarAssumption DEF PubIdle, PublicationRequest, PubSteps, Days
  <1>3. release \in Days /\ today \in Days
    BY CalendarAssumption DEF ScreensInit, PublicationInit, Days
  <1>4. seriesStatus \in SeriesStatus /\ schedule \in PublicationStatus \cup {Absent}
    BY DEF ScreensInit, PublicationInit, SeriesStatus
  <1>5. pub \in [Boards -> PublicationRequest]
    BY <1>2 DEF ScreensInit, PublicationInit
  <1> QED
    BY <1>1, <1>3, <1>4, <1>5 DEF CalendarInv, PublicationTypeOK, PublicationRequest, TypeInv

\* The calendar of a step on the chapter.
LEMMA ChapterCalendar ==
    ASSUME CalendarInv, TypeInv', UNCHANGED <<publicationRows, today, seriesStatus, pub>>
    PROVE  CalendarInv'
  <1> QED  BY DEF CalendarInv, PublicationTypeOK, publicationRows, TypeInv

\* A request on the schedule goes on, or is done.
LEMMA BoardRequest ==
    ASSUME CalendarInv, NEW s \in Boards, NEW step \in PubSteps, NEW d \in Days,
           \/ PubEnter(s, step, d) \/ PubGoto(s, step) \/ PubFinish(s)
    PROVE  pub' \in [Boards -> PublicationRequest]
  <1>1. pub \in [Boards -> PublicationRequest]
    BY DEF CalendarInv, PublicationTypeOK, PublicationRequest
  <1>2. CASE PubEnter(s, step, d)
    <2>1. [pc |-> step, day |-> d] \in PublicationRequest
      BY DEF PublicationRequest
    <2> QED  BY <1>1, <1>2, <2>1 DEF PubEnter
  <1>3. CASE PubGoto(s, step)
    <2>1. [pub[s] EXCEPT !.pc = step] \in PublicationRequest
      BY <1>1 DEF PublicationRequest
    <2> QED  BY <1>1, <1>3, <2>1 DEF PubGoto
  <1>4. CASE PubFinish(s)
    <2>1. PubIdle \in PublicationRequest
      BY CalendarAssumption DEF PubIdle, PublicationRequest, PubSteps, Days
    <2> QED  BY <1>1, <1>4, <2>1 DEF PubFinish
  <1> QED  BY <1>2, <1>3, <1>4

\* A step on the schedule that leaves the chapter.
LEMMA BoardCalendar ==
    ASSUME CalendarInv, UNCHANGED vars, UNCHANGED <<today, seriesStatus>>,
           schedule' \in PublicationStatus \cup {Absent}, release' \in Days,
           pub' \in [Boards -> PublicationRequest]
    PROVE  CalendarInv'
  <1>1. TypeInv'
    BY StutterInv DEF CalendarInv
  <1> QED  BY <1>1 DEF CalendarInv, PublicationTypeOK, PublicationRequest, TypeInv

\* Every statement of the schedule keeps the types.
LEMMA ScheduleStepCalendar ==
    ASSUME CalendarInv, NEW s \in Boards, ScheduleSteps(s), UNCHANGED <<today, seriesStatus>>
    PROVE  CalendarInv'
  <1>0. schedule \in PublicationStatus \cup {Absent} /\ release \in Days /\ pub[s].day \in Days
    BY DEF CalendarInv, PublicationTypeOK
  <1>d. 0 \in Days
    BY CalendarAssumption DEF Days
  <1>1. ASSUME NEW d \in Days, CreateRead(s, d) PROVE CalendarInv'
    BY <1>0, <1>1, BoardRequest, BoardCalendar DEF CreateRead, publicationRows, PubSteps
  <1>2. CASE CreateReadExisting(s)
    <2>1. PICK step \in PubSteps : PubGoto(s, step) \/ PubFinish(s)
      BY <1>2 DEF CreateReadExisting, PubSteps
    <2> QED  BY <1>0, <1>2, <1>d, <2>1, BoardRequest, BoardCalendar DEF CreateReadExisting, publicationRows
  <1>3. CASE CreateReuse(s)
    BY <1>0, <1>3, <1>d, BoardRequest, BoardCalendar DEF CreateReuse, PublicationStatus, PubSteps
  <1>4. CASE CreateInsert(s)
    BY <1>0, <1>4, <1>d, BoardRequest, BoardCalendar
    DEF CreateInsert, PublicationStatus, publicationRows, PubSteps
  <1>5. CASE CancelRead(s) \/ PublishRead(s)
    BY <1>0, <1>5, <1>d, BoardRequest, BoardCalendar
    DEF CancelRead, PublishRead, publicationRows, PubSteps
  <1>6. CASE CancelWrite(s)
    BY <1>0, <1>6, <1>d, BoardRequest, BoardCalendar DEF CancelWrite, PublicationStatus, PubSteps
  <1>7. CASE PublishCommit(s)
    <2>1. pub' \in [Boards -> PublicationRequest]
      BY <1>7, <1>d, BoardRequest DEF PublishCommit, PubSteps
    <2>2. schedule' \in PublicationStatus \cup {Absent} /\ release' \in Days
      BY <1>0, <1>7 DEF PublishCommit, PublicationStatus
    <2>3. chapter' \in ChapterStatus
      BY <1>7 DEF PublishCommit, CalendarInv, TypeInv, TypeOK, ChapterStatus
    <2>4. TypeInv'
      BY <1>7, <2>3 DEF PublishCommit, CalendarInv, TypeInv, TypeOK, work, pageRows, regionRows,
         taskRows, submissionRows, RowsAreConnected, RequestsFitRows, Fits, TaskIds, ExistingPages,
         SubmissionsOf
    <2> QED
      BY <2>1, <2>2, <2>3, <2>4 DEF CalendarInv, PublicationTypeOK, PublicationRequest, TypeInv
  <1> QED  BY <1>1, <1>2, <1>3, <1>4, <1>5, <1>6, <1>7 DEF ScheduleSteps

\* A request that a tab makes.
LEMMA TabDecidesTypes ==
    ASSUME TypeInv, NEW r \in Reqs, TabDecides(r)
    PROVE  TypeInv'
  <1>1. ASSUME NEW target \in ChapterStatus, EditorDecides(r, target) PROVE TypeInv'
    BY <1>1, EditorReviewReadInv DEF EditorDecides
  <1>2. CASE reviewChapter(r)
    <2>1. BoardReviewRead(r, boardTab.form) /\ boardTab.form \in ChapterStatus
      BY <1>2 DEF reviewChapter, BoardReviewRead, ChapterStatus, boardMayMove
    <2> QED  BY <2>1, BoardReviewReadInv
  <1> QED  BY <1>1, <1>2 DEF TabDecides

\* Every step keeps the types.
LEMMA NextCalendar ==
    ASSUME CalendarInv, [ScreensNext]_screensVars
    PROVE  CalendarInv'
  <1>t. TypeInv /\ seriesStatus \in SeriesStatus /\ today \in Days
    BY DEF CalendarInv, PublicationTypeOK
  <1>1. CASE UNCHANGED publicationVars
    <2>1. TypeInv'
      BY <1>1, <1>t, StutterInv DEF publicationVars
    <2> QED  BY <1>1, <2>1, ChapterCalendar DEF publicationVars
  <1>2. ASSUME NEW r \in Reqs, ServerStep(r) \/ TabDecides(r),
               UNCHANGED <<publicationRows, today, seriesStatus, pub>>
        PROVE  CalendarInv'
    <2>1. TypeInv'
      BY <1>2, <1>t, CallInv, ProgressInv, FailInv, TabDecidesTypes DEF ServerStep
    <2> QED  BY <1>2, <2>1, ChapterCalendar
  <1>3. ASSUME NEW s \in Boards, ScheduleSteps(s), UNCHANGED <<today, seriesStatus>>
        PROVE  CalendarInv'
    BY <1>3, ScheduleStepCalendar
  <1>4. CASE NextDay \/ SeriesStatusChanges
    <2>1. TypeInv'
      BY <1>4, <1>t, StutterInv DEF NextDay, SeriesStatusChanges
    <2>2. seriesStatus' \in SeriesStatus
      BY <1>4, <1>t DEF NextDay, SeriesStatusChanges, SeriesStatus
    <2>3. today' \in Days
      BY <1>4, <1>t, CalendarAssumption DEF NextDay, SeriesStatusChanges, Days
    <2>4. UNCHANGED <<publicationRows, pub>>
      BY <1>4 DEF NextDay, SeriesStatusChanges
    <2> QED
      BY <2>1, <2>2, <2>3, <2>4 DEF CalendarInv, PublicationTypeOK, publicationRows, TypeInv
  <1> QED  BY <1>1, <1>2, <1>3, <1>4 DEF ScreensNext, screensVars

\* The rows of the chapter and of its schedule keep their types, and what a request of
\* the production names stays there, whatever the pages of the browser send.
THEOREM CalendarInvariant == ScreensSpec => []CalendarInv
  <1> QED  BY InitCalendar, NextCalendar, PTL DEF ScreensSpec

\* The types of the rows, and of the requests in flight.
THEOREM PublicationTypes == ScreensSpec => []PublicationTypeOK
  <1>1. CalendarInv => PublicationTypeOK
    BY DEF CalendarInv
  <1> QED  BY <1>1, CalendarInvariant, PTL

-----------------------------------------------------------------------------
(* Who writes the status of the chapter. *)

\* A statement that has nothing to do with it.
Elsewhere(r) == chapter' = chapter /\ req'[r].pc \notin ChapterPcs

\* A request that begins elsewhere.
LEMMA EnterElsewhere ==
    ASSUME TypeInv, NEW r \in Reqs, NEW q, q.pc \notin ChapterPcs, Enter(r, q), UNCHANGED tables
    PROVE  Elsewhere(r)
  <1> QED  BY DEF TypeInv, TypeOK, Enter, Elsewhere, tables

\* A request that is done.
LEMMA FinishElsewhere ==
    ASSUME TypeInv, NEW r \in Reqs, Finish(r), UNCHANGED chapter
    PROVE  Elsewhere(r)
  <1> QED  BY DEF TypeInv, TypeOK, Finish, Elsewhere, Idle, ChapterPcs

\* A request that goes on elsewhere.
LEMMA GotoElsewhere ==
    ASSUME TypeInv, NEW r \in Reqs, NEW step, step \notin ChapterPcs, Goto(r, step), UNCHANGED chapter
    PROVE  Elsewhere(r)
  <1> QED  BY DEF TypeInv, TypeOK, Goto, Elsewhere, Request

\* A request that goes on to the status of its page.
LEMMA SyncElsewhere ==
    ASSUME TypeInv, NEW r \in Reqs, NEW p, StartSync(r, p), UNCHANGED chapter
    PROVE  Elsewhere(r)
  <1> QED  BY DEF TypeInv, TypeOK, StartSync, Elsewhere, Idle, ChapterPcs

\* A request that begins: elsewhere, or on the chapter, before the board's approval.
LEMMA CallOnChapter ==
    ASSUME TypeInv, NEW r \in Reqs, NEW target \in ChapterStatus,
           SetStatusRead(r, target) \/ EditorReviewRead(r, target) \/ BoardReviewRead(r, target)
    PROVE  /\ UNCHANGED tables
           /\ chapter \notin {"BOARD_APPROVED", "PUBLISHED"}
           /\ req'[r].status # "PUBLISHED"
  <1>1. UNCHANGED tables
    BY DEF SetStatusRead, EditorReviewRead, BoardReviewRead
  <1>2. chapter \notin {"BOARD_APPROVED", "PUBLISHED"} /\ target # "PUBLISHED"
    BY DEF SetStatusRead, EditorReviewRead, BoardReviewRead, canTransition,
           MANGAKA_CHAPTER_TRANSITIONS, CHAPTER_TRANSITIONS, maySetStatus, editorMayMove, boardMayMove
  <1>3. PICK step : req' = [req EXCEPT ![r] = [Idle EXCEPT !.status = target, !.pc = step]]
    BY DEF SetStatusRead, EditorReviewRead, BoardReviewRead, Enter
  <1>4. req'[r].status = target
    BY <1>3 DEF TypeInv, TypeOK, Idle
  <1> QED  BY <1>1, <1>2, <1>4

\* A request begins elsewhere, or it is one of the three on the status of the chapter.
LEMMA CallElsewhere ==
    ASSUME TypeInv, NEW r \in Reqs, Call(r)
    PROVE  Elsewhere(r) \/ \E target \in ChapterStatus :
               \/ SetStatusRead(r, target)
               \/ "editor" \in Ops /\ EditorReviewRead(r, target)
               \/ "board" \in Ops /\ BoardReviewRead(r, target)
  <1> USE DEF Idle, ChapterPcs
  <1>1. ASSUME NEW g \in Regions, NEW a \in Assistants, AssignRead(r, g, a) PROVE Elsewhere(r)
    BY <1>1, EnterElsewhere DEF AssignRead
  <1>2. ASSUME NEW t \in Tasks, StartRead(r, t) PROVE Elsewhere(r)
    BY <1>2, EnterElsewhere DEF StartRead
  <1>3. ASSUME NEW t \in Tasks, SubmitRead(r, t) PROVE Elsewhere(r)
    BY <1>3, EnterElsewhere DEF SubmitRead
  <1>4. ASSUME NEW t \in Tasks, NEW v \in SubmissionVersions, NEW d \in Decisions, ReviewRead(r, t, v, d)
        PROVE  Elsewhere(r)
    BY <1>4, EnterElsewhere DEF ReviewRead
  <1>5. ASSUME NEW u, NEW p \in Pages, SaveRead(r, u, p) PROVE Elsewhere(r)
    BY <1>5, EnterElsewhere DEF SaveRead
  <1>6. ASSUME NEW u, NEW p \in Pages, DocRead(r, u, p) PROVE Elsewhere(r)
    BY <1>6, EnterElsewhere DEF DocRead
  <1>7. ASSUME PageCreateRead(r) PROVE Elsewhere(r)
    BY <1>7, EnterElsewhere DEF PageCreateRead
  <1>8. ASSUME NEW p \in Pages, RegionCreateRead(r, p) PROVE Elsewhere(r)
    BY <1>8, EnterElsewhere DEF RegionCreateRead
  <1>9. ASSUME NEW g \in Regions, RegionDeleteRead(r, g) PROVE Elsewhere(r)
    BY <1>9, EnterElsewhere DEF RegionDeleteRead
  <1> QED
    BY <1>1, <1>2, <1>3, <1>4, <1>5, <1>6, <1>7, <1>8, <1>9 DEF Call

\* The statements of TaskService.
LEMMA TaskStepsElsewhere ==
    ASSUME TypeInv, NEW r \in Reqs, TaskSteps(r)
    PROVE  Elsewhere(r)
  <1> USE DEF tables, ChapterPcs
  <1>1. CASE AssignCheckRegion(r)
    BY <1>1, FinishElsewhere, GotoElsewhere DEF AssignCheckRegion
  <1>2. CASE AssignInsert(r)
    BY <1>2, FinishElsewhere, SyncElsewhere DEF AssignInsert
  <1>3. CASE StartWrite(r)
    BY <1>3, SyncElsewhere DEF StartWrite
  <1> QED  BY <1>1, <1>2, <1>3 DEF TaskSteps

\* The statements of SubmissionService.
LEMMA SubmissionStepsElsewhere ==
    ASSUME TypeInv, NEW r \in Reqs, SubmissionSteps(r)
    PROVE  Elsewhere(r)
  <1> USE DEF tables, ChapterPcs
  <1>0. req \in [Reqs -> Request]
    BY DEF TypeInv, TypeOK
  <1>1. CASE SubmitVersion(r)
    <2>1. CASE Finish(r)
      BY <1>1, <2>1, FinishElsewhere DEF SubmitVersion
    <2>2. CASE ~Finish(r)
      <3>1. PICK n : req' = [req EXCEPT ![r].pc = "submit_studio", ![r].num = n]
        BY <1>1, <2>2 DEF SubmitVersion
      <3> QED  BY <1>0, <1>1, <3>1 DEF SubmitVersion, Elsewhere, Request
    <2> QED  BY <2>1, <2>2
  <1>2. CASE SubmitCheckStudio(r)
    BY <1>2, FinishElsewhere, GotoElsewhere DEF SubmitCheckStudio
  <1>3. CASE SubmitInsert(r)
    BY <1>3, FinishElsewhere, GotoElsewhere DEF SubmitInsert
  <1>4. CASE SubmitWrite(r)
    BY <1>4, SyncElsewhere DEF SubmitWrite
  <1>5. CASE ReviewBegin(r)
    <2>1. PICK n : req' = [req EXCEPT ![r].pc = "review_commit", ![r].target = n]
      BY <1>5 DEF ReviewBegin
    <2> QED  BY <1>0, <1>5, <2>1 DEF ReviewBegin, Elsewhere, Request
  <1>6. CASE ReviewCommit(r)
    BY <1>6, FinishElsewhere DEF ReviewCommit
  <1> QED  BY <1>1, <1>2, <1>3, <1>4, <1>5, <1>6 DEF SubmissionSteps

\* The statements of PageStatusSync.
LEMMA SyncStepsElsewhere ==
    ASSUME TypeInv, NEW r \in Reqs, SyncSteps(r)
    PROVE  Elsewhere(r)
  <1> USE DEF tables, ChapterPcs
  <1>0. req \in [Reqs -> Request]
    BY DEF TypeInv, TypeOK
  <1>1. CASE SyncReadTasks(r)
    <2>1. CASE Finish(r)
      BY <1>1, <2>1, FinishElsewhere DEF SyncReadTasks
    <2>2. CASE ~Finish(r)
      <3>1. PICK d : req' = [req EXCEPT ![r].pc = "sync_page", ![r].target = d]
        BY <1>1, <2>2 DEF SyncReadTasks
      <3> QED  BY <1>0, <1>1, <3>1 DEF SyncReadTasks, Elsewhere, Request
    <2> QED  BY <2>1, <2>2
  <1>2. CASE SyncReadPage(r)
    BY <1>2, FinishElsewhere, GotoElsewhere DEF SyncReadPage
  <1>3. CASE SyncWrite(r)
    BY <1>3, FinishElsewhere DEF SyncWrite
  <1> QED  BY <1>1, <1>2, <1>3 DEF SyncSteps

\* The statements of StudioService.
LEMMA StudioStepsElsewhere ==
    ASSUME TypeInv, NEW r \in Reqs, StudioSteps(r)
    PROVE  Elsewhere(r)
  <1> USE DEF tables, ChapterPcs
  <1>0. req \in [Reqs -> Request]
    BY DEF TypeInv, TypeOK
  <1>1. CASE SaveReadCurrent(r)
    <2>1. CASE Finish(r)
      BY <1>1, <2>1, FinishElsewhere DEF SaveReadCurrent
    <2>2. CASE ~Finish(r)
      <3>1. PICK n : req' = [req EXCEPT ![r].pc = "save_insert", ![r].num = n]
        BY <1>1, <2>2 DEF SaveReadCurrent
      <3> QED  BY <1>0, <1>1, <3>1 DEF SaveReadCurrent, Elsewhere, Request
    <2> QED  BY <2>1, <2>2
  <1>2. CASE SaveInsert(r)
    BY <1>2, FinishElsewhere, GotoElsewhere DEF SaveInsert
  <1>3. CASE SaveUpdate(r) \/ DocWrite(r)
    BY <1>3, FinishElsewhere DEF SaveUpdate, DocWrite
  <1> QED  BY <1>1, <1>2, <1>3 DEF StudioSteps

\* The statements of PageService.
LEMMA PageStepsElsewhere ==
    ASSUME TypeInv, NEW r \in Reqs, PageSteps(r)
    PROVE  Elsewhere(r)
  <1> USE DEF tables, ChapterPcs
  <1>0. req \in [Reqs -> Request]
    BY DEF TypeInv, TypeOK
  <1>1. CASE PageReadNumber(r)
    <2>1. CASE Finish(r)
      BY <1>1, <2>1, FinishElsewhere DEF PageReadNumber
    <2>2. CASE ~Finish(r)
      <3>1. PICK n : req' = [req EXCEPT ![r].pc = "page_insert", ![r].page = n]
        BY <1>1, <2>2 DEF PageReadNumber
      <3> QED  BY <1>0, <1>1, <3>1 DEF PageReadNumber, Elsewhere, Request
    <2> QED  BY <2>1, <2>2
  <1>2. CASE PageInsert(r) \/ RegionCheckVersion(r)
    BY <1>2, FinishElsewhere, GotoElsewhere DEF PageInsert, RegionCheckVersion
  <1>3. CASE PageInsertVersion(r) \/ RegionInsert(r) \/ RegionDelete(r)
    BY <1>3, FinishElsewhere DEF PageInsertVersion, RegionInsert, RegionDelete
  <1> QED  BY <1>1, <1>2, <1>3 DEF PageSteps

\* The readiness tests go on with the status they were asked for.
LEMMA ReadinessGoesOn ==
    ASSUME TypeInv, NEW r \in Reqs, SetStatusCheckReadiness(r) \/ EditorCheckReadiness(r)
    PROVE  \/ Elsewhere(r)
           \/ chapter' = chapter /\ req'[r].status = req[r].status /\ req[r].pc \in ChapterPcs
  <1>1. UNCHANGED chapter /\ req[r].pc \in ChapterPcs
    BY DEF SetStatusCheckReadiness, EditorCheckReadiness, tables, At, ChapterPcs
  <1>2. CASE Finish(r)
    BY <1>1, <1>2, FinishElsewhere
  <1>3. ASSUME NEW step, Goto(r, step) PROVE req'[r].status = req[r].status
    BY <1>3 DEF TypeInv, TypeOK, Goto, Request
  <1> QED  BY <1>1, <1>2, <1>3 DEF SetStatusCheckReadiness, EditorCheckReadiness

\* The status is written by a request that stands at its write, and is done.
LEMMA WriteIsDecided ==
    ASSUME TypeInv, NEW r \in Reqs, SetStatusWrite(r) \/ EditorReviewWrite(r) \/ BoardReviewWrite(r)
    PROVE  req[r].pc \in ChapterPcs /\ chapter' = req[r].status /\ req'[r].pc \notin ChapterPcs
  <1>1. WriteChapter(r) /\ req[r].pc \in ChapterPcs
    BY DEF SetStatusWrite, EditorReviewWrite, BoardReviewWrite, At, ChapterPcs
  <1>2. req'[r].pc = "idle"
    BY <1>1 DEF WriteChapter, Finish, Idle, TypeInv, TypeOK
  <1> QED  BY <1>1, <1>2 DEF WriteChapter, ChapterPcs

\* The status of the chapter is kept, or moves before the board's approval and not to
\* publication; a request on the chapter stays as Undecided says.
Guarded(r) ==
    /\ chapter' # chapter => chapter \notin {"BOARD_APPROVED", "PUBLISHED"} /\ chapter' # "PUBLISHED"
    /\ req'[r].pc \in ChapterPcs => /\ chapter' \notin {"BOARD_APPROVED", "PUBLISHED"}
                                    /\ req'[r].status # "PUBLISHED"

\* Every statement of the production is guarded.
LEMMA StepIsGuarded ==
    ASSUME TypeInv, Undecided, NEW r \in Reqs, Call(r) \/ Progress(r) \/ Fail(r) \/ TabDecides(r)
    PROVE  Guarded(r)
  <1>e. ASSUME Elsewhere(r) PROVE Guarded(r)
    BY <1>e DEF Elsewhere, Guarded
  <1>c. ASSUME NEW target \in ChapterStatus,
               SetStatusRead(r, target) \/ EditorReviewRead(r, target) \/ BoardReviewRead(r, target)
        PROVE  Guarded(r)
    <2>1. /\ UNCHANGED tables
          /\ chapter \notin {"BOARD_APPROVED", "PUBLISHED"}
          /\ req'[r].status # "PUBLISHED"
      BY <1>c, CallOnChapter
    <2> QED  BY <2>1 DEF Guarded, tables
  <1>1. CASE Call(r)
    BY <1>1, <1>e, <1>c, CallElsewhere
  <1>2. CASE Progress(r)
    <2>1. CASE TaskSteps(r) \/ SubmissionSteps(r) \/ SyncSteps(r) \/ StudioSteps(r) \/ PageSteps(r)
      BY <2>1, <1>e, TaskStepsElsewhere, SubmissionStepsElsewhere, SyncStepsElsewhere,
         StudioStepsElsewhere, PageStepsElsewhere
    <2>2. CASE SetStatusCheckReadiness(r) \/ EditorCheckReadiness(r)
      <3>1. CASE chapter' = chapter /\ req'[r].status = req[r].status /\ req[r].pc \in ChapterPcs
        BY <3>1 DEF Guarded, Undecided
      <3> QED  BY <2>2, <3>1, <1>e, ReadinessGoesOn
    <2>3. CASE SetStatusWrite(r) \/ EditorReviewWrite(r) \/ BoardReviewWrite(r)
      <3>1. req[r].pc \in ChapterPcs /\ chapter' = req[r].status /\ req'[r].pc \notin ChapterPcs
        BY <2>3, WriteIsDecided
      <3> QED  BY <3>1 DEF Guarded, Undecided
    <2> QED  BY <1>2, <2>1, <2>2, <2>3 DEF Progress, ChapterSteps
  <1>3. CASE Fail(r)
    BY <1>3, <1>e, FinishElsewhere DEF Fail, tables
  <1>4. CASE TabDecides(r)
    <2>1. ASSUME NEW target \in ChapterStatus, EditorDecides(r, target) PROVE Guarded(r)
      BY <2>1, <1>c DEF EditorDecides
    <2>2. CASE reviewChapter(r)
      BY <2>2, <1>c DEF reviewChapter, BoardReviewRead, ChapterStatus, boardMayMove
    <2> QED  BY <1>4, <2>1, <2>2 DEF TabDecides
  <1> QED  BY <1>1, <1>2, <1>3, <1>4

-----------------------------------------------------------------------------
(* The schedule and the chapter. *)

\* The schedule and the chapter, at the start.
LEMMA InitPublication == ScreensInit => PublicationInv
  <1> SUFFICES ASSUME ScreensInit PROVE PublicationInv
    OBVIOUS
  <1>1. Undecided
    BY DEF ScreensInit, PublicationInit, Init, InitEmpty, InitDrawn, Undecided, Idle, ChapterPcs
  <1>2. ScheduleIsAsRead
    BY DEF ScreensInit, PublicationInit, ScheduleIsAsRead, PubIdle, Creating
  <1>3. chapter # "PUBLISHED" /\ schedule = Absent
    BY DEF ScreensInit, PublicationInit, Init, InitEmpty, InitDrawn
  <1>4. Absent \notin {"PUBLISHED", "SCHEDULED"}
    BY DEF Absent
  <1> QED  BY <1>1, <1>2, <1>3, <1>4 DEF PublicationInv, ScheduleFollowsChapter, NothingIsReleasedEarly

\* A step of the production, with no other request of the production in flight.
LEMMA ChapterStepKeeps ==
    ASSUME CalendarInv, PublicationInv, OneEach, NEW r \in Reqs,
           Call(r) \/ Progress(r) \/ Fail(r) \/ TabDecides(r),
           UNCHANGED <<publicationRows, today, seriesStatus, pub>>
    PROVE  PublicationInv'
  <1>1. Guarded(r)
    BY StepIsGuarded DEF CalendarInv, PublicationInv
  <1>2. Undecided'
    BY <1>1 DEF Guarded, Undecided, OneEach
  <1>3. UNCHANGED <<schedule, release, today, pub>>
    BY DEF publicationRows
  <1>4. chapter = "BOARD_APPROVED" => chapter' = "BOARD_APPROVED"
    BY <1>1 DEF Guarded
  <1>5. chapter' = "PUBLISHED" <=> chapter = "PUBLISHED"
    BY <1>1 DEF Guarded
  <1>6. ScheduleIsAsRead'
    BY <1>3, <1>4 DEF PublicationInv, ScheduleIsAsRead
  <1>7. ScheduleFollowsChapter' /\ NothingIsReleasedEarly'
    BY <1>3, <1>4, <1>5 DEF PublicationInv, ScheduleFollowsChapter, NothingIsReleasedEarly
  <1> QED  BY <1>2, <1>6, <1>7 DEF PublicationInv

\* A step of the board's only request, said of its own slot.
LEMMA OwnSlot ==
    ASSUME OneEach, NEW s \in Boards,
           /\ pub'[s].pc \in Creating => chapter' = "BOARD_APPROVED"
           /\ pub'[s].pc = "create_reuse" => schedule' = "CANCELLED"
           /\ pub'[s].pc = "create_insert" => schedule' = Absent
           /\ pub'[s].pc \in {"cancel_write", "publish_commit"} => schedule' = "SCHEDULED"
           /\ pub'[s].pc = "publish_commit" => release' <= today'
    PROVE  ScheduleIsAsRead'
  <1> QED  BY DEF ScheduleIsAsRead, OneEach

\* A step of the board that leaves the chapter and both rows' story.
LEMMA RowsStay ==
    ASSUME PublicationInv, OneEach, ScheduleIsAsRead', UNCHANGED vars, UNCHANGED <<release, today>>,
           \/ schedule' = schedule
           \/ schedule = "SCHEDULED" /\ schedule' = "CANCELLED"
    PROVE  PublicationInv'
  <1>1. UNCHANGED <<chapter, req>>
    BY DEF vars, tables
  <1> QED
    BY <1>1 DEF PublicationInv, Undecided, ScheduleFollowsChapter, NothingIsReleasedEarly

\* A step of the board that sets a day for an approved chapter.
LEMMA DayIsSet ==
    ASSUME PublicationInv, ScheduleIsAsRead', UNCHANGED vars, UNCHANGED today,
           chapter = "BOARD_APPROVED", schedule' = "SCHEDULED"
    PROVE  PublicationInv'
  <1>1. UNCHANGED <<chapter, req>>
    BY DEF vars, tables
  <1> QED
    BY <1>1 DEF PublicationInv, Undecided, ScheduleFollowsChapter, NothingIsReleasedEarly

\* Where a step of the board leaves its request.
LEMMA BoardGoes ==
    ASSUME CalendarInv, NEW s \in Boards, NEW step, NEW d
    PROVE  /\ PubEnter(s, step, d) \/ PubGoto(s, step) => pub'[s].pc = step
           /\ PubFinish(s) => pub'[s].pc = "idle"
  <1>1. pub \in [Boards -> PublicationRequest]
    BY DEF CalendarInv, PublicationTypeOK, PublicationRequest
  <1>2. ASSUME PubEnter(s, step, d) PROVE pub'[s].pc = step
    BY <1>1, <1>2 DEF PubEnter
  <1>3. ASSUME PubGoto(s, step) PROVE pub'[s].pc = step
    BY <1>1, <1>3 DEF PubGoto, PublicationRequest
  <1>4. ASSUME PubFinish(s) PROVE pub'[s].pc = "idle"
    BY <1>1, <1>4 DEF PubFinish, PubIdle
  <1> QED  BY <1>2, <1>3, <1>4

\* A request of the board that is done has nothing left to find as it was.
LEMMA BoardIsDone ==
    ASSUME CalendarInv, OneEach, NEW s \in Boards, PubFinish(s)
    PROVE  ScheduleIsAsRead'
  <1>1. pub'[s].pc = "idle"
    BY BoardGoes
  <1> QED  BY <1>1, OwnSlot DEF Creating

\* A step of the schedule, with no other request on the schedule in flight.
LEMMA ScheduleStepKeeps ==
    ASSUME CalendarInv, PublicationInv, OneEach, NEW s \in Boards, ScheduleSteps(s),
           UNCHANGED <<today, seriesStatus>>
    PROVE  PublicationInv'
  <1>0. /\ pub[s].pc \in Creating => chapter = "BOARD_APPROVED"
        /\ pub[s].pc = "create_reuse" => schedule = "CANCELLED"
        /\ pub[s].pc = "create_insert" => schedule = Absent
        /\ pub[s].pc \in {"cancel_write", "publish_commit"} => schedule = "SCHEDULED"
        /\ pub[s].pc = "publish_commit" => release <= today
    BY DEF PublicationInv, ScheduleIsAsRead
  <1>v. UNCHANGED vars => UNCHANGED chapter
    BY DEF vars, tables
  <1>1. ASSUME NEW d \in Days, CreateRead(s, d) PROVE PublicationInv'
    <2>1. chapter = "BOARD_APPROVED" /\ UNCHANGED <<vars, publicationRows>> /\ pub'[s].pc = "create_existing"
      BY <1>1, BoardGoes DEF CreateRead, mayCreate
    <2>2. ScheduleIsAsRead'
      BY <2>1, <1>v, OwnSlot DEF Creating
    <2> QED  BY <2>1, <2>2, RowsStay DEF publicationRows
  <1>2. CASE CreateReadExisting(s)
    <2>1. chapter = "BOARD_APPROVED" /\ UNCHANGED <<vars, publicationRows>>
      BY <1>0, <1>2 DEF CreateReadExisting, PubAt, Creating
    <2>2. ScheduleIsAsRead'
      <3>1. CASE schedule = Absent
        <4>1. pub'[s].pc = "create_insert"
          BY <1>2, <3>1, BoardGoes DEF CreateReadExisting, Absent
        <4> QED  BY <2>1, <3>1, <4>1, <1>v, OwnSlot DEF Creating, publicationRows
      <3>2. CASE schedule = "CANCELLED"
        <4>1. pub'[s].pc = "create_reuse"
          BY <1>2, <3>2, BoardGoes DEF CreateReadExisting, Absent
        <4> QED  BY <2>1, <3>2, <4>1, <1>v, OwnSlot DEF Creating, publicationRows
      <3>3. CASE schedule \notin {Absent, "CANCELLED"}
        BY <1>2, <3>3, BoardIsDone DEF CreateReadExisting
      <3> QED  BY <3>1, <3>2, <3>3
    <2> QED  BY <2>1, <2>2, RowsStay DEF publicationRows
  <1>3. CASE CreateReuse(s)
    <2>1. chapter = "BOARD_APPROVED" /\ schedule' = "SCHEDULED" /\ UNCHANGED vars /\ PubFinish(s)
      BY <1>0, <1>3 DEF CreateReuse, PubAt, Creating
    <2> QED  BY <2>1, BoardIsDone, DayIsSet
  <1>4. CASE CreateInsert(s)
    <2>1. chapter = "BOARD_APPROVED" /\ schedule' = "SCHEDULED" /\ UNCHANGED vars /\ PubFinish(s)
      BY <1>0, <1>4 DEF CreateInsert, PubAt, Creating
    <2> QED  BY <2>1, BoardIsDone, DayIsSet
  <1>5. CASE CancelRead(s)
    <2>1. schedule = "SCHEDULED" /\ UNCHANGED <<vars, publicationRows>> /\ pub'[s].pc = "cancel_write"
      BY <1>5, BoardGoes DEF CancelRead, mayCancel
    <2>2. ScheduleIsAsRead'
      BY <2>1, OwnSlot DEF Creating, publicationRows
    <2> QED  BY <2>1, <2>2, RowsStay DEF publicationRows
  <1>6. CASE CancelWrite(s)
    <2>1. schedule' \in {"CANCELLED", schedule} /\ schedule = "SCHEDULED" /\ UNCHANGED <<vars, release>>
      BY <1>0, <1>6 DEF CancelWrite, PubAt
    <2>2. ScheduleIsAsRead'
      BY <1>6, BoardIsDone DEF CancelWrite
    <2> QED  BY <2>1, <2>2, RowsStay
  <1>7. CASE PublishRead(s)
    <2>1. /\ schedule = "SCHEDULED" /\ release <= today
          /\ UNCHANGED <<vars, publicationRows>> /\ pub'[s].pc = "publish_commit"
      BY <1>7, BoardGoes DEF PublishRead, mayPublish
    <2>2. ScheduleIsAsRead'
      BY <2>1, OwnSlot DEF Creating, publicationRows
    <2> QED  BY <2>1, <2>2, RowsStay DEF publicationRows
  <1>8. CASE PublishCommit(s)
    <2>1. schedule = "SCHEDULED" /\ release <= today
      BY <1>0, <1>8 DEF PublishCommit, PubAt
    <2>2. chapter = "BOARD_APPROVED"
      BY <2>1 DEF PublicationInv, ScheduleFollowsChapter
    <2>3. schedule' = "PUBLISHED" /\ chapter' = "PUBLISHED" /\ UNCHANGED <<req, release, today>>
      BY <1>8, <2>1, <2>2 DEF PublishCommit
    <2>4. Undecided'
      BY <2>2, <2>3 DEF PublicationInv, Undecided
    <2>5. ScheduleIsAsRead'
      BY <1>8, BoardIsDone DEF PublishCommit
    <2> QED
      BY <2>1, <2>3, <2>4, <2>5 DEF PublicationInv, ScheduleFollowsChapter, NothingIsReleasedEarly
  <1> QED  BY <1>1, <1>2, <1>3, <1>4, <1>5, <1>6, <1>7, <1>8 DEF ScheduleSteps

\* A step that leaves chapter, schedule and requests, and does not go back in time.
LEMMA TimeKeeps ==
    ASSUME CalendarInv, PublicationInv, UNCHANGED <<vars, publicationRows, pub>>, today' \in Days,
           today <= today'
    PROVE  PublicationInv'
  <1>1. UNCHANGED <<chapter, req, schedule, release, pub>>
    BY DEF vars, tables, publicationRows
  <1>2. release \in Int /\ today \in Int /\ today' \in Int
    BY CalendarAssumption DEF CalendarInv, PublicationTypeOK, Days
  <1>3. release <= today => release <= today'
    BY <1>2
  <1>4. ScheduleIsAsRead' /\ Undecided'
    BY <1>1, <1>3 DEF PublicationInv, ScheduleIsAsRead, Undecided
  <1> QED
    BY <1>1, <1>3, <1>4 DEF PublicationInv, ScheduleFollowsChapter, NothingIsReleasedEarly

\* Every step keeps the schedule in step with the chapter.
LEMMA NextPublication ==
    ASSUME CalendarInv, PublicationInv, OneEach, [ScreensNext]_screensVars
    PROVE  PublicationInv'
  <1>t. today \in Days
    BY DEF CalendarInv, PublicationTypeOK
  <1>1. CASE UNCHANGED publicationVars
    <2>1. UNCHANGED <<vars, publicationRows, pub, today>>
      BY <1>1 DEF publicationVars
    <2> QED  BY <1>t, <2>1, CalendarAssumption, TimeKeeps DEF Days
  <1>2. ASSUME NEW r \in Reqs, ServerStep(r) \/ TabDecides(r),
               UNCHANGED <<publicationRows, today, seriesStatus, pub>>
        PROVE  PublicationInv'
    BY <1>2, ChapterStepKeeps DEF ServerStep
  <1>3. ASSUME NEW s \in Boards, ScheduleSteps(s), UNCHANGED <<today, seriesStatus>>
        PROVE  PublicationInv'
    BY <1>3, ScheduleStepKeeps
  <1>4. CASE NextDay
    <2>1. today' \in Days /\ today <= today' /\ UNCHANGED <<vars, publicationRows, pub>>
      BY <1>t, <1>4, CalendarAssumption DEF NextDay, Days
    <2> QED  BY <2>1, TimeKeeps
  <1>5. CASE SeriesStatusChanges
    <2>1. UNCHANGED <<vars, publicationRows, pub, today>>
      BY <1>5 DEF SeriesStatusChanges
    <2> QED  BY <1>t, <2>1, CalendarAssumption, TimeKeeps DEF Days
  <1> QED  BY <1>1, <1>2, <1>3, <1>4, <1>5 DEF ScreensNext, screensVars

\* While the production and the board make one request each at a time, the schedule and
\* the chapter tell the same story.
THEOREM PublicationInvariant == ScreensSpec => [](OneEach => PublicationInv)
  <1>1. ScreensInit => (OneEach => PublicationInv)
    BY InitPublication
  <1>2. CalendarInv /\ (OneEach => PublicationInv) /\ [ScreensNext]_screensVars
            => (OneEach => PublicationInv)'
    BY NextPublication DEF OneEach
  <1> QED  BY <1>1, <1>2, CalendarInvariant, PTL DEF ScreensSpec

\* A chapter is published exactly when its row is, and approved while a day is set.
THEOREM ScheduleStaysInStep == ScreensSpec => [](OneEach => ScheduleFollowsChapter)
  <1>1. (OneEach => PublicationInv) => (OneEach => ScheduleFollowsChapter)
    BY DEF PublicationInv
  <1> QED  BY <1>1, PublicationInvariant, PTL

\* No chapter is out before its day.
THEOREM NothingStaysEarly == ScreensSpec => [](OneEach => NothingIsReleasedEarly)
  <1>1. (OneEach => PublicationInv) => (OneEach => NothingIsReleasedEarly)
    BY DEF PublicationInv
  <1> QED  BY <1>1, PublicationInvariant, PTL

\* No step takes a published chapter back.
LEMMA PublishedStays ==
    ASSUME CalendarInv, PublicationInv, OneEach, [ScreensNext]_screensVars
    PROVE  chapter = "PUBLISHED" => chapter' = "PUBLISHED"
  <1> SUFFICES ASSUME chapter = "PUBLISHED" PROVE chapter' = "PUBLISHED"
    OBVIOUS
  <1>v. UNCHANGED vars => chapter' = chapter
    BY DEF vars, tables
  <1>1. CASE UNCHANGED publicationVars
    BY <1>1, <1>v DEF publicationVars
  <1>2. ASSUME NEW r \in Reqs, ServerStep(r) \/ TabDecides(r) PROVE chapter' = chapter
    <2>1. Guarded(r)
      BY <1>2, StepIsGuarded DEF ServerStep, CalendarInv, PublicationInv
    <2> QED  BY <2>1 DEF Guarded
  <1>3. ASSUME NEW s \in Boards, ScheduleSteps(s) PROVE chapter' = "PUBLISHED"
    BY <1>3, <1>v DEF ScheduleSteps, CreateRead, CreateReadExisting, CreateReuse, CreateInsert,
       CancelRead, CancelWrite, PublishRead, PublishCommit
  <1>4. CASE NextDay \/ SeriesStatusChanges
    BY <1>4, <1>v DEF NextDay, SeriesStatusChanges
  <1> QED  BY <1>1, <1>2, <1>3, <1>4 DEF ScreensNext, screensVars

\* A published chapter stays published: no review that is still under way takes it back.
THEOREM PublishedStaysFinal == ScreensSpec => (OneEach => PublishedIsFinal)
  <1>1. CalendarInv /\ (OneEach => PublicationInv) /\ [ScreensNext]_screensVars
            => (OneEach => [chapter = "PUBLISHED" => chapter' = "PUBLISHED"]_publicationVars)
    BY PublishedStays
  <1>2. OneEach => OneEach'
    BY DEF OneEach
  <1> QED
    BY <1>1, <1>2, CalendarInvariant, PublicationInvariant, PTL DEF ScreensSpec, PublishedIsFinal

-----------------------------------------------------------------------------
(* What the tabs show.  What is proved of the production run by itself     *)
(* holds under the pages too: a tab calls the same handlers, and a chapter *)
(* is published when no request works on it.                               *)

\* A chapter is published: no request works on its status or assigns its regions.
LEMMA PublishIsTold ==
    ASSUME TypeInv, OneSlot, SerialInv, Undecided, UNCHANGED <<work, req>>,
           chapter = "BOARD_APPROVED", chapter' = "PUBLISHED"
    PROVE  SerialInv'
  <1>1. UNCHANGED <<task, taskRegion, taskRows, accruals>> /\ TaskIds' = TaskIds
    BY DEF work, taskRows, submissionRows, TaskIds
  <1>2. ~UnderReview' /\ ~InProduction
    BY DEF UnderReview, InProduction
  <1>3. ASSUME NEW r \in Reqs PROVE Told(req[r])'
    <2>1. WorkTold(req[r]) /\ req[r].pc \notin ChapterPcs
      BY OwnTold DEF Undecided
    <2>2. WorkTold(req[r])'
      BY <1>1, <1>2, <2>1 DEF WorkTold
    <2>3. ChapterTold(req[r])'
      BY <2>1 DEF ChapterTold, ChapterPcs
    <2> QED  BY <2>2, <2>3 DEF Told
  <1> QED  BY <1>1, <1>2, <1>3, TasksStay DEF SerialInv, ReviewedChapterIsReady

\* A step of the schedule leaves the production alone, or publishes the chapter.
LEMMA ScheduleOnChapter ==
    ASSUME NEW s \in Boards, ScheduleSteps(s)
    PROVE  \/ UNCHANGED vars
           \/ UNCHANGED <<work, req>> /\ chapter = "BOARD_APPROVED" /\ chapter' = "PUBLISHED"
  <1>1. CASE PublishCommit(s)
    BY <1>1 DEF PublishCommit, vars, tables
  <1> QED
    BY <1>1 DEF ScheduleSteps, CreateRead, CreateReadExisting, CreateReuse, CreateInsert, CancelRead,
       CancelWrite, PublishRead

\* Every step, with one request of the production and one of the board at a time.
LEMMA ScreensKeepSerial ==
    ASSUME TypeInv, OneEach, Undecided, SerialInv, [ScreensNext]_screensVars
    PROVE  SerialInv'
  <1>o. OneSlot
    BY DEF OneEach, OneSlot
  <1>1. CASE UNCHANGED vars
    BY <1>1, <1>o, NextSerial
  <1>2. ASSUME NEW r \in Reqs, ServerStep(r) PROVE SerialInv'
    BY <1>2, <1>o, NextSerial DEF ServerStep, Next
  <1>3. ASSUME NEW r \in Reqs, TabDecides(r) PROVE SerialInv'
    BY <1>3, <1>o, ChapterCallIsTold DEF TabDecides, EditorDecides, reviewChapter, BoardReviewRead,
       ChapterStatus, boardMayMove
  <1>4. ASSUME NEW s \in Boards, ScheduleSteps(s) PROVE SerialInv'
    BY <1>1, <1>4, <1>o, ScheduleOnChapter, PublishIsTold
  <1> QED
    BY <1>1, <1>2, <1>3, <1>4 DEF ScreensNext, screensVars, publicationVars, NextDay, SeriesStatusChanges

\* What a handler has read still holds when it writes, whatever page asked for it.
THEOREM ScreensStaySerial == ScreensSpec => [](OneEach => SerialInv)
  <1>1. ScreensInit => (OneEach => SerialInv)
    BY InitSerial DEF ScreensInit, PublicationInit
  <1>2. CalendarInv /\ (OneEach => PublicationInv) /\ (OneEach => SerialInv)
            /\ [ScreensNext]_screensVars => (OneEach => SerialInv)'
    BY ScreensKeepSerial DEF OneEach, CalendarInv, PublicationInv
  <1> QED  BY <1>1, <1>2, CalendarInvariant, PublicationInvariant, PTL DEF ScreensSpec

\* One tab each, its answers in order, and nobody else to decide on the chapter.
DecidedOnThePages == OneEach /\ InOrder /\ {"editor", "board"} \cap Ops = {}

\* A tab that shows the chapter shows it under the review it is for, and as it is.
TabsAreCurrent ==
    /\ editorTab.at # "away" => chapter = "READY_FOR_EDITOR_REVIEW"
    /\ editorTab.at = "chapter" => editorTab.shown = EditorPages
    /\ boardTab.listed => chapter = "EDITOR_APPROVED"
    /\ boardTab.asked # NoPages => chapter = "EDITOR_APPROVED" /\ boardTab.asked = BoardPages
    /\ boardTab.shown # NoPages => chapter = "EDITOR_APPROVED" /\ boardTab.shown = BoardPages

\* What a request on the status of the chapter was called for; a decision of the board
\* is not called for while a copy is on its way.
CalledFor(q) ==
    /\ q.pc \in {"status_readiness", "status_write"} => ~UnderReview
    /\ q.pc \in {"editor_readiness", "editor_write"} => chapter = "READY_FOR_EDITOR_REVIEW"
    /\ q.pc = "board_write" => chapter = "EDITOR_APPROVED" /\ boardTab.asked = NoPages

TabsInv == TabsAreCurrent /\ \A r \in Reqs : CalledFor(req[r])

\* The copies that the tabs load are copies.
LEMMA CopiesAreTyped ==
    ASSUME TypeInv
    PROVE  EditorPages \in Copies /\ BoardPages \in Copies /\ NoPages \in Copies
  <1>1. currentVersion \in [Pages -> 0 .. MaxVersions] /\ 0 \in 0 .. MaxVersions
    BY BoundsAssumption DEF TypeInv, TypeOK
  <1>2. EditorPages \in [ListedPages -> 0 .. MaxVersions] /\ ListedPages \in SUBSET Pages
    BY <1>1 DEF EditorPages, ListedPages, ExistingPages
  <1>3. BoardPages \in [ExistingPages -> 0 .. MaxVersions] /\ ExistingPages \in SUBSET Pages
    BY <1>1 DEF BoardPages, ExistingPages
  <1> QED  BY <1>2, <1>3 DEF Copies

\* The tabs, at the start.
LEMMA InitTabs == ScreensInit => TabsTypeOK /\ TabsInv
  <1> SUFFICES ASSUME ScreensInit PROVE TabsTypeOK /\ TabsInv
    OBVIOUS
  <1>1. TabsTypeOK
    BY DEF ScreensInit, TabsTypeOK, Away, Closed, Copies
  <1>2. TabsInv
    BY DEF ScreensInit, PublicationInit, Init, InitEmpty, InitDrawn, Idle, TabsInv, TabsAreCurrent,
       CalledFor, Away, Closed
  <1> QED  BY <1>1, <1>2

\* Every step keeps the types of the tabs.
LEMMA NextTabsTypes ==
    ASSUME TypeInv, TabsTypeOK, [ScreensNext]_screensVars
    PROVE  TabsTypeOK'
  <1> USE CopiesAreTyped DEF TabsTypeOK
  <1>1. CASE UNCHANGED tabs
    BY <1>1 DEF tabs
  <1>2. ASSUME NEW r \in Reqs, ServerStep(r) PROVE TabsTypeOK'
    BY <1>2 DEF ServerStep, EditorAnswered, BoardAnswered, Away
  <1>3. CASE TabStep
    <2>1. CASE EditorOpensQueue \/ EditorOpensChapter
      BY <2>1 DEF EditorOpensQueue, EditorOpensChapter, Away
    <2>2. CASE BoardOpensPage \/ BoardReloads
      BY <2>2 DEF BoardOpensPage, BoardReloads, Closed, BoardQueued
    <2>3. CASE DetailAnswered \/ closeReview
      BY <2>3 DEF DetailAnswered, closeReview
    <2>4. CASE toggleDetail
      BY <2>4 DEF toggleDetail, loadDetail
    <2>5. ASSUME NEW d \in {"BOARD_APPROVED", "IN_PROGRESS"}, openReview(d) PROVE TabsTypeOK'
      BY <2>5 DEF openReview, loadDetail
    <2> QED  BY <1>3, <2>1, <2>2, <2>3, <2>4, <2>5 DEF TabStep
  <1> QED  BY <1>1, <1>2, <1>3 DEF ScreensNext, screensVars, tabs

\* The tabs are in the states that the pages have.
THEOREM TabsStayTyped == ScreensSpec => []TabsTypeOK
  <1>1. CalendarInv /\ TabsTypeOK /\ [ScreensNext]_screensVars => TabsTypeOK'
    BY NextTabsTypes DEF CalendarInv
  <1> QED  BY <1>1, InitTabs, CalendarInvariant, PTL DEF ScreensSpec

\* No step of a handler moves the work under review.
LEMMA WorkUnderReviewStands ==
    ASSUME TypeInv, OneEach, SerialInv, UnderReview, [ScreensNext]_screensVars
    PROVE  UNCHANGED work
  <1>o. OneSlot
    BY DEF OneEach, OneSlot
  <1>1. CASE UNCHANGED vars
    BY <1>1 DEF vars, tables
  <1>2. ASSUME NEW r \in Reqs, ServerStep(r) PROVE UNCHANGED work
    BY <1>2, <1>o, ReviewedStands DEF ServerStep, Next
  <1>3. ASSUME NEW r \in Reqs, TabDecides(r) PROVE UNCHANGED work
    BY <1>3 DEF TabDecides, EditorDecides, reviewChapter, EditorReviewRead, BoardReviewRead, tables
  <1>4. ASSUME NEW s \in Boards, ScheduleSteps(s) PROVE UNCHANGED work
    BY <1>1, <1>4, ScheduleOnChapter
  <1> QED
    BY <1>1, <1>2, <1>3, <1>4 DEF ScreensNext, screensVars, publicationVars, NextDay, SeriesStatusChanges

\* A step that leaves the chapter under review, and tabs that stay or are answered.
LEMMA TabsStay ==
    ASSUME TabsTypeOK, TabsAreCurrent, UnderReview => UNCHANGED tables,
           editorTab' \in {editorTab, EditorAnswered}, boardTab' \in {boardTab, BoardAnswered}
    PROVE  TabsAreCurrent'
  <1>1. UnderReview => chapter' = chapter /\ EditorPages' = EditorPages /\ BoardPages' = BoardPages
    BY DEF tables, work, pageRows, EditorPages, BoardPages, ListedPages, ExistingPages,
       HasCurrentVersion, VersionsOf
  <1>2. ~UnderReview => /\ editorTab.at = "away" /\ ~boardTab.listed
                        /\ boardTab.asked = NoPages /\ boardTab.shown = NoPages
    BY DEF TabsAreCurrent, UnderReview
  <1>3. \/ editorTab' = editorTab
        \/ editorTab'.at = "away"
    BY DEF EditorAnswered, Away
  <1>4. \/ boardTab' = boardTab
        \/ ~boardTab'.listed /\ boardTab'.asked = boardTab.asked /\ boardTab'.shown = NoPages
    BY DEF TabsTypeOK, BoardAnswered
  <1>5. CASE UnderReview
    BY <1>1, <1>3, <1>4, <1>5 DEF TabsAreCurrent
  <1>6. CASE ~UnderReview
    <2>1. /\ editorTab'.at = "away" /\ ~boardTab'.listed
          /\ boardTab'.asked = NoPages /\ boardTab'.shown = NoPages
      BY <1>2, <1>3, <1>4, <1>6
    <2> QED  BY <2>1 DEF TabsAreCurrent
  <1> QED  BY <1>5, <1>6

\* A step of a request, said of its own slot.
LEMMA OwnCall ==
    ASSUME OneEach, NEW r \in Reqs, CalledFor(req[r])'
    PROVE  \A q \in Reqs : CalledFor(req[q])'
  <1> QED  BY DEF OneEach

\* A decision that a tab asks for.
LEMMA DecisionIsCalledFor ==
    ASSUME TypeInv, TabsTypeOK, TabsInv, DecidedOnThePages, NEW r \in Reqs, TabDecides(r), UNCHANGED tabs
    PROVE  TabsInv'
  <1>0. UNCHANGED tables
    BY DEF TabDecides, EditorDecides, reviewChapter, EditorReviewRead, BoardReviewRead
  <1>1. TabsAreCurrent'
    BY <1>0, TabsStay DEF TabsInv, tabs
  <1>2. chapter' = chapter /\ boardTab' = boardTab
    BY <1>0 DEF tables, tabs
  <1>3. ASSUME NEW target \in ChapterStatus, EditorDecides(r, target) PROVE CalledFor(req[r])'
    <2>1. chapter = "READY_FOR_EDITOR_REVIEW"
      BY <1>3 DEF EditorDecides, TabsInv, TabsAreCurrent
    <2>2. req'[r].pc \in {"editor_readiness", "editor_write"}
      BY <1>3 DEF EditorDecides, EditorReviewRead, Enter, Idle, TypeInv, TypeOK
    <2> QED  BY <1>2, <2>1, <2>2 DEF CalledFor
  <1>4. ASSUME reviewChapter(r) PROVE CalledFor(req[r])'
    <2>1. chapter = "EDITOR_APPROVED" /\ boardTab.asked = NoPages
      BY <1>4 DEF reviewChapter, TabsInv, TabsAreCurrent, DecidedOnThePages
    <2>2. req'[r].pc = "board_write"
      BY <1>4 DEF reviewChapter, BoardReviewRead, Enter, Idle, TypeInv, TypeOK
    <2> QED  BY <1>2, <2>1, <2>2 DEF CalledFor
  <1> QED  BY <1>1, <1>3, <1>4, OwnCall DEF TabDecides, TabsInv, DecidedOnThePages

\* A request that is not on the status of the chapter.
LEMMA ElsewhereIsCalledFor ==
    ASSUME NEW r \in Reqs, Elsewhere(r)
    PROVE  CalledFor(req[r])'
  <1> QED  BY DEF Elsewhere, CalledFor, ChapterPcs

\* With decisions made on the two pages only, a call is the mangaka's, or elsewhere.
LEMMA CallOnPages ==
    ASSUME TypeInv, DecidedOnThePages, NEW r \in Reqs, Call(r)
    PROVE  Elsewhere(r) \/ \E target \in ChapterStatus : SetStatusRead(r, target)
  <1> QED  BY CallElsewhere DEF DecidedOnThePages

\* A handler writes the chapter under review only as its tab has asked.
LEMMA AnswerIsSeen ==
    ASSUME TypeInv, TabsTypeOK, TabsInv, DecidedOnThePages, NEW r \in Reqs, ServerStep(r),
           SetStatusWrite(r) \/ EditorReviewWrite(r) \/ BoardReviewWrite(r)
    PROVE  TabsAreCurrent'
  <1>0. CalledFor(req[r]) /\ TabsAreCurrent /\ chapter' = req[r].status
    BY DEF TabsInv, SetStatusWrite, EditorReviewWrite, BoardReviewWrite, WriteChapter
  <1>1. CASE SetStatusWrite(r)
    <2>1. ~UnderReview /\ UNCHANGED tabs
      BY <1>0, <1>1 DEF SetStatusWrite, At, CalledFor, ServerStep, Decided, tabs
    <2> QED  BY <1>0, <2>1, TabsStay DEF tabs
  <1>2. CASE EditorReviewWrite(r)
    <2>1. chapter = "READY_FOR_EDITOR_REVIEW" /\ editorTab' = Away /\ boardTab' = boardTab
      BY <1>0, <1>2 DEF EditorReviewWrite, At, CalledFor, ServerStep, Decided, EditorAnswered
    <2> QED  BY <1>0, <2>1 DEF TabsAreCurrent, Away
  <1>3. CASE BoardReviewWrite(r)
    <2>1. /\ chapter = "EDITOR_APPROVED" /\ boardTab.asked = NoPages
          /\ editorTab' = editorTab /\ boardTab' = BoardAnswered
      BY <1>0, <1>3 DEF BoardReviewWrite, At, CalledFor, ServerStep, Decided
    <2>2. ~boardTab'.listed /\ boardTab'.asked = NoPages /\ boardTab'.shown = NoPages
      BY <2>1 DEF TabsTypeOK, BoardAnswered
    <2> QED  BY <1>0, <2>1, <2>2 DEF TabsAreCurrent
  <1> QED  BY <1>1, <1>2, <1>3

\* A step of a handler.
LEMMA ServerKeepsTabs ==
    ASSUME TypeInv, TabsTypeOK, TabsInv, SerialInv, DecidedOnThePages, NEW r \in Reqs, ServerStep(r),
           UnderReview => UNCHANGED work
    PROVE  TabsInv'
  <1>t. editorTab' \in {editorTab, EditorAnswered} /\ boardTab' \in {boardTab, BoardAnswered}
    BY DEF ServerStep
  <1>c. CalledFor(req[r]) /\ TabsAreCurrent
    BY DEF TabsInv
  <1>s. ASSUME chapter' = chapter, CalledFor(req[r])' PROVE TabsInv'
    <2>1. TabsAreCurrent'
      BY <1>c, <1>s, <1>t, TabsStay DEF tables
    <2> QED  BY <1>s, <2>1, OwnCall DEF TabsInv, DecidedOnThePages
  <1>e. ASSUME Elsewhere(r) PROVE TabsInv'
    BY <1>e, <1>s, ElsewhereIsCalledFor DEF Elsewhere
  <1>1. CASE Call(r)
    <2>1. CASE Elsewhere(r)
      BY <2>1, <1>e
    <2>2. ASSUME NEW target \in ChapterStatus, SetStatusRead(r, target) PROVE TabsInv'
      <3>1. chapter' = chapter /\ ~UnderReview
        BY <2>2 DEF SetStatusRead, tables, canTransition, MANGAKA_CHAPTER_TRANSITIONS, UnderReview, maySetStatus
      <3>2. req'[r].pc \in {"status_readiness", "status_write"}
        BY <2>2 DEF SetStatusRead, Enter, Idle, TypeInv, TypeOK
      <3>3. CalledFor(req[r])'
        BY <3>1, <3>2 DEF CalledFor, UnderReview
      <3> QED  BY <3>1, <3>3, <1>s
    <2> QED  BY <1>1, <2>1, <2>2, CallOnPages
  <1>2. CASE Progress(r)
    <2>1. CASE TaskSteps(r) \/ SubmissionSteps(r) \/ SyncSteps(r) \/ StudioSteps(r) \/ PageSteps(r)
      BY <2>1, <1>e, TaskStepsElsewhere, SubmissionStepsElsewhere, SyncStepsElsewhere,
         StudioStepsElsewhere, PageStepsElsewhere
    <2>2. CASE SetStatusCheckReadiness(r) \/ EditorCheckReadiness(r)
      <3>1. CASE Finish(r)
        BY <2>2, <3>1, <1>e, FinishElsewhere DEF SetStatusCheckReadiness, EditorCheckReadiness, tables
      <3>2. CASE ~Finish(r)
        <4>1. UNCHANGED tables
          BY <2>2 DEF SetStatusCheckReadiness, EditorCheckReadiness
        <4>2. \/ req[r].pc = "status_readiness" /\ req'[r].pc = "status_write"
              \/ req[r].pc = "editor_readiness" /\ req'[r].pc = "editor_write"
          BY <2>2, <3>2 DEF SetStatusCheckReadiness, EditorCheckReadiness, At, Goto, TypeInv, TypeOK, Request
        <4>3. CalledFor(req[r])'
          BY <1>c, <4>1, <4>2 DEF CalledFor, tables, UnderReview
        <4> QED  BY <4>1, <4>3, <1>s DEF tables
      <3> QED  BY <3>1, <3>2
    <2>3. CASE SetStatusWrite(r) \/ EditorReviewWrite(r) \/ BoardReviewWrite(r)
      <3>1. TabsAreCurrent'
        BY <2>3, AnswerIsSeen
      <3>2. CalledFor(req[r])'
        BY <2>3, WriteIsDecided DEF CalledFor, ChapterPcs
      <3> QED  BY <3>1, <3>2, OwnCall DEF TabsInv, DecidedOnThePages
    <2> QED  BY <1>2, <2>1, <2>2, <2>3 DEF Progress, ChapterSteps
  <1>3. CASE Fail(r)
    BY <1>3, <1>e, FinishElsewhere DEF Fail, tables
  <1> QED  BY <1>1, <1>2, <1>3 DEF ServerStep

\* What a user does in a tab.
LEMMA UserKeepsTabs ==
    ASSUME TypeInv, TabsTypeOK, TabsInv, TabStep, UNCHANGED vars
    PROVE  TabsInv'
  <1>1. /\ chapter' = chapter /\ req' = req /\ (UnderReview' <=> UnderReview)
        /\ EditorPages' = EditorPages /\ BoardPages' = BoardPages
    BY DEF vars, tables, work, pageRows, EditorPages, BoardPages, ListedPages, ExistingPages,
       HasCurrentVersion, VersionsOf, UnderReview
  <1>2. ASSUME boardTab' = boardTab PROVE \A r \in Reqs : CalledFor(req[r])'
    BY <1>1, <1>2 DEF TabsInv, CalledFor
  <1>3. ASSUME boardTab'.asked = NoPages \/ boardTab'.asked = boardTab.asked \/ ~boardProcessing
        PROVE  \A r \in Reqs : CalledFor(req[r])'
    BY <1>1, <1>3 DEF TabsInv, CalledFor, boardProcessing, InFlight
  <1>4. CASE EditorOpensQueue
    <2>1. TabsAreCurrent'
      BY <1>1, <1>4 DEF EditorOpensQueue, EditorQueued, Away, TabsInv, TabsAreCurrent
    <2> QED  BY <1>2, <1>4, <2>1 DEF EditorOpensQueue, TabsInv
  <1>5. CASE EditorOpensChapter
    <2>1. TabsAreCurrent'
      BY <1>1, <1>5 DEF EditorOpensChapter, TabsInv, TabsAreCurrent
    <2> QED  BY <1>2, <1>5, <2>1 DEF EditorOpensChapter, TabsInv
  <1>6. CASE BoardOpensPage
    <2>1. TabsAreCurrent' /\ boardTab'.asked = NoPages
      BY <1>1, <1>6 DEF BoardOpensPage, Closed, BoardQueued, TabsInv, TabsAreCurrent
    <2> QED  BY <1>3, <2>1 DEF TabsInv
  <1>7. CASE BoardReloads
    <2>1. TabsAreCurrent' /\ boardTab'.asked = boardTab.asked
      BY <1>1, <1>7 DEF BoardReloads, BoardQueued, TabsInv, TabsAreCurrent, TabsTypeOK
    <2> QED  BY <1>3, <2>1 DEF TabsInv
  <1>8. CASE DetailAnswered
    <2>1. TabsAreCurrent' /\ boardTab'.asked = NoPages
      BY <1>1, <1>8 DEF DetailAnswered, TabsInv, TabsAreCurrent, TabsTypeOK
    <2> QED  BY <1>3, <2>1 DEF TabsInv
  <1>9. CASE toggleDetail
    <2>1. TabsAreCurrent' /\ ~boardProcessing
      BY <1>1, <1>9 DEF toggleDetail, loadDetail, TabsInv, TabsAreCurrent, TabsTypeOK
    <2> QED  BY <1>3, <2>1 DEF TabsInv
  <1>10. CASE closeReview
    <2>1. TabsAreCurrent' /\ ~boardProcessing
      BY <1>1, <1>10 DEF closeReview, TabsInv, TabsAreCurrent, TabsTypeOK
    <2> QED  BY <1>3, <2>1 DEF TabsInv
  <1>11. ASSUME NEW d \in {"BOARD_APPROVED", "IN_PROGRESS"}, openReview(d) PROVE TabsInv'
    <2>1. TabsAreCurrent' /\ ~boardProcessing
      BY <1>1, <1>11 DEF openReview, loadDetail, TabsInv, TabsAreCurrent, TabsTypeOK
    <2> QED  BY <1>3, <2>1 DEF TabsInv
  <1> QED  BY <1>4, <1>5, <1>6, <1>7, <1>8, <1>9, <1>10, <1>11 DEF TabStep

\* A step of the schedule, or none, under open tabs.
LEMMA OthersKeepTabs ==
    ASSUME TabsTypeOK, TabsInv, UNCHANGED <<tabs, req>>, UnderReview => UNCHANGED tables,
           UNCHANGED tables \/ chapter' = "PUBLISHED"
    PROVE  TabsInv'
  <1>1. TabsAreCurrent'
    BY TabsStay DEF TabsInv, tabs
  <1>2. UnderReview => chapter' = chapter
    BY DEF tables
  <1>3. UnderReview' => UnderReview
    BY DEF UnderReview, tables
  <1>4. ASSUME NEW r \in Reqs PROVE CalledFor(req[r])'
    BY <1>2, <1>3 DEF TabsInv, CalledFor, UnderReview, tabs
  <1> QED  BY <1>1, <1>4 DEF TabsInv

\* Every step keeps the tabs current.
LEMMA NextTabs ==
    ASSUME TypeInv, TabsTypeOK, TabsInv, SerialInv, DecidedOnThePages, [ScreensNext]_screensVars
    PROVE  TabsInv'
  <1>w. UnderReview => UNCHANGED work
    BY WorkUnderReviewStands DEF DecidedOnThePages
  <1>1. CASE UNCHANGED vars /\ UNCHANGED tabs
    BY <1>1, OthersKeepTabs DEF vars
  <1>2. ASSUME NEW r \in Reqs, ServerStep(r) PROVE TabsInv'
    BY <1>2, <1>w, ServerKeepsTabs
  <1>3. ASSUME NEW r \in Reqs, TabDecides(r), UNCHANGED tabs PROVE TabsInv'
    BY <1>3, DecisionIsCalledFor
  <1>4. CASE TabStep /\ UNCHANGED vars
    BY <1>4, UserKeepsTabs
  <1>5. ASSUME NEW s \in Boards, ScheduleSteps(s), UNCHANGED tabs PROVE TabsInv'
    <2>1. CASE UNCHANGED <<work, req>> /\ chapter = "BOARD_APPROVED" /\ chapter' = "PUBLISHED"
      BY <1>5, <2>1, OthersKeepTabs DEF UnderReview
    <2> QED  BY <1>1, <1>5, <2>1, ScheduleOnChapter
  <1> QED
    BY <1>1, <1>2, <1>3, <1>4, <1>5
    DEF ScreensNext, screensVars, publicationVars, NextDay, SeriesStatusChanges

\* Where the chapter is decided upon on the two pages, what they show is the chapter as it
\* is, for as long as they show it.
THEOREM TabsInvariant == ScreensSpec => [](DecidedOnThePages => TabsInv)
  <1>1. ScreensInit => (DecidedOnThePages => TabsInv)
    BY InitTabs
  <1>2. CalendarInv /\ TabsTypeOK /\ (OneEach => SerialInv) /\ (DecidedOnThePages => TabsInv)
            /\ [ScreensNext]_screensVars => (DecidedOnThePages => TabsInv)'
    BY NextTabs DEF DecidedOnThePages, OneEach, CalendarInv
  <1> QED  BY <1>1, <1>2, CalendarInvariant, TabsStayTyped, ScreensStaySerial, PTL DEF ScreensSpec

\* The editor and the board approve the chapter that they see.
THEOREM ApprovalsAreInformed == ScreensSpec => (DecidedOnThePages => ApprovedAsShown)
  <1> DEFINE Shown ==
        \A r \in Reqs :
          /\ (Decided(r, "editor_write") /\ editorTab.at = "chapter" /\ chapter' = "EDITOR_APPROVED")
                => editorTab.shown = EditorPages
          /\ (Decided(r, "board_write") /\ boardTab.shown # NoPages /\ chapter' = "BOARD_APPROVED")
                => boardTab.shown = BoardPages
  <1>1. TabsInv => Shown
    BY DEF TabsInv, TabsAreCurrent
  <1>2. (DecidedOnThePages => TabsInv) /\ [ScreensNext]_screensVars
            => (DecidedOnThePages => [Shown]_screensVars)
    BY <1>1
  <1>3. DecidedOnThePages => DecidedOnThePages'
    BY DEF DecidedOnThePages, OneEach
  <1> QED  BY <1>2, <1>3, TabsInvariant, PTL DEF ScreensSpec, ApprovedAsShown
-----------------------------------------------------------------------------
(* What the pages offer, and the handlers accept. *)

\* A step that leaves the rows of the production and its requests.
LEMMA RowsStayDrawn ==
    ASSUME SavesInv, DrawnInv, UNCHANGED <<work, req>>
    PROVE  SavesInv' /\ DrawnInv'
  <1> USE DEF work, pageRows, regionRows, taskRows, VersionsOf, At
  <1>1. SavesInv'
    BY DEF SavesInv, VersionsContiguous, SavesInOrder, ExistingPages
  <1>2. DrawnInv'
    BY DEF DrawnInv, HasCurrentVersion, TaskIds
  <1> QED  BY <1>1, <1>2

\* A decision that a tab asks for leaves the rows, and is neither a save nor a division.
LEMMA DecisionStaysDrawn ==
    ASSUME TypeInv, SavesInv, DrawnInv, NEW r \in Reqs, TabDecides(r)
    PROVE  SavesInv' /\ DrawnInv'
  <1>1. PICK q : Enter(r, q) /\ UNCHANGED tables
                     /\ q.pc \in {"editor_readiness", "editor_write", "board_write"}
    <2>1. ASSUME NEW target, EditorReviewRead(r, target)
          PROVE  \E q : Enter(r, q) /\ UNCHANGED tables
                           /\ q.pc \in {"editor_readiness", "editor_write", "board_write"}
      <3> DEFINE q == [Idle EXCEPT !.status = target, !.pc = IF target = "EDITOR_APPROVED"
                                                              THEN "editor_readiness" ELSE "editor_write"]
      <3>1. Enter(r, q) /\ UNCHANGED tables
        BY <2>1 DEF EditorReviewRead
      <3>2. q.pc \in {"editor_readiness", "editor_write"}
        BY DEF Idle
      <3> QED  BY <3>1, <3>2
    <2>2. ASSUME NEW target, BoardReviewRead(r, target)
          PROVE  \E q : Enter(r, q) /\ UNCHANGED tables
                           /\ q.pc \in {"editor_readiness", "editor_write", "board_write"}
      <3> DEFINE q == [Idle EXCEPT !.status = target, !.pc = "board_write"]
      <3>1. Enter(r, q) /\ UNCHANGED tables
        BY <2>2 DEF BoardReviewRead
      <3>2. q.pc = "board_write"
        BY DEF Idle
      <3> QED  BY <3>1, <3>2
    <2> QED  BY <2>1, <2>2 DEF TabDecides, EditorDecides, reviewChapter
  <1>2. Quiet(r) /\ Regionless(r)
    BY <1>1, EnterQuiet, EnterRegionless DEF Saving
  <1>3. SavesInv'
    BY <1>2, QuietSavesInv
  <1>4. UNCHANGED <<currentVersion, uploader, region, regionPage, task, assignee>>
    BY <1>1 DEF tables, work, pageRows, regionRows, taskRows
  <1>5. DrawnInv'
    BY <1>2, <1>4 DEF Regionless, DrawnInv, HasCurrentVersion, VersionsOf, TaskIds, At
  <1> QED  BY <1>3, <1>5

\* Every step keeps the saves in order and the regions on drawn pages.
LEMMA NextDrawn ==
    ASSUME TypeInv, SavesInv, DrawnInv, [ScreensNext]_screensVars
    PROVE  SavesInv' /\ DrawnInv'
  <1>1. CASE UNCHANGED vars
    BY <1>1, RowsStayDrawn DEF vars, tables
  <1>2. ASSUME NEW r \in Reqs, ServerStep(r) PROVE SavesInv' /\ DrawnInv'
    BY <1>2, NextSavesInv, StepKeepsDrawn DEF ServerStep, Next
  <1>3. ASSUME NEW r \in Reqs, TabDecides(r) PROVE SavesInv' /\ DrawnInv'
    BY <1>3, DecisionStaysDrawn
  <1>4. ASSUME NEW s \in Boards, ScheduleSteps(s) PROVE SavesInv' /\ DrawnInv'
    BY <1>1, <1>4, ScheduleOnChapter, RowsStayDrawn
  <1> QED
    BY <1>1, <1>2, <1>3, <1>4 DEF ScreensNext, screensVars, publicationVars, NextDay, SeriesStatusChanges

\* Whatever the browser sends: regions lie on drawn pages, tasks have assistants.
THEOREM ScreensStayDrawn == ScreensSpec => [](SavesInv /\ DrawnInv)
  <1>1. ScreensInit => SavesInv /\ DrawnInv
    BY InitSavesInv, InitDrawnInv DEF ScreensInit, PublicationInit
  <1>2. CalendarInv /\ (SavesInv /\ DrawnInv) /\ [ScreensNext]_screensVars => (SavesInv /\ DrawnInv)'
    BY NextDrawn DEF CalendarInv
  <1> QED  BY <1>1, <1>2, CalendarInvariant, PTL DEF ScreensSpec

\* The buttons of a task and of a submission.
LEMMA WorkButtonsAreTaken ==
    ASSUME TypeInv, NEW o \in TasksPage \cup ReviewQueuePage
    PROVE  Accepts(o) \/ LeftBehind(o)
  <1>1. ASSUME NEW a \in Assistants, NEW t \in UnfinishedTasks(a), o \in TaskButtons(t)
        PROVE  Accepts(o)
    <2>1. t \in TaskIds /\ assignee[t] = a /\ task[t] \in {"ASSIGNED", "IN_PROGRESS", "REVISION_REQUIRED"}
      BY <1>1 DEF UnfinishedTasks, MyTasks, TaskIds, TypeInv, TypeOK, TaskStatus
    <2>2. CASE o = <<"start", t>> /\ task[t] = "ASSIGNED"
      <3>1. mayStart(t)
        BY <2>1, <2>2 DEF mayStart, canTransition, TASK_TRANSITIONS
      <3> QED  BY <2>2, <3>1 DEF Accepts
    <2>3. CASE o = <<"submit", t>> /\ task[t] # "ASSIGNED"
      <3>1. maySubmit(t)
        BY <2>1, <2>3 DEF maySubmit, canTransition, TASK_TRANSITIONS
      <3> QED  BY <2>3, <3>1 DEF Accepts
    <2>4. CASE o = <<"draw", t>>
      <3>1. PageOf(t) \in ExistingPages
        BY <2>1, TaskIsOnPage
      <3>2. t \in TasksOn(PageOf(t))
        BY <2>1 DEF TasksOn
      <3>3. maySave(assignee[t], PageOf(t))
        BY <2>1, <3>1, <3>2 DEF maySave, CanWritePage
      <3> QED  BY <2>4, <3>3 DEF Accepts
    <2> QED  BY <1>1, <2>2, <2>3, <2>4 DEF TaskButtons, SubmitDialog
  <1>2. ASSUME NEW s \in SubmissionQueue, o \in ReviewButtons(s), ~LeftBehind(o)
        PROVE  Accepts(o)
    <2>1. PICK t \in TaskIds, v \in SubmissionVersions, d \in Decisions :
             s = <<t, v>> /\ o = <<"review", t, v, d>>
      BY <1>2 DEF SubmissionQueue, ReviewButtons
    <2>2. submission[t][v] \in {"PENDING", "UNDER_REVIEW"}
      BY <1>2, <2>1 DEF SubmissionQueue
    <2>3. task[t] = "SUBMITTED"
      BY <1>2, <2>1 DEF LeftBehind
    <2>4. mayReview(t, v, d)
      BY <2>1, <2>2, <2>3 DEF mayReview, SubmissionsOf, Absent, canTransition, SUBMISSION_TRANSITIONS,
         TASK_TRANSITIONS, Decisions
    <2> QED  BY <2>1, <2>4 DEF Accepts
  <1> QED  BY <1>1, <1>2 DEF TasksPage, ReviewQueuePage

\* The buttons of the workspace.
LEMMA WorkspaceIsTaken ==
    ASSUME TypeInv, NEW o \in WorkspacePage
    PROVE  Accepts(o)
  <1>0. EditableForPages /\ EditableForAssign /\ EditableForStudio
    BY DEF WorkspacePage, isChapterLocked, EditableForPages, EditableForAssign, EditableForStudio
  <1>1. CASE o = <<"upload">>
    BY <1>0, <1>1 DEF Accepts
  <1>2. ASSUME NEW p \in ListedPages, o = <<"retouch", p>> PROVE Accepts(o)
    <2>1. maySave(Mangaka, p)
      BY <1>0, <1>2 DEF maySave, CanWritePage, ListedPages
    <2> QED  BY <1>2, <2>1 DEF Accepts
  <1>3. ASSUME NEW p \in ListedPages, o = <<"region", p>> PROVE Accepts(o)
    <2>1. mayDivide(p)
      BY <1>0 DEF mayDivide, ListedPages
    <2> QED  BY <1>3, <2>1 DEF Accepts
  <1>4. ASSUME NEW p \in ListedPages, NEW g \in RegionsOn(p), o \in AssignDialog(g) PROVE Accepts(o)
    <2>1. region[g] = "LIVE" /\ ~HasTask(g)
      BY <1>4 DEF RegionsOn, AssignDialog
    <2>2. mayAssign(g) /\ mayDelete(g)
      BY <1>0, <2>1 DEF mayAssign, mayDelete
    <2>3. CASE o = <<"unregion", g>>
      BY <2>2, <2>3 DEF Accepts
    <2>4. ASSUME NEW a \in Assistants, o = <<"assign", g, a>> PROVE Accepts(o)
      BY <2>1, <2>2, <2>4 DEF Accepts
    <2> QED  BY <1>4, <2>3, <2>4 DEF AssignDialog, AssignForm
  <1> QED  BY <1>1, <1>2, <1>3, <1>4 DEF WorkspacePage, PageCanvas

\* The buttons of a chapter, and those of the schedule.
LEMMA ChapterButtonsAreTaken ==
    ASSUME NEW o \in SeriesDetailPage \cup EditorQueuePage \cup ChapterApprovalPage
                         \cup ScheduleForm \cup ScheduleButtons
    PROVE  Accepts(o)
  <1>1. CASE o \in SeriesDetailPage
    <2>1. PICK move \in NEXT : o = <<"status", move[2]>> /\ move[1] = chapter
      BY <1>1 DEF SeriesDetailPage
    <2>2. maySetStatus(move[2])
      BY <2>1 DEF NEXT, maySetStatus, canTransition, MANGAKA_CHAPTER_TRANSITIONS
    <2> QED  BY <2>1, <2>2 DEF Accepts
  <1>2. CASE o \in EditorQueuePage
    <2>1. PICK target \in {"EDITOR_APPROVED", "IN_PROGRESS"} :
             o = <<"editor", target>> /\ chapter = "READY_FOR_EDITOR_REVIEW"
      BY <1>2 DEF EditorQueuePage, EditorQueued
    <2>2. editorMayMove(target)
      BY <2>1 DEF editorMayMove, canTransition, CHAPTER_TRANSITIONS
    <2> QED  BY <2>1, <2>2 DEF Accepts
  <1>3. CASE o \in ChapterApprovalPage
    <2>1. PICK target \in {"BOARD_APPROVED", "IN_PROGRESS"} :
             o = <<"board", target>> /\ chapter = "EDITOR_APPROVED"
      BY <1>3 DEF ChapterApprovalPage, BoardQueued
    <2>2. boardMayMove(target)
      BY <2>1 DEF boardMayMove
    <2> QED  BY <2>1, <2>2 DEF Accepts
  <1>4. CASE o \in ScheduleForm
    <2>1. PICK d \in Days : o = <<"create", d>> /\ eligibleChapters /\ d >= today
      BY <1>4 DEF ScheduleForm
    <2>2. mayCreate(d) /\ schedule \in {Absent, "CANCELLED"}
      BY <2>1 DEF mayCreate, eligibleChapters
    <2> QED  BY <2>1, <2>2 DEF Accepts
  <1>5. CASE o = <<"publish">> /\ canPublish
    BY <1>5 DEF Accepts, canPublish, mayPublish
  <1>6. CASE o = <<"cancel">> /\ canCancel
    BY <1>6 DEF Accepts, canCancel, mayCancel
  <1> QED  BY <1>1, <1>2, <1>3, <1>4, <1>5, <1>6 DEF ScheduleButtons

\* A region on which a handler would act is shown on the canvas of its page.
LEMMA RegionsAreShown ==
    ASSUME TypeInv, DrawnInv, NEW g \in Regions, region[g] = "LIVE"
    PROVE  regionPage[g] \in ListedPages /\ g \in RegionsOn(regionPage[g])
  <1>1. region[g] # Absent
    BY StatusesAreDistinct
  <1> QED
    BY <1>1 DEF DrawnInv, TypeInv, RowsAreConnected, ListedPages, RegionsOn

\* What a handler would do about the work on a chapter is offered.
LEMMA WorkRequestsAreOffered ==
    ASSUME TypeInv, DrawnInv, NEW o, Accepts(o),
           \/ o \in {<<"submit", t>> : t \in TaskIds}
           \/ o \in {<<"assign", g, a>> : g \in Regions, a \in Assistants}
           \/ o \in {<<"unregion", g>> : g \in Regions}
           \/ o \in {<<"region", p>> : p \in ListedPages}
           \/ o = <<"upload">>
    PROVE  o \in Offers
  <1>e. ASSUME EditableForPages \/ EditableForAssign PROVE ~isChapterLocked
    BY <1>e DEF EditableForPages, EditableForAssign, isChapterLocked
  <1>1. ASSUME NEW t \in TaskIds, o = <<"submit", t>> PROVE o \in Offers
    <2>1. maySubmit(t)
      BY <1>1 DEF Accepts
    <2>2. task[t] \in {"IN_PROGRESS", "REVISION_REQUIRED"} /\ assignee[t] \in Assistants
      BY <2>1 DEF maySubmit, canTransition, TASK_TRANSITIONS, DrawnInv
    <2>3. t \in UnfinishedTasks(assignee[t])
      BY <2>2 DEF UnfinishedTasks, MyTasks
    <2>4. o \in TaskButtons(t)
      BY <1>1, <2>2 DEF TaskButtons, SubmitDialog
    <2> QED  BY <2>2, <2>3, <2>4 DEF TasksPage, Offers
  <1>2. ASSUME NEW g \in Regions, NEW a \in Assistants, o = <<"assign", g, a>> PROVE o \in Offers
    <2>1. mayAssign(g) /\ ~HasTask(g)
      BY <1>2 DEF Accepts
    <2>2. region[g] = "LIVE" /\ ~isChapterLocked
      BY <1>e, <2>1 DEF mayAssign
    <2>3. o \in PageCanvas(regionPage[g]) /\ regionPage[g] \in ListedPages
      BY <1>2, <2>1, <2>2, RegionsAreShown DEF PageCanvas, AssignDialog, AssignForm
    <2> QED  BY <2>2, <2>3 DEF WorkspacePage, Offers
  <1>3. ASSUME NEW g \in Regions, o = <<"unregion", g>> PROVE o \in Offers
    <2>1. mayDelete(g)
      BY <1>3 DEF Accepts
    <2>2. region[g] = "LIVE" /\ ~isChapterLocked /\ ~HasTask(g)
      BY <1>e, <2>1 DEF mayDelete
    <2>3. o \in PageCanvas(regionPage[g]) /\ regionPage[g] \in ListedPages
      BY <1>3, <2>1, <2>2, RegionsAreShown DEF PageCanvas, AssignDialog, AssignForm
    <2> QED  BY <2>2, <2>3 DEF WorkspacePage, Offers
  <1>4. ASSUME NEW p \in ListedPages, o = <<"region", p>> PROVE o \in Offers
    <2>1. mayDivide(p)
      BY <1>4 DEF Accepts
    <2>2. ~isChapterLocked
      BY <1>e, <2>1 DEF mayDivide
    <2> QED  BY <1>4, <2>2 DEF WorkspacePage, PageCanvas, Offers
  <1>5. CASE o = <<"upload">>
    <2>1. EditableForPages
      BY <1>5 DEF Accepts
    <2> QED  BY <1>5, <1>e, <2>1 DEF WorkspacePage, Offers
  <1> QED  BY <1>1, <1>2, <1>3, <1>4, <1>5

\* What a handler would do about the status of a chapter, or its schedule, is offered.
LEMMA ChapterMovesAreOffered ==
    ASSUME NEW o, Accepts(o),
           \/ o \in {<<op, s>> : op \in {"status", "board"}, s \in ChapterStatus}
           \/ o = <<"editor", "EDITOR_APPROVED">>
           \/ o \in {<<"create", d>> : d \in Days}
           \/ o \in {<<"cancel">>, <<"publish">>}
    PROVE  o \in Offers
  <1>1. ASSUME NEW s \in ChapterStatus, o = <<"status", s>> PROVE o \in Offers
    <2>1. maySetStatus(s)
      BY <1>1 DEF Accepts
    <2>2. <<chapter, s>> \in NEXT
      BY <2>1 DEF maySetStatus, canTransition, MANGAKA_CHAPTER_TRANSITIONS, NEXT
    <2>3. o \in SeriesDetailPage
      BY <1>1, <2>2 DEF SeriesDetailPage
    <2> QED  BY <2>3 DEF Offers
  <1>2. ASSUME NEW s \in ChapterStatus, o = <<"board", s>> PROVE o \in Offers
    <2>1. boardMayMove(s)
      BY <1>2 DEF Accepts
    <2>2. o \in ChapterApprovalPage
      BY <1>2, <2>1 DEF boardMayMove, ChapterApprovalPage, BoardQueued
    <2> QED  BY <2>2 DEF Offers
  <1>3. CASE o = <<"editor", "EDITOR_APPROVED">>
    <2>1. editorMayMove("EDITOR_APPROVED")
      BY <1>3 DEF Accepts
    <2>2. EditorQueued
      BY <2>1 DEF editorMayMove, canTransition, CHAPTER_TRANSITIONS, EditorQueued
    <2>3. o \in EditorQueuePage
      BY <1>3, <2>2 DEF EditorQueuePage
    <2> QED  BY <2>3 DEF Offers
  <1>4. ASSUME NEW d \in Days, o = <<"create", d>> PROVE o \in Offers
    <2>1. mayCreate(d) /\ schedule \in {Absent, "CANCELLED"}
      BY <1>4 DEF Accepts
    <2>2. o \in ScheduleForm
      BY <1>4, <2>1 DEF mayCreate, eligibleChapters, ScheduleForm
    <2> QED  BY <2>2 DEF Offers
  <1>5. CASE o = <<"cancel">>
    <2>1. mayCancel
      BY <1>5 DEF Accepts
    <2>2. o \in ScheduleButtons
      BY <1>5, <2>1 DEF mayCancel, canCancel, ScheduleButtons
    <2> QED  BY <2>2 DEF Offers
  <1>6. CASE o = <<"publish">>
    <2>1. mayPublish
      BY <1>6 DEF Accepts
    <2>2. o \in ScheduleButtons
      BY <1>6, <2>1 DEF mayPublish, canPublish, ScheduleButtons
    <2> QED  BY <2>2 DEF Offers
  <1> QED  BY <1>1, <1>2, <1>3, <1>4, <1>5, <1>6

\* However many requests are under way, and wherever one dies: no button of a page that
\* has just been loaded is refused for the status of its row, and what a handler would do
\* about a chapter is offered on some page.
THEOREM OffersAreAccepted == ScreensSpec => []PagesOfferWhatIsAccepted
  <1>1. CalendarInv /\ (SavesInv /\ DrawnInv) => PagesOfferWhatIsAccepted
    <2> SUFFICES ASSUME TypeInv, DrawnInv PROVE PagesOfferWhatIsAccepted
      BY DEF CalendarInv
    <2>1. ASSUME NEW o \in Offers PROVE Accepts(o) \/ LeftBehind(o)
      BY WorkButtonsAreTaken, WorkspaceIsTaken, ChapterButtonsAreTaken DEF Offers
    <2>2. ASSUME NEW o \in ChapterRequests, Accepts(o) PROVE o \in Offers
      BY <2>2, WorkRequestsAreOffered, ChapterMovesAreOffered DEF ChapterRequests
    <2> QED  BY <2>1, <2>2 DEF PagesOfferWhatIsAccepted
  <1> QED  BY <1>1, CalendarInvariant, ScreensStayDrawn, PTL

-----------------------------------------------------------------------------
(* The life of the chapter: the production and the schedule together        *)
(* implement ChapterLife, one request at a time on either side.             *)

\* Once a chapter is out of production every task it has is approved.
WorkIsDone == InProduction \/ \A t \in Tasks : task[t] \in {Absent, "APPROVED"}

\* The abstract production that ChapterLife goes on from is ProductionContract itself.
LEMMA SameProduction ==
    /\ Contract!Init <=> Life!Init
    /\ Contract!Next <=> Life!Next
    /\ Contract!contract = Life!contract
    /\ Life!Absent = Absent
  <1>1. /\ Contract!Absent = Life!Absent
        /\ Life!Absent = Absent
        /\ Contract!ChapterStatus = Life!ChapterStatus
        /\ Contract!TASK_TRANSITIONS = Life!TASK_TRANSITIONS
        /\ Contract!CHAPTER_TRANSITIONS = Life!CHAPTER_TRANSITIONS
    BY DEF Contract!Absent, Life!Absent, Absent, Contract!ChapterStatus, Life!ChapterStatus,
       Contract!TASK_TRANSITIONS, Life!TASK_TRANSITIONS,
       Contract!CHAPTER_TRANSITIONS, Life!CHAPTER_TRANSITIONS
  <1>2. /\ Contract!InProduction <=> Life!InProduction
        /\ Contract!AllApproved <=> Life!AllApproved
    BY <1>1 DEF Contract!InProduction, Life!InProduction, Contract!AllApproved, Life!AllApproved
  <1>3. /\ \A from, to : Contract!canTransition(Contract!TASK_TRANSITIONS, from, to)
                          <=> Life!canTransition(Life!TASK_TRANSITIONS, from, to)
        /\ \A from, to : Contract!canTransition(Contract!CHAPTER_TRANSITIONS, from, to)
                          <=> Life!canTransition(Life!CHAPTER_TRANSITIONS, from, to)
    BY <1>1 DEF Contract!canTransition, Life!canTransition
  <1>4. Contract!Init <=> Life!Init
    BY <1>1 DEF Contract!Init, Life!Init
  <1>5. Contract!Move <=> Life!Move
    BY <1>1, <1>2, <1>3 DEF Contract!Move, Life!Move
  <1>6. ASSUME NEW t \in Tasks
        PROVE  /\ Contract!Assign(t) <=> Life!Assign(t)
               /\ Contract!Work(t) <=> Life!Work(t)
               /\ Contract!Approve(t) <=> Life!Approve(t)
    BY <1>1, <1>2, <1>3 DEF Contract!Assign, Life!Assign, Contract!Work, Life!Work, Contract!Approve, Life!Approve
  <1>7. Contract!Next <=> Life!Next
    BY <1>5, <1>6 DEF Contract!Next, Life!Next
  <1> QED  BY <1>1, <1>4, <1>7 DEF Contract!contract, Life!contract

\* No task moves that is approved, or not there while nothing is assigned.
LEMMA DoneStandsStill ==
    ASSUME NEW t \in Tasks, task[t] \in {Absent, "APPROVED"}
    PROVE  /\ ~Contract!Work(t) /\ ~Contract!Approve(t)
           /\ Contract!Assign(t) => InProduction
  <1>1. ASSUME NEW to PROVE ~canTransition(TASK_TRANSITIONS, task[t], to)
    BY DEF canTransition, TASK_TRANSITIONS, Absent
  <1>2. ~Contract!Work(t)
    BY <1>1, SameMaps DEF Contract!Work
  <1>3. ~Contract!Approve(t)
    BY DEF Contract!Approve, Absent
  <1>4. Contract!Assign(t) => InProduction
    BY DEF Contract!Assign, Contract!InProduction, InProduction
  <1> QED  BY <1>2, <1>3, <1>4

\* A step of the contract leaves production only with all the work done.
LEMMA ContractKeepsDone ==
    ASSUME WorkIsDone, [Contract!Next]_Contract!contract
    PROVE  WorkIsDone'
  <1>1. CASE UNCHANGED Contract!contract
    BY <1>1 DEF Contract!contract, WorkIsDone, InProduction
  <1>2. CASE Contract!Move
    <2>1. PICK to : /\ canTransition(CHAPTER_TRANSITIONS, chapter, to)
                    /\ to # "IN_PROGRESS" => Contract!AllApproved
                    /\ chapter' = to
      BY <1>2, SameMaps DEF Contract!Move
    <2>2. UNCHANGED task
      BY <1>2 DEF Contract!Move
    <2>3. CASE to = "IN_PROGRESS"
      BY <2>1, <2>3 DEF WorkIsDone, InProduction
    <2>4. CASE to # "IN_PROGRESS"
      BY <2>1, <2>2, <2>4, SameMaps DEF WorkIsDone, Contract!AllApproved
    <2> QED  BY <2>3, <2>4
  <1>3. ASSUME NEW t \in Tasks, Contract!Assign(t) \/ Contract!Work(t) \/ Contract!Approve(t)
        PROVE  WorkIsDone'
    <2>1. InProduction
      BY <1>3, DoneStandsStill DEF WorkIsDone
    <2>2. UNCHANGED chapter
      BY <1>3 DEF Contract!Assign, Contract!Work, Contract!Approve
    <2> QED  BY <2>1, <2>2 DEF WorkIsDone, InProduction
  <1> QED  BY <1>1, <1>2, <1>3 DEF Contract!Next

\* After the board's approval the contract has no step left.
LEMMA ContractIsAtRest ==
    ASSUME WorkIsDone, chapter \in {"BOARD_APPROVED", "PUBLISHED"}, [Contract!Next]_Contract!contract
    PROVE  UNCHANGED Contract!contract
  <1>1. ~Contract!Move
    <2> SUFFICES ASSUME Contract!Move PROVE FALSE
      OBVIOUS
    <2>1. PICK to \in ChapterStatus \ {"PUBLISHED"} : canTransition(CHAPTER_TRANSITIONS, chapter, to)
      BY SameMaps DEF Contract!Move
    <2> QED  BY <2>1 DEF canTransition, CHAPTER_TRANSITIONS
  <1>2. ~InProduction
    BY DEF InProduction
  <1>3. ASSUME NEW t \in Tasks PROVE ~(Contract!Assign(t) \/ Contract!Work(t) \/ Contract!Approve(t))
    BY <1>2, DoneStandsStill DEF WorkIsDone
  <1> QED  BY <1>1, <1>3 DEF Contract!Next

\* A step of the production, as ChapterLife sees it.
LEMMA ProductionIsLife ==
    ASSUME WorkIsDone, [Contract!Next]_Contract!contract, UNCHANGED <<publicationRows, today>>
    PROVE  [Life!LifeNext]_Life!life
  <1>1. UNCHANGED <<schedule, release, today>>
    BY DEF publicationRows
  <1>2. CASE UNCHANGED Contract!contract
    BY <1>1, <1>2 DEF Life!life, Life!contract, Contract!contract
  <1>3. CASE Contract!Next /\ chapter \notin {"BOARD_APPROVED", "PUBLISHED"}
    BY <1>1, <1>3, SameProduction DEF Life!LifeNext, Life!Produce
  <1> QED  BY <1>2, <1>3, ContractIsAtRest

\* A step that none of the tables of ChapterLife notices.
LEMMA LifeStutters ==
    ASSUME UNCHANGED <<chapter, task, accruals, schedule, release, today>>
    PROVE  [Life!LifeNext]_Life!life
  <1> QED  BY DEF Life!life, Life!contract

\* A step of the schedule, as ChapterLife sees it.
LEMMA ScheduleIsLife ==
    ASSUME CalendarInv, PublicationInv, PaidOnce, WorkIsDone, NEW s \in Boards, ScheduleSteps(s),
           UNCHANGED today
    PROVE  [Life!LifeNext]_Life!life
  <1>0. /\ pub[s].pc \in Creating => chapter = "BOARD_APPROVED"
        /\ pub[s].pc = "create_reuse" => schedule = "CANCELLED"
        /\ pub[s].pc \in {"cancel_write", "publish_commit"} => schedule = "SCHEDULED"
        /\ pub[s].pc = "publish_commit" => release <= today
    BY DEF PublicationInv, ScheduleIsAsRead
  <1>v. UNCHANGED vars => UNCHANGED <<chapter, task, accruals>>
    BY DEF vars, tables, work, taskRows, submissionRows
  <1>d. pub[s].day \in 0 .. MaxDay
    BY DEF CalendarInv, PublicationTypeOK, Days
  <1>1. CASE UNCHANGED <<vars, publicationRows>>
    BY <1>1, <1>v, LifeStutters DEF publicationRows
  <1>2. CASE CreateReuse(s) \/ CreateInsert(s)
    <2>1. UNCHANGED <<chapter, task, accruals>> /\ chapter = "BOARD_APPROVED"
      BY <1>0, <1>2, <1>v DEF CreateReuse, CreateInsert, PubAt, Creating
    <2>2. \/ UNCHANGED publicationRows
          \/ schedule \in {Absent, "CANCELLED"} /\ schedule' = "SCHEDULED" /\ release' = pub[s].day
      BY <1>0, <1>2 DEF CreateReuse, CreateInsert, PubAt
    <2>3. CASE schedule \in {Absent, "CANCELLED"} /\ schedule' = "SCHEDULED" /\ release' = pub[s].day
      <3>1. Life!Schedule(pub[s].day)
        BY <2>1, <2>3, SameProduction DEF Life!Schedule, Life!contract
      <3> QED  BY <1>d, <3>1 DEF Life!LifeNext
    <2> QED  BY <2>1, <2>2, <2>3, LifeStutters DEF publicationRows
  <1>3. CASE CancelWrite(s)
    <2>1. Life!Cancel
      BY <1>0, <1>3, <1>v DEF CancelWrite, PubAt, Life!Cancel, Life!contract
    <2> QED  BY <2>1 DEF Life!LifeNext
  <1>4. CASE PublishCommit(s)
    <2>1. schedule = "SCHEDULED" /\ release <= today /\ chapter = "BOARD_APPROVED"
      BY <1>0, <1>4 DEF PublishCommit, PubAt, PublicationInv, ScheduleFollowsChapter
    <2>2. Life!Settled
      <3>1. \A t \in Tasks : task[t] \in {Absent, "APPROVED"}
        BY <2>1 DEF WorkIsDone, InProduction
      <3>2. Absent # "APPROVED"
        BY DEF Absent
      <3> QED  BY <3>1, <3>2, SameProduction DEF Life!Settled, PaidOnce
    <2>3. /\ chapter' = "PUBLISHED" /\ schedule' = "PUBLISHED"
          /\ UNCHANGED <<task, accruals, release>>
      BY <1>4, <2>1 DEF PublishCommit, work, taskRows, submissionRows
    <2>4. Life!Publish
      BY <2>1, <2>2, <2>3 DEF Life!Publish
    <2> QED  BY <2>4 DEF Life!LifeNext
  <1>5. CASE CreateReadExisting(s)
    <2>1. UNCHANGED <<vars, publicationRows>>
      BY <1>5 DEF CreateReadExisting
    <2> QED  BY <1>1, <2>1
  <1> QED
    BY <1>1, <1>2, <1>3, <1>4, <1>5 DEF ScheduleSteps, CreateRead, CancelRead, PublishRead

\* What every step of Screens is to the contract of the production: the board's publication
\* is a step of the schedule alone.
LEMMA ScreensKeepContract ==
    ASSUME TypeInv, OneSlot, SerialInv, NEW r \in Reqs, ServerStep(r) \/ TabDecides(r)
    PROVE  [Contract!Next]_Contract!contract
  <1>1. CASE ServerStep(r)
    BY <1>1, NextKeepsContract DEF ServerStep, Next
  <1>2. CASE TabDecides(r)
    <2>1. UNCHANGED tables
      BY <1>2, CallOnChapter DEF TabDecides, EditorDecides, reviewChapter, BoardReviewRead, EditorReviewRead
    <2> QED  BY <2>1, ContractStutters DEF tables, work, taskRows, submissionRows
  <1> QED  BY <1>1, <1>2

\* Every step is one of ChapterLife or none, and leaves production only with the work done.
LEMMA NextIsLife ==
    ASSUME CalendarInv, PublicationInv, OneEach, SerialInv, WorkIsDone, [ScreensNext]_screensVars
    PROVE  [Life!LifeNext]_Life!life /\ WorkIsDone'
  <1>o. TypeInv /\ OneSlot
    BY DEF CalendarInv, OneEach, OneSlot
  <1>v. UNCHANGED vars => UNCHANGED <<chapter, task, accruals>>
    BY DEF vars, tables, work, taskRows, submissionRows
  <1>1. CASE UNCHANGED publicationVars
    BY <1>1, <1>v, LifeStutters DEF publicationVars, publicationRows, WorkIsDone, InProduction
  <1>2. ASSUME NEW r \in Reqs, ServerStep(r) \/ TabDecides(r), UNCHANGED <<publicationRows, today>>
        PROVE  [Life!LifeNext]_Life!life /\ WorkIsDone'
    BY <1>o, <1>2, ScreensKeepContract, ProductionIsLife, ContractKeepsDone
  <1>3. ASSUME NEW s \in Boards, ScheduleSteps(s), UNCHANGED today
        PROVE  [Life!LifeNext]_Life!life /\ WorkIsDone'
    <2>1. [Life!LifeNext]_Life!life
      BY <1>3, ScheduleIsLife DEF SerialInv
    <2>2. UNCHANGED task /\ (chapter' = chapter \/ chapter = "BOARD_APPROVED")
      BY <1>v, <1>3, ScheduleOnChapter DEF work, taskRows
    <2> QED  BY <2>1, <2>2 DEF WorkIsDone, InProduction
  <1>4. CASE NextDay
    <2>1. Life!Midnight
      BY <1>v, <1>4 DEF NextDay, Life!Midnight, Life!contract, publicationRows
    <2> QED  BY <1>v, <1>4, <2>1 DEF Life!LifeNext, NextDay, WorkIsDone, InProduction
  <1>5. CASE SeriesStatusChanges
    BY <1>v, <1>5, LifeStutters DEF SeriesStatusChanges, publicationRows, WorkIsDone, InProduction
  <1> QED
    BY <1>1, <1>2, <1>3, <1>4, <1>5 DEF ScreensNext, screensVars

\* With one request at a time on the chapter and one on its schedule, wherever they die and
\* whatever the tabs show, every statement is a step in the life of a chapter or none:
\* nothing is assigned, reviewed or paid once the board has approved, and what comes out is
\* done, paid for once, and not before its day.
THEOREM HandlersLiveTheChapter == ScreensSpec => (OneEach => ImplementsLife)
  <1>1. ScreensInit => Life!LifeInit
    <2> SUFFICES ASSUME ScreensInit PROVE Life!LifeInit
      OBVIOUS
    <2>1. Contract!Init
      BY SameMaps DEF ScreensInit, PublicationInit, Init, InitEmpty, InitDrawn, Contract!Init
    <2> QED  BY <2>1, SameProduction DEF ScreensInit, PublicationInit, Life!LifeInit
  <1>2. ScreensInit => WorkIsDone
    BY DEF ScreensInit, PublicationInit, Init, InitEmpty, InitDrawn, WorkIsDone, InProduction
  <1>3. CalendarInv /\ (OneEach => PublicationInv) /\ (OneEach => SerialInv) /\ (OneEach => WorkIsDone)
            /\ [ScreensNext]_screensVars => (OneEach => [Life!LifeNext]_Life!life /\ WorkIsDone')
    BY NextIsLife
  <1>4. OneEach => OneEach'
    BY DEF OneEach
  <1> QED
    BY <1>1, <1>2, <1>3, <1>4, CalendarInvariant, PublicationInvariant, ScreensStaySerial, PTL
       DEF ScreensSpec, ImplementsLife, Life!LifeSpec
=============================================================================
