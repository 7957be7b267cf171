-------------------------- MODULE ProductionProofs --------------------------
(***************************************************************************)
(* Proofs about Production, for any pages, regions, assistants, tasks and  *)
(* versions.  The first part is about any number of requests in flight,    *)
(* with or without failures; the second part, from OneSlot on, about one   *)
(* request at a time.                                                      *)
(***************************************************************************)
EXTENDS Production, NumberLemmas, TLAPS

-----------------------------------------------------------------------------
(* The pure functions. *)

\* Whatever the statuses of its tasks, a page's derived status is one that
\* Page.page_status can hold, or none.
LEMMA DerivedIsPageStatus ==
    ASSUME NEW statuses
    PROVE  derivePageStatus(statuses) \in PageStatus \cup {NoStatus}
  BY DEF derivePageStatus, PageStatus, NoStatus

\* The sync writes the derived status or nothing.
LEMMA SyncTargetIsDerived ==
    ASSUME NEW current, NEW derived
    PROVE  syncTarget(current, derived) \in {derived, NoStatus}
  BY DEF syncTarget

-----------------------------------------------------------------------------
(* Type correctness: the types, the foreign keys and what requests in      *)
(* flight know about the rows are inductive together.                      *)

TypeInv == TypeOK /\ RowsAreConnected /\ RequestsFitRows

\* No status is spelled as the marks for a missing row or a missing status.
LEMMA StatusesAreDistinct ==
    /\ Absent \notin PageStatus /\ Absent \notin TaskStatus /\ Absent \notin SubmissionStatus
    /\ Absent # "LIVE" /\ Absent # "DELETED"
    /\ NoStatus \notin PageStatus
  BY DEF Absent, NoStatus, PageStatus, TaskStatus, SubmissionStatus

\* An empty slot is a request, and names no row.
LEMMA IdleFits == Idle \in Request /\ Fits(Idle)
  BY BoundsAssumption DEF Idle, Request, Fits, Steps, Statuses

\* Both initial chapters are well typed and connected.
LEMMA InitTypeInv == Init => TypeInv
  <1> SUFFICES ASSUME Init PROVE TypeInv
    OBVIOUS
  <1> USE BoundsAssumption, NamesAssumption
  <1>1. CASE InitEmpty
    <2>1. TypeOK
      BY <1>1, IdleFits DEF InitEmpty, TypeOK, ChapterStatus
    <2>2. RowsAreConnected
      BY <1>1 DEF InitEmpty, RowsAreConnected, TaskIds
    <2>3. RequestsFitRows
      BY <1>1, IdleFits DEF InitEmpty, RequestsFitRows
    <2> QED  BY <2>1, <2>2, <2>3 DEF TypeInv
  <1>2. CASE InitDrawn
    <2>1. TypeOK
      BY <1>2, IdleFits DEF InitDrawn, TypeOK, ChapterStatus, PageStatus, Pages, Users
    <2>2. RowsAreConnected
      BY <1>2 DEF InitDrawn, RowsAreConnected, TaskIds, ExistingPages, Pages, Absent
    <2>3. RequestsFitRows
      BY <1>2, IdleFits DEF InitDrawn, RequestsFitRows
    <2> QED  BY <2>1, <2>2, <2>3 DEF TypeInv
  <1> QED  BY <1>1, <1>2 DEF Init

\* A step of one request that changes no row.
LEMMA LocalStep ==
    ASSUME TypeInv, NEW r \in Reqs, UNCHANGED tables,
           req' \in [Reqs -> Request],
           \A s \in Reqs \ {r} : req'[s] = req[s],
           Fits(req[r])'
    PROVE  TypeInv'
  <1>1. TypeOK'
    BY DEF TypeInv, TypeOK, tables, work, pageRows, regionRows, taskRows, submissionRows
  <1>2. RowsAreConnected'
    BY DEF TypeInv, RowsAreConnected, TaskIds, ExistingPages, tables, work, pageRows, regionRows, taskRows
  <1>3. RequestsFitRows'
    BY DEF TypeInv, RequestsFitRows, Fits, TaskIds, ExistingPages, SubmissionsOf,
           tables, work, pageRows, regionRows, taskRows, submissionRows
  <1> QED  BY <1>1, <1>2, <1>3 DEF TypeInv

\* A step of one request that adds or changes rows and takes none away leaves the
\* locals of the others as fitting as they were.
LEMMA OthersStillFit ==
    ASSUME TypeInv, NEW r \in Reqs,
           \A s \in Reqs \ {r} : req'[s] = req[s],
           TaskIds \subseteq TaskIds', ExistingPages \subseteq ExistingPages',
           \A g \in Regions : region[g] # Absent => region'[g] # Absent,
           \A t \in Tasks : SubmissionsOf(t) \subseteq SubmissionsOf(t)',
           Fits(req[r])'
    PROVE  RequestsFitRows'
  <1> SUFFICES ASSUME NEW s \in Reqs, s # r PROVE Fits(req[s])'
    BY DEF RequestsFitRows
  <1>1. Fits(req[s]) /\ req'[s] = req[s]
    BY DEF TypeInv, RequestsFitRows
  <1>2. TaskIds \subseteq Tasks
    BY DEF TaskIds
  <1> QED
    BY <1>1, <1>2 DEF Fits

\* The request in slot r gives its slot up.
LEMMA FinishFits ==
    ASSUME TypeOK, NEW r \in Reqs, Finish(r)
    PROVE  /\ req' \in [Reqs -> Request]
           /\ \A s \in Reqs \ {r} : req'[s] = req[s]
           /\ Fits(req[r])'
  <1>1. req'[r] = Idle
    BY DEF TypeOK, Finish
  <1>2. Fits(req[r])'
    BY <1>1 DEF Fits, Idle
  <1> QED
    BY <1>2, IdleFits DEF TypeOK, Finish

\* ... or goes on with the next statement.
LEMMA GotoRequest ==
    ASSUME TypeOK, NEW r \in Reqs, NEW step \in Steps, Goto(r, step)
    PROVE  /\ req' \in [Reqs -> Request]
           /\ \A s \in Reqs \ {r} : req'[s] = req[s]
           /\ req'[r] = [req[r] EXCEPT !.pc = step]
           /\ req'[r].pc = step
           /\ req'[r].page = req[r].page
           /\ req'[r].region = req[r].region
           /\ req'[r].task = req[r].task
           /\ req'[r].user = req[r].user
           /\ req'[r].num = req[r].num
           /\ req'[r].status = req[r].status
           /\ req'[r].target = req[r].target
  <1>1. req[r] \in Request
    BY DEF TypeOK
  <1>2. /\ req' \in [Reqs -> Request]
        /\ \A s \in Reqs \ {r} : req'[s] = req[s]
        /\ req'[r] = [req[r] EXCEPT !.pc = step]
    BY DEF TypeOK, Goto, Request
  <1> QED
    BY <1>1, <1>2 DEF Request

\* ... or with the sync of a page.
LEMMA StartSyncFits ==
    ASSUME TypeOK, NEW r \in Reqs, NEW p \in ExistingPages', StartSync(r, p)
    PROVE  /\ req' \in [Reqs -> Request]
           /\ \A s \in Reqs \ {r} : req'[s] = req[s]
           /\ Fits(req[r])'
  <1>1. p \in Nat
    BY BoundsAssumption DEF ExistingPages, Pages
  <1>2. req'[r] = [Idle EXCEPT !.pc = "sync_tasks", !.page = p]
    BY DEF TypeOK, StartSync
  <1>3. [Idle EXCEPT !.pc = "sync_tasks", !.page = p] \in Request
    BY <1>1, IdleFits DEF Request, Steps
  <1>4. Fits(req[r])'
    BY <1>2 DEF Fits, Idle
  <1> QED
    BY <1>2, <1>3, <1>4 DEF TypeOK, StartSync

\* A slot that takes a request up holds exactly that request.
LEMMA EnterRequest ==
    ASSUME TypeOK, NEW r \in Reqs, NEW q \in Request, Enter(r, q)
    PROVE  /\ req' \in [Reqs -> Request]
           /\ \A s \in Reqs \ {r} : req'[s] = req[s]
           /\ req'[r] = q
  BY DEF TypeOK, Enter

\* The page of a task is there.
LEMMA TaskIsOnPage ==
    ASSUME TypeInv, NEW t \in TaskIds
    PROVE  PageOf(t) \in ExistingPages
  BY StatusesAreDistinct DEF TypeInv, TypeOK, RowsAreConnected, PageOf, TaskIds

-----------------------------------------------------------------------------
(* TaskService *)

\* assign captures a live region and an assistant.
LEMMA AssignReadInv ==
    ASSUME TypeInv, NEW r \in Reqs, NEW g \in Regions, NEW a \in Assistants, AssignRead(r, g, a)
    PROVE  TypeInv'
  <1> DEFINE q == [Idle EXCEPT !.pc = "assign_check", !.region = g, !.user = a]
  <1>1. q \in Request
    BY IdleFits DEF Request, Steps, Users
  <1>2. Fits(q)'
    BY StatusesAreDistinct DEF Fits, Idle, AssignRead, tables, work, regionRows, mayAssign
  <1> QED
    BY <1>1, <1>2, EnterRequest, LocalStep DEF AssignRead, TypeInv

\* The check of the region changes no row and keeps the locals.
LEMMA AssignCheckRegionInv ==
    ASSUME TypeInv, NEW r \in Reqs, AssignCheckRegion(r)
    PROVE  TypeInv'
  <1>1. CASE Finish(r)
    BY <1>1, FinishFits, LocalStep DEF AssignCheckRegion, TypeInv
  <1>2. CASE Goto(r, "assign_insert")
    <2>1. /\ req' \in [Reqs -> Request]
          /\ \A s \in Reqs \ {r} : req'[s] = req[s]
          /\ req'[r].pc = "assign_insert"
          /\ req'[r].region = req[r].region
          /\ req'[r].user = req[r].user
      BY <1>2, GotoRequest DEF TypeInv, Steps
    <2>2. Fits(req[r]) /\ UNCHANGED tables /\ At(r, "assign_check")
      BY DEF TypeInv, RequestsFitRows, AssignCheckRegion
    <2>3. Fits(req[r])'
      BY <2>1, <2>2 DEF Fits, At, tables, work, regionRows
    <2> QED
      BY <2>1, <2>2, <2>3, LocalStep
  <1> QED  BY <1>1, <1>2 DEF AssignCheckRegion

\* The new task is on a live region: the foreign key has refused any other.
LEMMA AssignInsertInv ==
    ASSUME TypeInv, NEW r \in Reqs, AssignInsert(r)
    PROVE  TypeInv'
  <1> DEFINE g == req[r].region
  <1>0. Fits(req[r]) /\ g \in Regions /\ req[r].user \in Assistants
    BY DEF TypeInv, RequestsFitRows, Fits, AssignInsert, At
  <1>1. CASE Finish(r) /\ UNCHANGED tables
    BY <1>1, FinishFits, LocalStep DEF TypeInv
  <1>2. ASSUME region[g] = "LIVE", NEW t \in Tasks, TaskIds = 1 .. (t - 1),
               task' = [task EXCEPT ![t] = "ASSIGNED"],
               taskRegion' = [taskRegion EXCEPT ![t] = g],
               assignee' = [assignee EXCEPT ![t] = req[r].user],
               StartSync(r, regionPage[g]),
               UNCHANGED <<chapter, pageRows, regionRows, submissionRows>>
        PROVE  TypeInv'
    <2>1. regionPage[g] \in ExistingPages'
      BY <1>0, <1>2, StatusesAreDistinct
      DEF TypeInv, RowsAreConnected, ExistingPages, pageRows
    <2>2. /\ req' \in [Reqs -> Request]
          /\ \A s \in Reqs \ {r} : req'[s] = req[s]
          /\ Fits(req[r])'
      BY <1>2, <2>1, StartSyncFits DEF TypeInv
    <2>3. TypeOK'
      BY <1>0, <1>2, <2>2
      DEF TypeInv, TypeOK, TaskStatus, pageRows, regionRows, submissionRows
    <2>4. TaskIds' = TaskIds \cup {t}
      BY <1>2, StatusesAreDistinct DEF TypeInv, TypeOK, TaskIds, TaskStatus
    <2>5. RowsAreConnected'
      <3>1. \A u \in TaskIds' : taskRegion'[u] # None /\ region[taskRegion'[u]] = "LIVE"
        BY <1>0, <1>2, <2>4, NamesAssumption DEF TypeInv, TypeOK, RowsAreConnected, TaskIds
      <3>2. region' = region /\ regionPage' = regionPage /\ ExistingPages' = ExistingPages
        BY <1>2 DEF ExistingPages, pageRows, regionRows
      <3> QED  BY <3>1, <3>2 DEF TypeInv, RowsAreConnected
    <2>6. RequestsFitRows'
      BY <1>2, <2>2, <2>4, OthersStillFit
      DEF ExistingPages, SubmissionsOf, pageRows, regionRows, submissionRows
    <2> QED  BY <2>3, <2>5, <2>6 DEF TypeInv
  <1> QED  BY <1>1, <1>2 DEF AssignInsert

\* start captures an existing task.
LEMMA StartReadInv ==
    ASSUME TypeInv, NEW r \in Reqs, NEW t \in Tasks, StartRead(r, t)
    PROVE  TypeInv'
  <1> DEFINE q == [Idle EXCEPT !.pc = "start_write", !.task = t]
  <1>1. q \in Request
    <2>1. t \in 0 .. MaxTasks
      BY BoundsAssumption DEF Tasks
    <2> QED  BY <2>1, IdleFits DEF Request, Steps
  <1>2. /\ req' \in [Reqs -> Request]
        /\ \A s \in Reqs \ {r} : req'[s] = req[s]
        /\ req'[r] = q
    BY <1>1, EnterRequest DEF StartRead, TypeInv
  <1>3. Fits(req[r])'
    BY <1>2 DEF Fits, Idle, StartRead, TaskIds, tables, work, taskRows, mayStart
  <1> QED
    BY <1>2, <1>3, LocalStep DEF StartRead

\* The two statements that move an existing task and go on with the sync.
LEMMA TaskMoves ==
    ASSUME TypeInv, NEW r \in Reqs, NEW to \in TaskStatus, req[r].task \in TaskIds,
           task' = [task EXCEPT ![req[r].task] = to],
           StartSync(r, PageOf(req[r].task)),
           UNCHANGED <<chapter, pageRows, regionRows, taskRegion, assignee, submissionRows>>
    PROVE  TypeInv'
  <1> DEFINE t == req[r].task
  <1>1. PageOf(t) \in ExistingPages'
    BY TaskIsOnPage DEF ExistingPages, pageRows
  <1>2. /\ req' \in [Reqs -> Request]
        /\ \A s \in Reqs \ {r} : req'[s] = req[s]
        /\ Fits(req[r])'
    BY <1>1, StartSyncFits DEF TypeInv
  <1>3. TypeOK'
    BY <1>2 DEF TypeInv, TypeOK, pageRows, regionRows, submissionRows
  <1>4. TaskIds' = TaskIds
    BY StatusesAreDistinct DEF TypeInv, TypeOK, TaskIds
  <1>5. RowsAreConnected'
    BY <1>4 DEF TypeInv, RowsAreConnected, ExistingPages, pageRows, regionRows
  <1>6. RequestsFitRows'
    BY <1>2, <1>4, OthersStillFit
    DEF ExistingPages, SubmissionsOf, pageRows, regionRows, submissionRows
  <1> QED  BY <1>3, <1>5, <1>6 DEF TypeInv

\* start gives its task a status of the enum and goes on to its page.
LEMMA StartWriteInv ==
    ASSUME TypeInv, NEW r \in Reqs, StartWrite(r)
    PROVE  TypeInv'
  <1>1. req[r].task \in TaskIds
    BY DEF TypeInv, RequestsFitRows, Fits, StartWrite, At
  <1> QED
    BY <1>1, TaskMoves DEF StartWrite, TaskStatus

-----------------------------------------------------------------------------
(* PageStatusSync *)

\* The sync goes on with a status a page can have, or returns.
LEMMA SyncReadTasksInv ==
    ASSUME TypeInv, NEW r \in Reqs, SyncReadTasks(r)
    PROVE  TypeInv'
  <1> DEFINE derived == derivePageStatus(TaskStatusesOn(req[r].page))
  <1>1. CASE Finish(r)
    BY <1>1, FinishFits, LocalStep DEF SyncReadTasks, TypeInv
  <1>2. CASE /\ derived # NoStatus
             /\ req' = [req EXCEPT ![r].pc = "sync_page", ![r].target = derived]
    <2>1. derived \in PageStatus
      BY <1>2, DerivedIsPageStatus
    <2>2. req[r] \in Request /\ Fits(req[r]) /\ At(r, "sync_tasks") /\ UNCHANGED tables
      BY DEF TypeInv, TypeOK, RequestsFitRows, SyncReadTasks
    <2>3. /\ req' \in [Reqs -> Request]
          /\ \A s \in Reqs \ {r} : req'[s] = req[s]
          /\ req'[r].pc = "sync_page"
          /\ req'[r].target = derived
          /\ req'[r].page = req[r].page
      <3> HIDE DEF derived
      <3> QED  BY <1>2, <2>1, <2>2 DEF TypeInv, TypeOK, Request, Steps, Statuses
    <2>4. Fits(req[r])'
      <3> HIDE DEF derived
      <3> QED  BY <2>1, <2>2, <2>3 DEF Fits, At, ExistingPages, tables, work, pageRows
    <2> QED  BY <2>2, <2>3, <2>4, LocalStep
  <1> QED  BY <1>1, <1>2 DEF SyncReadTasks

\* The second read of the sync changes no row and keeps the locals.
LEMMA SyncReadPageInv ==
    ASSUME TypeInv, NEW r \in Reqs, SyncReadPage(r)
    PROVE  TypeInv'
  <1>1. CASE Finish(r)
    BY <1>1, FinishFits, LocalStep DEF SyncReadPage, TypeInv
  <1>2. CASE Goto(r, "sync_write")
    <2>1. /\ req' \in [Reqs -> Request]
          /\ \A s \in Reqs \ {r} : req'[s] = req[s]
          /\ req'[r].pc = "sync_write"
          /\ req'[r].target = req[r].target
          /\ req'[r].page = req[r].page
      BY <1>2, GotoRequest DEF TypeInv, Steps
    <2>2. Fits(req[r]) /\ At(r, "sync_page") /\ UNCHANGED tables
      BY DEF TypeInv, RequestsFitRows, SyncReadPage
    <2>3. Fits(req[r])'
      BY <2>1, <2>2 DEF Fits, At, ExistingPages, tables, work, pageRows
    <2> QED  BY <2>1, <2>2, <2>3, LocalStep
  <1> QED  BY <1>1, <1>2 DEF SyncReadPage

\* A statement that gives the row of an existing page a new status, and perhaps
\* another version, uploader or document, and ends its request.
LEMMA PageMoves ==
    ASSUME TypeInv, NEW r \in Reqs, NEW p \in ExistingPages, NEW to \in PageStatus,
           page' \in {page, [page EXCEPT ![p] = to]},
           currentVersion' \in [Pages -> 0 .. MaxVersions],
           uploader' \in [Pages -> [Versions -> Users \cup {None}]],
           document' \in [Pages -> Users \cup {None}],
           Finish(r),
           UNCHANGED <<chapter, regionRows, taskRows, submissionRows>>
    PROVE  TypeInv'
  <1>1. /\ req' \in [Reqs -> Request]
        /\ \A s \in Reqs \ {r} : req'[s] = req[s]
        /\ Fits(req[r])'
    BY FinishFits DEF TypeInv
  <1>2. TypeOK'
    BY <1>1 DEF TypeInv, TypeOK, regionRows, taskRows, submissionRows
  <1>3. ExistingPages' = ExistingPages
    BY StatusesAreDistinct DEF TypeInv, TypeOK, ExistingPages
  <1>4. RowsAreConnected'
    BY <1>3 DEF TypeInv, RowsAreConnected, TaskIds, regionRows, taskRows
  <1>5. RequestsFitRows'
    BY <1>1, <1>3, OthersStillFit DEF TaskIds, SubmissionsOf, regionRows, taskRows, submissionRows
  <1> QED  BY <1>2, <1>4, <1>5 DEF TypeInv

\* The sync writes an existing page, whenever its reads were made.
LEMMA SyncWriteInv ==
    ASSUME TypeInv, NEW r \in Reqs, SyncWrite(r)
    PROVE  TypeInv'
  <1>1. req[r].page \in ExistingPages /\ req[r].target \in PageStatus
    BY DEF TypeInv, RequestsFitRows, Fits, SyncWrite, At
  <1>2. /\ currentVersion' \in [Pages -> 0 .. MaxVersions]
        /\ uploader' \in [Pages -> [Versions -> Users \cup {None}]]
        /\ document' \in [Pages -> Users \cup {None}]
    BY DEF TypeInv, TypeOK, SyncWrite
  <1> QED
    BY <1>1, <1>2, PageMoves DEF SyncWrite

-----------------------------------------------------------------------------
(* SubmissionService *)

\* submit captures an existing task and its assignee.
LEMMA SubmitReadInv ==
    ASSUME TypeInv, NEW r \in Reqs, NEW t \in Tasks, SubmitRead(r, t)
    PROVE  TypeInv'
  <1> DEFINE q == [Idle EXCEPT !.pc = "submit_version", !.task = t, !.user = assignee[t]]
  <1>1. q \in Request
    <2>1. t \in 0 .. MaxTasks
      BY BoundsAssumption DEF Tasks
    <2>2. assignee[t] \in Users \cup {None}
      BY DEF TypeInv, TypeOK, Users
    <2> QED  BY <2>1, <2>2, IdleFits DEF Request, Steps
  <1>2. /\ req' \in [Reqs -> Request]
        /\ \A s \in Reqs \ {r} : req'[s] = req[s]
        /\ req'[r] = q
    BY <1>1, EnterRequest DEF SubmitRead, TypeInv
  <1>3. Fits(req[r])'
    BY <1>2 DEF Fits, Idle, SubmitRead, TaskIds, tables, work, taskRows, maySubmit
  <1> QED
    BY <1>2, <1>3, LocalStep DEF SubmitRead

\* The number of the next submission is within the bound, or the request returns.
LEMMA SubmitVersionInv ==
    ASSUME TypeInv, NEW r \in Reqs, SubmitVersion(r)
    PROVE  TypeInv'
  <1> DEFINE next == NextVersion(SubmissionsOf(req[r].task))
  <1>1. CASE Finish(r)
    BY <1>1, FinishFits, LocalStep DEF SubmitVersion, TypeInv
  <1>2. CASE /\ next \in SubmissionVersions
             /\ req' = [req EXCEPT ![r].pc = "submit_studio", ![r].num = next]
    <2>1. next \in SubmissionVersions /\ next \in Nat
      BY <1>2, BoundsAssumption DEF SubmissionVersions
    <2>2. req[r] \in Request /\ Fits(req[r]) /\ At(r, "submit_version") /\ UNCHANGED tables
      BY DEF TypeInv, TypeOK, RequestsFitRows, SubmitVersion
    <2> HIDE DEF next
    <2>3. /\ req' \in [Reqs -> Request]
          /\ \A s \in Reqs \ {r} : req'[s] = req[s]
          /\ req'[r].pc = "submit_studio"
          /\ req'[r].num = next
          /\ req'[r].task = req[r].task
      BY <1>2, <2>1, <2>2 DEF TypeInv, TypeOK, Request, Steps
    <2>4. Fits(req[r])'
      BY <2>1, <2>2, <2>3 DEF Fits, At, TaskIds, tables, work, taskRows
    <2> QED  BY <2>2, <2>3, <2>4, LocalStep
  <1> QED  BY <1>1, <1>2 DEF SubmitVersion

\* The test of the last save changes no row and keeps the locals.
LEMMA SubmitCheckStudioInv ==
    ASSUME TypeInv, NEW r \in Reqs, SubmitCheckStudio(r)
    PROVE  TypeInv'
  <1>1. CASE Finish(r)
    BY <1>1, FinishFits, LocalStep DEF SubmitCheckStudio, TypeInv
  <1>2. CASE Goto(r, "submit_insert")
    <2>1. /\ req' \in [Reqs -> Request]
          /\ \A s \in Reqs \ {r} : req'[s] = req[s]
          /\ req'[r].pc = "submit_insert"
          /\ req'[r].num = req[r].num
          /\ req'[r].task = req[r].task
      BY <1>2, GotoRequest DEF TypeInv, Steps
    <2>2. Fits(req[r]) /\ At(r, "submit_studio") /\ UNCHANGED tables
      BY DEF TypeInv, RequestsFitRows, SubmitCheckStudio
    <2>3. Fits(req[r])'
      BY <2>1, <2>2 DEF Fits, At, TaskIds, tables, work, taskRows
    <2> QED  BY <2>1, <2>2, <2>3, LocalStep
  <1> QED  BY <1>1, <1>2 DEF SubmitCheckStudio

\* The new submission belongs to an existing task.
LEMMA SubmitInsertInv ==
    ASSUME TypeInv, NEW r \in Reqs, SubmitInsert(r)
    PROVE  TypeInv'
  <1> DEFINE t == req[r].task
             v == req[r].num
  <1>0. Fits(req[r]) /\ At(r, "submit_insert") /\ t \in TaskIds /\ v \in SubmissionVersions
    BY DEF TypeInv, RequestsFitRows, Fits, SubmitInsert, At
  <1>1. CASE Finish(r) /\ UNCHANGED tables
    BY <1>1, FinishFits, LocalStep DEF TypeInv
  <1>2. CASE /\ submission' = [submission EXCEPT ![t][v] = "PENDING"]
             /\ Goto(r, "submit_write")
             /\ UNCHANGED <<chapter, pageRows, regionRows, taskRows, accruals>>
    <2>1. /\ req' \in [Reqs -> Request]
          /\ \A s \in Reqs \ {r} : req'[s] = req[s]
          /\ req'[r].pc = "submit_write"
          /\ req'[r].task = t
      BY <1>2, GotoRequest DEF TypeInv, Steps
    <2>2. TypeOK'
      <3>1. submission' \in [Tasks -> [SubmissionVersions -> SubmissionStatus \cup {Absent}]]
        BY <1>0, <1>2 DEF TypeInv, TypeOK, TaskIds, SubmissionStatus
      <3> QED
        BY <1>2, <2>1, <3>1 DEF TypeInv, TypeOK, pageRows, regionRows, taskRows
    <2>3. TaskIds' = TaskIds /\ ExistingPages' = ExistingPages
      BY <1>2 DEF TaskIds, ExistingPages, pageRows, taskRows
    <2>4. Fits(req[r])'
      BY <1>0, <2>1, <2>3 DEF Fits
    <2>5. \A u \in Tasks : SubmissionsOf(u) \subseteq SubmissionsOf(u)'
      BY <1>0, <1>2, StatusesAreDistinct DEF TypeInv, TypeOK, TaskIds, SubmissionsOf, Absent
    <2>6. RequestsFitRows'
      BY <1>2, <2>1, <2>3, <2>4, <2>5, OthersStillFit DEF regionRows
    <2>7. RowsAreConnected'
      BY <1>2, <2>3 DEF TypeInv, RowsAreConnected, regionRows, taskRows
    <2> QED  BY <2>2, <2>6, <2>7 DEF TypeInv
  <1> QED  BY <1>1, <1>2 DEF SubmitInsert

\* submit gives its task a status of the enum and goes on to its page.
LEMMA SubmitWriteInv ==
    ASSUME TypeInv, NEW r \in Reqs, SubmitWrite(r)
    PROVE  TypeInv'
  <1>1. req[r].task \in TaskIds
    BY DEF TypeInv, RequestsFitRows, Fits, SubmitWrite, At
  <1> QED
    BY <1>1, TaskMoves DEF SubmitWrite, TaskStatus

\* review captures an existing submission and a decision.
LEMMA ReviewReadInv ==
    ASSUME TypeInv, NEW r \in Reqs, NEW t \in Tasks, NEW v \in SubmissionVersions,
           NEW decision \in Decisions, ReviewRead(r, t, v, decision)
    PROVE  TypeInv'
  <1> DEFINE q == [Idle EXCEPT !.pc = "review_begin", !.task = t, !.num = v,
                               !.status = decision]
  <1>1. q \in Request
    <2>1. t \in 0 .. MaxTasks /\ v \in Nat
      BY BoundsAssumption DEF Tasks, SubmissionVersions
    <2>2. decision \in Statuses
      BY DEF Decisions, Statuses, SubmissionStatus
    <2> QED  BY <2>1, <2>2, IdleFits DEF Request, Steps
  <1>2. /\ req' \in [Reqs -> Request]
        /\ \A s \in Reqs \ {r} : req'[s] = req[s]
        /\ req'[r] = q
    BY <1>1, EnterRequest DEF ReviewRead, TypeInv
  <1>3. t \in TaskIds
    <2>1. <<task[t], decision>> \in TASK_TRANSITIONS
      BY DEF ReviewRead, canTransition, mayReview
    <2>2. task[t] # Absent
      BY <2>1 DEF TASK_TRANSITIONS, Absent
    <2> QED  BY <2>2 DEF TaskIds
  <1>4. Fits(req[r])'
    BY <1>2, <1>3 DEF Fits, Idle, ReviewRead, TaskIds, SubmissionsOf, tables, work, taskRows,
         submissionRows, mayReview
  <1> QED
    BY <1>2, <1>4, LocalStep DEF ReviewRead

\* The target that the open transaction computes is one a page can have, or none.
LEMMA ReviewBeginInv ==
    ASSUME TypeInv, NEW r \in Reqs, ReviewBegin(r)
    PROVE  TypeInv'
  <1> DEFINE t == req[r].task
             statuses == {req[r].status} \cup {task[u] : u \in TasksOn(PageOf(t)) \ {t}}
             target == syncTarget(page[PageOf(t)], derivePageStatus(statuses))
  <1>1. target \in PageStatus \cup {NoStatus}
    BY DerivedIsPageStatus, SyncTargetIsDerived
  <1>2. req[r] \in Request /\ Fits(req[r]) /\ At(r, "review_begin") /\ UNCHANGED tables
    BY DEF TypeInv, TypeOK, RequestsFitRows, ReviewBegin
  <1>3. req' = [req EXCEPT ![r].pc = "review_commit", ![r].target = target]
    BY DEF ReviewBegin
  <1> HIDE DEF target
  <1>4. /\ req' \in [Reqs -> Request]
        /\ \A s \in Reqs \ {r} : req'[s] = req[s]
        /\ req'[r].pc = "review_commit"
        /\ req'[r].target = target
        /\ req'[r].task = req[r].task
        /\ req'[r].num = req[r].num
        /\ req'[r].status = req[r].status
    <2>1. target \in Statuses
      BY <1>1 DEF Statuses
    <2>2. "review_commit" \in Steps
      BY DEF Steps
    <2> QED  BY <1>2, <1>3, <2>1, <2>2 DEF TypeInv, TypeOK, Request
  <1>5. Fits(req[r])'
    BY <1>1, <1>2, <1>4 DEF Fits, At, TaskIds, SubmissionsOf, tables, work, taskRows, submissionRows
  <1> QED
    BY <1>2, <1>4, <1>5, LocalStep

\* The commit writes existing rows of task, submission and page only.
LEMMA ReviewCommitInv ==
    ASSUME TypeInv, NEW r \in Reqs, ReviewCommit(r)
    PROVE  TypeInv'
  <1> DEFINE t == req[r].task
             v == req[r].num
             p == PageOf(t)
  <1>1. /\ t \in TaskIds /\ v \in SubmissionsOf(t) /\ req[r].status \in Decisions
        /\ req[r].target \in PageStatus \cup {NoStatus}
    BY DEF TypeInv, RequestsFitRows, Fits, ReviewCommit, At
  <1>2. t \in Tasks /\ v \in SubmissionVersions /\ p \in ExistingPages
    BY <1>1, TaskIsOnPage DEF TaskIds, SubmissionsOf
  <1>3. req[r].status \in TaskStatus /\ req[r].status \in SubmissionStatus
    BY <1>1 DEF Decisions, TaskStatus, SubmissionStatus
  <1>4. /\ req' \in [Reqs -> Request]
        /\ \A s \in Reqs \ {r} : req'[s] = req[s]
        /\ Fits(req[r])'
    BY FinishFits DEF TypeInv, ReviewCommit
  <1>5. TypeOK'
    <2>1. submission' \in [Tasks -> [SubmissionVersions -> SubmissionStatus \cup {Absent}]]
      BY <1>2, <1>3 DEF TypeInv, TypeOK, ReviewCommit
    <2>2. task' \in [Tasks -> TaskStatus \cup {Absent}] /\ accruals' \in [Tasks -> Nat]
      BY <1>2, <1>3 DEF TypeInv, TypeOK, ReviewCommit, Credit
    <2>3. page' \in [Pages -> PageStatus \cup {Absent}]
      BY <1>1 DEF TypeInv, TypeOK, ReviewCommit
    <2> QED
      BY <1>4, <2>1, <2>2, <2>3 DEF TypeInv, TypeOK, ReviewCommit, regionRows
  <1>6. TaskIds' = TaskIds
    <2>1. task' = [task EXCEPT ![t] = req[r].status] /\ req[r].status # Absent /\ task[t] # Absent
      BY <1>1, <1>3, StatusesAreDistinct DEF TaskIds, ReviewCommit
    <2> QED  BY <1>2, <2>1 DEF TypeInv, TypeOK, TaskIds
  <1>7. ExistingPages' = ExistingPages
    <2>1. page' \in {page, [page EXCEPT ![p] = req[r].target]}
      BY DEF ReviewCommit
    <2>2. page' = page \/ req[r].target \in PageStatus
      BY <1>1 DEF ReviewCommit
    <2> HIDE DEF p
    <2> QED  BY <1>2, <2>1, <2>2, StatusesAreDistinct DEF TypeInv, TypeOK, ExistingPages
  <1>8. \A u \in Tasks : SubmissionsOf(u) \subseteq SubmissionsOf(u)'
    BY <1>2, <1>3, StatusesAreDistinct DEF TypeInv, TypeOK, SubmissionsOf, ReviewCommit
  <1>9. RowsAreConnected'
    BY <1>6, <1>7 DEF TypeInv, RowsAreConnected, ReviewCommit, regionRows
  <1>10. RequestsFitRows'
    BY <1>4, <1>6, <1>7, <1>8, OthersStillFit DEF ReviewCommit, regionRows
  <1> QED  BY <1>5, <1>9, <1>10 DEF TypeInv

-----------------------------------------------------------------------------
(* StudioService *)

\* savePageVersion captures an existing page and a user.
LEMMA SaveReadInv ==
    ASSUME TypeInv, NEW r \in Reqs, NEW u \in Users, NEW p \in Pages, SaveRead(r, u, p)
    PROVE  TypeInv'
  <1> DEFINE q == [Idle EXCEPT !.pc = "save_current", !.page = p, !.user = u]
  <1>1. q \in Request
    <2>1. p \in Nat
      BY BoundsAssumption DEF Pages
    <2> QED  BY <2>1, IdleFits DEF Request, Steps, Users
  <1>2. /\ req' \in [Reqs -> Request]
        /\ \A s \in Reqs \ {r} : req'[s] = req[s]
        /\ req'[r] = q
    BY <1>1, EnterRequest DEF SaveRead, TypeInv
  <1>3. Fits(req[r])'
    BY <1>2 DEF Fits, Idle, SaveRead, ExistingPages, tables, work, pageRows, maySave
  <1> QED
    BY <1>2, <1>3, LocalStep DEF SaveRead

\* The number of the next version is within the bound, or the request returns.
LEMMA SaveReadCurrentInv ==
    ASSUME TypeInv, NEW r \in Reqs, SaveReadCurrent(r)
    PROVE  TypeInv'
  <1> DEFINE next == currentVersion[req[r].page] + 1
  <1>1. CASE Finish(r)
    BY <1>1, FinishFits, LocalStep DEF SaveReadCurrent, TypeInv
  <1>2. CASE /\ ~(next > MaxVersions)
             /\ req' = [req EXCEPT ![r].pc = "save_insert", ![r].num = next]
    <2>1. req[r] \in Request /\ Fits(req[r]) /\ At(r, "save_current") /\ UNCHANGED tables
      BY DEF TypeInv, TypeOK, RequestsFitRows, SaveReadCurrent
    <2>2. next \in Versions /\ next \in Nat
      <3>1. req[r].page \in Pages
        BY <2>1 DEF Fits, At, ExistingPages
      <3>2. currentVersion[req[r].page] \in 0 .. MaxVersions
        BY <3>1 DEF TypeInv, TypeOK
      <3> QED  BY <1>2, <3>2, BoundsAssumption DEF Versions
    <2> HIDE DEF next
    <2>3. /\ req' \in [Reqs -> Request]
          /\ \A s \in Reqs \ {r} : req'[s] = req[s]
          /\ req'[r].pc = "save_insert"
          /\ req'[r].num = next
          /\ req'[r].page = req[r].page
          /\ req'[r].user = req[r].user
      BY <1>2, <2>1, <2>2 DEF TypeInv, TypeOK, Request, Steps
    <2>4. Fits(req[r])'
      BY <2>1, <2>2, <2>3 DEF Fits, At, ExistingPages, tables, work, pageRows
    <2> QED  BY <2>1, <2>3, <2>4, LocalStep
  <1> QED  BY <1>1, <1>2 DEF SaveReadCurrent

\* The new version belongs to an existing page.
LEMMA SaveInsertInv ==
    ASSUME TypeInv, NEW r \in Reqs, SaveInsert(r)
    PROVE  TypeInv'
  <1> DEFINE p == req[r].page
  <1>0. /\ Fits(req[r]) /\ At(r, "save_insert")
        /\ p \in ExistingPages /\ p \in Pages /\ req[r].num \in Versions /\ req[r].user \in Users
    BY DEF TypeInv, RequestsFitRows, Fits, SaveInsert, At, ExistingPages
  <1>1. CASE Finish(r) /\ UNCHANGED tables
    BY <1>1, FinishFits, LocalStep DEF TypeInv
  <1>2. CASE /\ uploader' = [uploader EXCEPT ![p][req[r].num] = req[r].user]
             /\ Goto(r, "save_update")
             /\ UNCHANGED <<chapter, page, currentVersion, document, regionRows, taskRows,
                            submissionRows>>
    <2>1. /\ req' \in [Reqs -> Request]
          /\ \A s \in Reqs \ {r} : req'[s] = req[s]
          /\ req'[r].pc = "save_update"
          /\ req'[r].page = p
          /\ req'[r].num = req[r].num
          /\ req'[r].user = req[r].user
      BY <1>2, GotoRequest DEF TypeInv, Steps
    <2>2. uploader' \in [Pages -> [Versions -> Users \cup {None}]]
      BY <1>0, <1>2 DEF TypeInv, TypeOK
    <2>3. TypeOK'
      BY <1>2, <2>1, <2>2 DEF TypeInv, TypeOK, regionRows, taskRows, submissionRows
    <2>4. /\ TaskIds' = TaskIds /\ ExistingPages' = ExistingPages
          /\ \A t \in Tasks : SubmissionsOf(t)' = SubmissionsOf(t)
      BY <1>2 DEF TaskIds, ExistingPages, SubmissionsOf, taskRows, submissionRows
    <2>5. Fits(req[r])'
      BY <1>0, <2>1, <2>4 DEF Fits
    <2>6. RequestsFitRows'
      BY <1>2, <2>1, <2>4, <2>5, OthersStillFit DEF regionRows
    <2>7. RowsAreConnected'
      BY <1>2, <2>4 DEF TypeInv, RowsAreConnected, regionRows, taskRows
    <2> QED  BY <2>3, <2>6, <2>7 DEF TypeInv
  <1> QED  BY <1>1, <1>2 DEF SaveInsert

\* The save sets current_version and the status of an existing page.
LEMMA SaveUpdateInv ==
    ASSUME TypeInv, NEW r \in Reqs, SaveUpdate(r)
    PROVE  TypeInv'
  <1>1. req[r].page \in ExistingPages /\ req[r].num \in Versions
    BY DEF TypeInv, RequestsFitRows, Fits, SaveUpdate, At
  <1>2. req[r].num \in 0 .. MaxVersions
    BY <1>1, BoundsAssumption DEF Versions
  <1>3. /\ currentVersion' \in [Pages -> 0 .. MaxVersions]
        /\ uploader' \in [Pages -> [Versions -> Users \cup {None}]]
        /\ document' \in [Pages -> Users \cup {None}]
    BY <1>1, <1>2 DEF TypeInv, TypeOK, SaveUpdate, ExistingPages
  <1> QED
    BY <1>1, <1>3, PageMoves DEF SaveUpdate, PageStatus

\* saveDoc captures an existing page and a user.
LEMMA DocReadInv ==
    ASSUME TypeInv, NEW r \in Reqs, NEW u \in Users, NEW p \in Pages, DocRead(r, u, p)
    PROVE  TypeInv'
  <1> DEFINE q == [Idle EXCEPT !.pc = "doc_write", !.page = p, !.user = u]
  <1>1. q \in Request
    <2>1. p \in Nat
      BY BoundsAssumption DEF Pages
    <2> QED  BY <2>1, IdleFits DEF Request, Steps, Users
  <1>2. /\ req' \in [Reqs -> Request]
        /\ \A s \in Reqs \ {r} : req'[s] = req[s]
        /\ req'[r] = q
    BY <1>1, EnterRequest DEF DocRead, TypeInv
  <1>3. Fits(req[r])'
    BY <1>2 DEF Fits, Idle, DocRead, ExistingPages, tables, work, pageRows, maySave
  <1> QED
    BY <1>2, <1>3, LocalStep DEF DocRead

\* saveDoc writes the document of an existing page.
LEMMA DocWriteInv ==
    ASSUME TypeInv, NEW r \in Reqs, DocWrite(r)
    PROVE  TypeInv'
  <1>1. req[r].page \in ExistingPages /\ req[r].user \in Users
    BY DEF TypeInv, RequestsFitRows, Fits, DocWrite, At
  <1>2. /\ currentVersion' \in [Pages -> 0 .. MaxVersions]
        /\ uploader' \in [Pages -> [Versions -> Users \cup {None}]]
        /\ document' \in [Pages -> Users \cup {None}]
    BY <1>1 DEF TypeInv, TypeOK, DocWrite, ExistingPages
  <1>3. "RAW" \in PageStatus
    BY DEF PageStatus
  <1> QED
    BY <1>1, <1>2, <1>3, PageMoves DEF DocWrite

-----------------------------------------------------------------------------
(* PageService *)

\* pages.create begins without a row.
LEMMA PageCreateReadInv ==
    ASSUME TypeInv, NEW r \in Reqs, PageCreateRead(r)
    PROVE  TypeInv'
  <1> DEFINE q == [Idle EXCEPT !.pc = "page_number"]
  <1>1. q \in Request
    BY IdleFits DEF Request, Steps
  <1>2. /\ req' \in [Reqs -> Request]
        /\ \A s \in Reqs \ {r} : req'[s] = req[s]
        /\ req'[r] = q
    BY <1>1, EnterRequest DEF PageCreateRead, TypeInv
  <1>3. Fits(req[r])'
    BY <1>2 DEF Fits, Idle
  <1> QED
    BY <1>2, <1>3, LocalStep DEF PageCreateRead

\* The number of the next page is within the bound, or the request returns.
LEMMA PageReadNumberInv ==
    ASSUME TypeInv, NEW r \in Reqs, PageReadNumber(r)
    PROVE  TypeInv'
  <1> DEFINE next == NextVersion(ExistingPages)
  <1>1. CASE Finish(r)
    BY <1>1, FinishFits, LocalStep DEF PageReadNumber, TypeInv
  <1>2. CASE /\ next \in Pages
             /\ req' = [req EXCEPT ![r].pc = "page_insert", ![r].page = next]
    <2>1. next \in Pages /\ next \in Nat
      BY <1>2, BoundsAssumption DEF Pages
    <2>2. req[r] \in Request /\ UNCHANGED tables
      BY DEF TypeInv, TypeOK, PageReadNumber
    <2> HIDE DEF next
    <2>3. /\ req' \in [Reqs -> Request]
          /\ \A s \in Reqs \ {r} : req'[s] = req[s]
          /\ req'[r].pc = "page_insert"
          /\ req'[r].page = next
      BY <1>2, <2>1, <2>2 DEF TypeInv, TypeOK, Request, Steps
    <2>4. Fits(req[r])'
      BY <2>1, <2>3 DEF Fits
    <2> QED  BY <2>2, <2>3, <2>4, LocalStep
  <1> QED  BY <1>1, <1>2 DEF PageReadNumber

\* A page appears with status RAW and version 1; no other page is touched.
LEMMA PageInsertInv ==
    ASSUME TypeInv, NEW r \in Reqs, PageInsert(r)
    PROVE  TypeInv'
  <1> DEFINE p == req[r].page
  <1>0. p \in Pages
    BY DEF TypeInv, RequestsFitRows, Fits, PageInsert, At
  <1>1. CASE Finish(r) /\ UNCHANGED tables
    BY <1>1, FinishFits, LocalStep DEF TypeInv
  <1>2. CASE /\ page' = [page EXCEPT ![p] = "RAW"]
             /\ currentVersion' = [currentVersion EXCEPT ![p] = 1]
             /\ Goto(r, "page_version")
             /\ UNCHANGED <<chapter, uploader, document, regionRows, taskRows, submissionRows>>
    <2>1. /\ req' \in [Reqs -> Request]
          /\ \A s \in Reqs \ {r} : req'[s] = req[s]
          /\ req'[r].pc = "page_version"
          /\ req'[r].page = p
      BY <1>2, GotoRequest DEF TypeInv, Steps
    <2>2. 1 \in 0 .. MaxVersions
      BY BoundsAssumption
    <2>3. TypeOK'
      BY <1>0, <1>2, <2>1, <2>2
      DEF TypeInv, TypeOK, PageStatus, regionRows, taskRows, submissionRows
    <2>4. ExistingPages' = ExistingPages \cup {p}
      BY <1>0, <1>2 DEF TypeInv, TypeOK, ExistingPages, Absent
    <2>5. TaskIds' = TaskIds /\ \A t \in Tasks : SubmissionsOf(t)' = SubmissionsOf(t)
      BY <1>2 DEF TaskIds, SubmissionsOf, taskRows, submissionRows
    <2>6. Fits(req[r])'
      BY <2>1, <2>4 DEF Fits
    <2>7. RequestsFitRows'
      BY <1>2, <2>1, <2>4, <2>5, <2>6, OthersStillFit DEF regionRows
    <2>8. RowsAreConnected'
      BY <1>2, <2>4, <2>5 DEF TypeInv, RowsAreConnected, regionRows, taskRows
    <2> QED  BY <2>3, <2>7, <2>8 DEF TypeInv
  <1> QED  BY <1>1, <1>2 DEF PageInsert

\* The first version belongs to a page that exists.
LEMMA PageInsertVersionInv ==
    ASSUME TypeInv, NEW r \in Reqs, PageInsertVersion(r)
    PROVE  TypeInv'
  <1>1. req[r].page \in ExistingPages
    BY DEF TypeInv, RequestsFitRows, Fits, PageInsertVersion, At
  <1>2. /\ currentVersion' \in [Pages -> 0 .. MaxVersions]
        /\ uploader' \in [Pages -> [Versions -> Users \cup {None}]]
        /\ document' \in [Pages -> Users \cup {None}]
    BY <1>1 DEF TypeInv, TypeOK, PageInsertVersion, ExistingPages, Users
  <1>3. "RAW" \in PageStatus
    BY DEF PageStatus
  <1> QED
    BY <1>1, <1>2, <1>3, PageMoves DEF PageInsertVersion

\* regions.create captures an existing page.
LEMMA RegionCreateReadInv ==
    ASSUME TypeInv, NEW r \in Reqs, NEW p \in Pages, RegionCreateRead(r, p)
    PROVE  TypeInv'
  <1> DEFINE q == [Idle EXCEPT !.pc = "region_version", !.page = p]
  <1>1. q \in Request
    <2>1. p \in Nat
      BY BoundsAssumption DEF Pages
    <2> QED  BY <2>1, IdleFits DEF Request, Steps, Users
  <1>2. /\ req' \in [Reqs -> Request]
        /\ \A s \in Reqs \ {r} : req'[s] = req[s]
        /\ req'[r] = q
    BY <1>1, EnterRequest DEF RegionCreateRead, TypeInv
  <1>3. Fits(req[r])'
    BY <1>2 DEF Fits, Idle, RegionCreateRead, ExistingPages, tables, work, pageRows, mayDivide
  <1> QED
    BY <1>2, <1>3, LocalStep DEF RegionCreateRead

\* The test of the page version changes no row and keeps the locals.
LEMMA RegionCheckVersionInv ==
    ASSUME TypeInv, NEW r \in Reqs, RegionCheckVersion(r)
    PROVE  TypeInv'
  <1>1. CASE Finish(r)
    BY <1>1, FinishFits, LocalStep DEF RegionCheckVersion, TypeInv
  <1>2. CASE Goto(r, "region_insert")
    <2>1. /\ req' \in [Reqs -> Request]
          /\ \A s \in Reqs \ {r} : req'[s] = req[s]
          /\ req'[r].pc = "region_insert"
          /\ req'[r].page = req[r].page
      BY <1>2, GotoRequest DEF TypeInv, Steps
    <2>2. Fits(req[r]) /\ At(r, "region_version") /\ UNCHANGED tables
      BY DEF TypeInv, RequestsFitRows, RegionCheckVersion
    <2>3. Fits(req[r])'
      BY <2>1, <2>2 DEF Fits, At, ExistingPages, tables, work, pageRows
    <2> QED  BY <2>1, <2>2, <2>3, LocalStep
  <1> QED  BY <1>1, <1>2 DEF RegionCheckVersion

\* A statement that writes regions, keeps those there are, and ends its request.
LEMMA RegionMoves ==
    ASSUME TypeInv, NEW r \in Reqs,
           region' \in [Regions -> {Absent, "LIVE", "DELETED"}],
           regionPage' \in [Regions -> 0 .. MaxPages],
           \A g \in Regions : region[g] # Absent => region'[g] # Absent,
           RowsAreConnected',
           Finish(r),
           UNCHANGED <<chapter, pageRows, taskRows, submissionRows>>
    PROVE  TypeInv'
  <1>1. /\ req' \in [Reqs -> Request]
        /\ \A s \in Reqs \ {r} : req'[s] = req[s]
        /\ Fits(req[r])'
    BY FinishFits DEF TypeInv
  <1>2. TypeOK'
    BY <1>1 DEF TypeInv, TypeOK, pageRows, taskRows, submissionRows
  <1>3. RequestsFitRows'
    BY <1>1, OthersStillFit
    DEF TaskIds, ExistingPages, SubmissionsOf, pageRows, taskRows, submissionRows
  <1> QED  BY <1>2, <1>3 DEF TypeInv

\* A region appears, on an existing page; no task is on it yet.
LEMMA RegionInsertInv ==
    ASSUME TypeInv, NEW r \in Reqs, RegionInsert(r)
    PROVE  TypeInv'
  <1>1. req[r].page \in ExistingPages
    BY DEF TypeInv, RequestsFitRows, Fits, RegionInsert, At
  <1>2. req[r].page \in 0 .. MaxPages
    BY <1>1, BoundsAssumption DEF ExistingPages, Pages
  <1>3. CASE UNCHANGED tables
    BY <1>3, FinishFits, LocalStep DEF RegionInsert, TypeInv
  <1>4. ASSUME NEW g \in Regions, region[g] = Absent,
               region' = [region EXCEPT ![g] = "LIVE"],
               regionPage' = [regionPage EXCEPT ![g] = req[r].page],
               UNCHANGED <<chapter, pageRows, taskRows, submissionRows>>
        PROVE  TypeInv'
    <2>1. /\ region' \in [Regions -> {Absent, "LIVE", "DELETED"}]
          /\ regionPage' \in [Regions -> 0 .. MaxPages]
      BY <1>2, <1>4 DEF TypeInv, TypeOK
    <2>2. \A h \in Regions : region[h] # Absent => region'[h] # Absent
      BY <1>4, StatusesAreDistinct DEF TypeInv, TypeOK
    <2>3. RowsAreConnected'
      <3>1. TaskIds' = TaskIds /\ ExistingPages' = ExistingPages /\ taskRegion' = taskRegion
        BY <1>4 DEF TaskIds, ExistingPages, pageRows, taskRows
      <3>2. \A t \in TaskIds : taskRegion[t] # None /\ region'[taskRegion[t]] = "LIVE"
        BY <1>4 DEF TypeInv, TypeOK, RowsAreConnected, TaskIds
      <3>3. \A h \in Regions : region'[h] # Absent => regionPage'[h] \in ExistingPages
        BY <1>1, <1>4 DEF TypeInv, TypeOK, RowsAreConnected
      <3> QED  BY <3>1, <3>2, <3>3 DEF RowsAreConnected
    <2> QED  BY <1>4, <2>1, <2>2, <2>3, RegionMoves DEF RegionInsert
  <1> QED  BY <1>3, <1>4 DEF RegionInsert

\* regions.delete captures an existing region.
LEMMA RegionDeleteReadInv ==
    ASSUME TypeInv, NEW r \in Reqs, NEW g \in Regions, RegionDeleteRead(r, g)
    PROVE  TypeInv'
  <1> DEFINE q == [Idle EXCEPT !.pc = "region_delete", !.region = g]
  <1>1. q \in Request
    BY IdleFits DEF Request, Steps
  <1>2. /\ req' \in [Reqs -> Request]
        /\ \A s \in Reqs \ {r} : req'[s] = req[s]
        /\ req'[r] = q
    BY <1>1, EnterRequest DEF RegionDeleteRead, TypeInv
  <1>3. Fits(req[r])'
    BY <1>2, StatusesAreDistinct DEF Fits, Idle, RegionDeleteRead, tables, work, regionRows, mayDelete
  <1> QED
    BY <1>2, <1>3, LocalStep DEF RegionDeleteRead

\* The region deleted has no task: the foreign key has refused any other.
LEMMA RegionDeleteInv ==
    ASSUME TypeInv, NEW r \in Reqs, RegionDelete(r)
    PROVE  TypeInv'
  <1> DEFINE g == req[r].region
  <1>1. g \in Regions /\ region[g] # Absent
    BY DEF TypeInv, RequestsFitRows, Fits, RegionDelete, At
  <1>2. /\ region' \in [Regions -> {Absent, "LIVE", "DELETED"}]
        /\ regionPage' \in [Regions -> 0 .. MaxPages]
    BY <1>1 DEF TypeInv, TypeOK, RegionDelete
  <1>3. \A h \in Regions : region[h] # Absent <=> region'[h] # Absent
    BY <1>1, StatusesAreDistinct DEF TypeInv, TypeOK, RegionDelete
  <1>4. RowsAreConnected'
    <2>1. TaskIds' = TaskIds /\ ExistingPages' = ExistingPages /\ taskRegion' = taskRegion
      BY DEF RegionDelete, TaskIds, ExistingPages, pageRows, taskRows
    <2>2. \A t \in TaskIds : region'[taskRegion[t]] = "LIVE"
      BY <1>1 DEF TypeInv, TypeOK, RowsAreConnected, RegionDelete, HasTask, TaskIds
    <2> QED  BY <1>3, <2>1, <2>2 DEF TypeInv, RowsAreConnected, RegionDelete
  <1> QED
    BY <1>2, <1>3, <1>4, RegionMoves DEF RegionDelete

-----------------------------------------------------------------------------
(* ChapterService *)

ChapterPcs == {"status_readiness", "status_write", "editor_readiness", "editor_write",
               "board_write"}

\* A request on the status of the chapter captures only that status.
LEMMA EnterChapterStep ==
    ASSUME TypeInv, NEW r \in Reqs, NEW target \in ChapterStatus, NEW step \in ChapterPcs,
           Enter(r, [Idle EXCEPT !.status = target, !.pc = step]), UNCHANGED tables
    PROVE  TypeInv'
  <1> DEFINE q == [Idle EXCEPT !.status = target, !.pc = step]
  <1>1. q \in Request
    BY IdleFits DEF Request, Steps, Statuses, ChapterPcs
  <1>2. /\ req' \in [Reqs -> Request]
        /\ \A s \in Reqs \ {r} : req'[s] = req[s]
        /\ req'[r] = q
    BY <1>1, EnterRequest DEF TypeInv
  <1>3. Fits(req[r])'
    BY <1>2 DEF Fits, Idle, ChapterPcs
  <1> QED
    BY <1>2, <1>3, LocalStep

\* setStatus captures a status of the enum.
LEMMA SetStatusReadInv ==
    ASSUME TypeInv, NEW r \in Reqs, NEW target \in ChapterStatus, SetStatusRead(r, target)
    PROVE  TypeInv'
  <1> DEFINE step == IF target = "READY_FOR_EDITOR_REVIEW" THEN "status_readiness" ELSE "status_write"
  <1>1. Enter(r, [Idle EXCEPT !.status = target, !.pc = step]) /\ UNCHANGED tables
    BY DEF SetStatusRead
  <1>2. step \in ChapterPcs
    BY DEF ChapterPcs
  <1> QED
    BY <1>1, <1>2, EnterChapterStep

\* editorReview captures a status of the enum.
LEMMA EditorReviewReadInv ==
    ASSUME TypeInv, NEW r \in Reqs, NEW target \in ChapterStatus, EditorReviewRead(r, target)
    PROVE  TypeInv'
  <1> DEFINE step == IF target = "EDITOR_APPROVED" THEN "editor_readiness" ELSE "editor_write"
  <1>1. Enter(r, [Idle EXCEPT !.status = target, !.pc = step]) /\ UNCHANGED tables
    BY DEF EditorReviewRead
  <1>2. step \in ChapterPcs
    BY DEF ChapterPcs
  <1> QED
    BY <1>1, <1>2, EnterChapterStep

\* boardReview captures a status of the enum.
LEMMA BoardReviewReadInv ==
    ASSUME TypeInv, NEW r \in Reqs, NEW target \in ChapterStatus, BoardReviewRead(r, target)
    PROVE  TypeInv'
  <1>1. Enter(r, [Idle EXCEPT !.status = target, !.pc = "board_write"]) /\ UNCHANGED tables
    BY DEF BoardReviewRead
  <1> QED
    BY <1>1, EnterChapterStep DEF ChapterPcs

\* The readiness test of setStatus changes no row and keeps the locals.
LEMMA SetStatusCheckReadinessInv ==
    ASSUME TypeInv, NEW r \in Reqs, SetStatusCheckReadiness(r)
    PROVE  TypeInv'
  <1>1. CASE Finish(r)
    BY <1>1, FinishFits, LocalStep DEF SetStatusCheckReadiness, TypeInv
  <1>2. CASE Goto(r, "status_write")
    <2>1. /\ req' \in [Reqs -> Request]
          /\ \A s \in Reqs \ {r} : req'[s] = req[s]
          /\ req'[r].pc = "status_write"
          /\ req'[r].status = req[r].status
      BY <1>2, GotoRequest DEF TypeInv, Steps
    <2>2. Fits(req[r]) /\ At(r, "status_readiness") /\ UNCHANGED tables
      BY DEF TypeInv, RequestsFitRows, SetStatusCheckReadiness
    <2>3. Fits(req[r])'
      BY <2>1, <2>2 DEF Fits, At
    <2> QED  BY <2>1, <2>2, <2>3, LocalStep
  <1> QED  BY <1>1, <1>2 DEF SetStatusCheckReadiness

\* The readiness test of editorReview changes no row and keeps the locals.
LEMMA EditorCheckReadinessInv ==
    ASSUME TypeInv, NEW r \in Reqs, EditorCheckReadiness(r)
    PROVE  TypeInv'
  <1>1. CASE Finish(r)
    BY <1>1, FinishFits, LocalStep DEF EditorCheckReadiness, TypeInv
  <1>2. CASE Goto(r, "editor_write")
    <2>1. /\ req' \in [Reqs -> Request]
          /\ \A s \in Reqs \ {r} : req'[s] = req[s]
          /\ req'[r].pc = "editor_write"
          /\ req'[r].status = req[r].status
      BY <1>2, GotoRequest DEF TypeInv, Steps
    <2>2. Fits(req[r]) /\ At(r, "editor_readiness") /\ UNCHANGED tables
      BY DEF TypeInv, RequestsFitRows, EditorCheckReadiness
    <2>3. Fits(req[r])'
      BY <2>1, <2>2 DEF Fits, At
    <2> QED  BY <2>1, <2>2, <2>3, LocalStep
  <1> QED  BY <1>1, <1>2 DEF EditorCheckReadiness

\* The chapter gets the status that its request captured.
LEMMA WriteChapterInv ==
    ASSUME TypeInv, NEW r \in Reqs, WriteChapter(r),
           req[r].pc \in {"status_write", "editor_write", "board_write"}
    PROVE  TypeInv'
  <1>1. req[r].status \in ChapterStatus
    BY DEF TypeInv, RequestsFitRows, Fits
  <1>2. /\ req' \in [Reqs -> Request]
        /\ \A s \in Reqs \ {r} : req'[s] = req[s]
        /\ Fits(req[r])'
    BY FinishFits DEF TypeInv, WriteChapter
  <1>3. TypeOK'
    BY <1>1, <1>2 DEF TypeInv, TypeOK, WriteChapter, work, pageRows, regionRows, taskRows,
       submissionRows
  <1>4. RowsAreConnected'
    BY DEF TypeInv, RowsAreConnected, TaskIds, ExistingPages, WriteChapter, work, pageRows,
       regionRows, taskRows
  <1>5. RequestsFitRows'
    BY <1>2, OthersStillFit
    DEF TaskIds, ExistingPages, SubmissionsOf, WriteChapter, work, pageRows, regionRows,
        taskRows, submissionRows
  <1> QED  BY <1>3, <1>4, <1>5 DEF TypeInv

-----------------------------------------------------------------------------
(* The composition. *)

\* Every call keeps the invariant.
LEMMA CallInv ==
    ASSUME TypeInv, NEW r \in Reqs, Call(r)
    PROVE  TypeInv'
  <1>1. Assistants \subseteq Users /\ Mangaka \in Users
    BY DEF Users
  <1> QED
    BY <1>1, AssignReadInv, StartReadInv, SubmitReadInv, ReviewReadInv, SaveReadInv,
       DocReadInv, PageCreateReadInv, RegionCreateReadInv, RegionDeleteReadInv,
       SetStatusReadInv, EditorReviewReadInv, BoardReviewReadInv DEF Call

\* Every statement of a request in flight keeps the invariant.
LEMMA ProgressInv ==
    ASSUME TypeInv, NEW r \in Reqs, Progress(r)
    PROVE  TypeInv'
  <1>1. CASE TaskSteps(r)
    BY <1>1, AssignCheckRegionInv, AssignInsertInv, StartWriteInv DEF TaskSteps
  <1>2. CASE SubmissionSteps(r)
    BY <1>2, SubmitVersionInv, SubmitCheckStudioInv, SubmitInsertInv, SubmitWriteInv,
       ReviewBeginInv, ReviewCommitInv DEF SubmissionSteps
  <1>3. CASE SyncSteps(r)
    BY <1>3, SyncReadTasksInv, SyncReadPageInv, SyncWriteInv DEF SyncSteps
  <1>4. CASE StudioSteps(r)
    BY <1>4, SaveReadCurrentInv, SaveInsertInv, SaveUpdateInv, DocWriteInv DEF StudioSteps
  <1>5. CASE PageSteps(r)
    BY <1>5, PageReadNumberInv, PageInsertInv, PageInsertVersionInv, RegionCheckVersionInv,
       RegionInsertInv, RegionDeleteInv DEF PageSteps
  <1>6. CASE ChapterSteps(r)
    BY <1>6, SetStatusCheckReadinessInv, EditorCheckReadinessInv, WriteChapterInv
    DEF ChapterSteps, SetStatusWrite, EditorReviewWrite, BoardReviewWrite, At
  <1> QED  BY <1>1, <1>2, <1>3, <1>4, <1>5, <1>6 DEF Progress

\* A request that dies frees its slot and leaves the rows.
LEMMA FailInv ==
    ASSUME TypeInv, NEW r \in Reqs, Fail(r)
    PROVE  TypeInv'
  BY FinishFits, LocalStep DEF Fail, TypeInv

\* A step of the rest of the system keeps the invariant.
LEMMA StutterInv ==
    ASSUME TypeInv, UNCHANGED vars
    PROVE  TypeInv'
  BY DEF vars, tables, work, pageRows, regionRows, taskRows, submissionRows, TypeInv, TypeOK,
     RowsAreConnected, RequestsFitRows, Fits, TaskIds, ExistingPages, SubmissionsOf

\* The invariant is inductive.
LEMMA NextTypeInv == TypeInv /\ [Next]_vars => TypeInv'
  <1> SUFFICES ASSUME TypeInv, [Next]_vars PROVE TypeInv'
    OBVIOUS
  <1>1. CASE UNCHANGED vars
    BY <1>1, StutterInv
  <1>2. ASSUME NEW r \in Reqs, Call(r) \/ Progress(r) \/ Fail(r) PROVE TypeInv'
    BY <1>2, CallInv, ProgressInv, FailInv
  <1> QED  BY <1>1, <1>2 DEF Next

\* The types, the foreign keys and the locals hold in every state, for any number of
\* requests, however they interleave and wherever they die.
THEOREM TypeInvariant == Spec => []TypeInv
  <1>1. Init => TypeInv
    BY InitTypeInv
  <1>2. TypeInv /\ [Next]_vars => TypeInv'
    BY NextTypeInv
  <1> QED
    BY <1>1, <1>2, PTL DEF Spec

\* Every column holds a value of its type.
THEOREM TypeCorrect == Spec => []TypeOK
  <1>1. TypeInv => TypeOK
    BY DEF TypeInv
  <1> QED
    BY <1>1, TypeInvariant, PTL

\* No task is left on a region that a concurrent request deletes, no region on a
\* page that is not there.
THEOREM RowsStayConnected == Spec => []RowsAreConnected
  <1>1. TypeInv => RowsAreConnected
    BY DEF TypeInv
  <1> QED
    BY <1>1, TypeInvariant, PTL

\* What a request in flight has read of a row's existence still holds when it writes.
THEOREM LocalsStayFitting == Spec => []RequestsFitRows
  <1>1. TypeInv => RequestsFitRows
    BY DEF TypeInv
  <1> QED
    BY <1>1, TypeInvariant, PTL

-----------------------------------------------------------------------------
(* Versions.  A step that is quiet leaves alone what the order of the      *)
(* saves is about; all steps but those of four statements are quiet.       *)

Quiet(r) ==
    /\ \A s \in Reqs \ {r} : req'[s] = req[s]
    /\ req'[r].pc \notin {"save_insert", "save_update"}
    /\ UNCHANGED <<currentVersion, uploader>>
    /\ ExistingPages' = ExistingPages

Saving == {"save_insert", "save_update"}

\* A call that is not a save past its first read is quiet.
LEMMA EnterQuiet ==
    ASSUME TypeInv, NEW r \in Reqs, NEW q, q.pc \notin Saving, Enter(r, q), UNCHANGED tables
    PROVE  Quiet(r)
  BY DEF TypeInv, TypeOK, Enter, Quiet, Saving, ExistingPages, tables, work, pageRows

\* A call reads, and no call begins as a save that has its number.
LEMMA CallQuiet ==
    ASSUME TypeInv, NEW r \in Reqs, Call(r)
    PROVE  Quiet(r) /\ UNCHANGED tables
  <1> DEFINE Opens == Quiet(r) /\ UNCHANGED tables
  <1>1. ASSUME NEW g \in Regions, NEW a \in Assistants,
               AssignRead(r, g, a) PROVE Opens
    BY <1>1, EnterQuiet DEF AssignRead, Idle, Saving
  <1>2. ASSUME NEW t \in Tasks,
               StartRead(r, t) PROVE Opens
    BY <1>2, EnterQuiet DEF StartRead, Idle, Saving
  <1>3. ASSUME NEW t \in Tasks,
               SubmitRead(r, t) PROVE Opens
    BY <1>3, EnterQuiet DEF SubmitRead, Idle, Saving
  <1>4. ASSUME NEW t \in Tasks, NEW v \in SubmissionVersions, NEW d \in Decisions,
               ReviewRead(r, t, v, d) PROVE Opens
    BY <1>4, EnterQuiet DEF ReviewRead, Idle, Saving
  <1>5. ASSUME NEW u \in Users, NEW p \in Pages,
               SaveRead(r, u, p) PROVE Opens
    BY <1>5, EnterQuiet DEF SaveRead, Idle, Saving
  <1>6. ASSUME NEW u \in Users, NEW p \in Pages,
               DocRead(r, u, p) PROVE Opens
    BY <1>6, EnterQuiet DEF DocRead, Idle, Saving
  <1>7. ASSUME PageCreateRead(r) PROVE Opens
    BY <1>7, EnterQuiet DEF PageCreateRead, Idle, Saving
  <1>8. ASSUME NEW p \in Pages,
               RegionCreateRead(r, p) PROVE Opens
    BY <1>8, EnterQuiet DEF RegionCreateRead, Idle, Saving
  <1>9. ASSUME NEW g \in Regions,
               RegionDeleteRead(r, g) PROVE Opens
    BY <1>9, EnterQuiet DEF RegionDeleteRead, Idle, Saving
  <1>10. ASSUME NEW target \in ChapterStatus,
               SetStatusRead(r, target) PROVE Opens
    BY <1>10, EnterQuiet DEF SetStatusRead, Idle, Saving
  <1>11. ASSUME NEW target \in ChapterStatus,
               EditorReviewRead(r, target) PROVE Opens
    BY <1>11, EnterQuiet DEF EditorReviewRead, Idle, Saving
  <1>12. ASSUME NEW target \in ChapterStatus,
               BoardReviewRead(r, target) PROVE Opens
    BY <1>12, EnterQuiet DEF BoardReviewRead, Idle, Saving
  <1> HIDE DEF Opens
  <1>14. Assistants \subseteq Users /\ Mangaka \in Users
    BY DEF Users
  <1>15. Opens
    BY <1>1, <1>2, <1>3, <1>4, <1>5, <1>6, <1>7, <1>8, <1>9, <1>10, <1>11, <1>12, <1>14 DEF Call
  <1> QED  BY <1>15 DEF Opens

\* A request that returns without touching a version is quiet.
LEMMA FinishQuiet ==
    ASSUME TypeInv, NEW r \in Reqs, Finish(r), UNCHANGED <<currentVersion, uploader>>,
           ExistingPages' = ExistingPages
    PROVE  Quiet(r)
  BY DEF TypeInv, TypeOK, Finish, Quiet, Idle

\* ... and one that goes on to a statement other than the two of a save.
LEMMA GotoQuiet ==
    ASSUME TypeInv, NEW r \in Reqs, NEW step, step \notin Saving, Goto(r, step),
           UNCHANGED <<currentVersion, uploader>>, ExistingPages' = ExistingPages
    PROVE  Quiet(r)
  BY DEF TypeInv, TypeOK, Goto, Quiet, Saving, Request

\* ... and one that goes on with the sync of a page.
LEMMA StartSyncQuiet ==
    ASSUME TypeInv, NEW r \in Reqs, NEW p, StartSync(r, p),
           UNCHANGED <<currentVersion, uploader>>, ExistingPages' = ExistingPages
    PROVE  Quiet(r)
  BY DEF TypeInv, TypeOK, StartSync, Quiet, Idle

\* Who leaves the page rows alone leaves versions and pages alone.
LEMMA PagesUntouched ==
    ASSUME UNCHANGED pageRows \/ UNCHANGED tables
    PROVE  UNCHANGED <<currentVersion, uploader>> /\ ExistingPages' = ExistingPages
  BY DEF tables, work, pageRows, ExistingPages

\* No statement of assign or start touches a version.
LEMMA TaskStepsQuiet ==
    ASSUME TypeInv, NEW r \in Reqs, TaskSteps(r)
    PROVE  Quiet(r)
  <1>1. CASE AssignCheckRegion(r)
    BY <1>1, PagesUntouched, FinishQuiet, GotoQuiet DEF AssignCheckRegion, Saving
  <1>2. CASE AssignInsert(r)
    BY <1>2, PagesUntouched, FinishQuiet, StartSyncQuiet DEF AssignInsert
  <1>3. CASE StartWrite(r)
    BY <1>3, PagesUntouched, StartSyncQuiet DEF StartWrite
  <1> QED  BY <1>1, <1>2, <1>3 DEF TaskSteps

\* No statement of submit or review does: a review changes only the status of a page.
LEMMA SubmissionStepsQuiet ==
    ASSUME TypeInv, NEW r \in Reqs, SubmissionSteps(r)
    PROVE  Quiet(r)
  <1>1. CASE SubmitVersion(r)
    <2>1. CASE Finish(r)
      BY <1>1, <2>1, PagesUntouched, FinishQuiet DEF SubmitVersion
    <2>2. CASE ~Finish(r)
      <3>1. PICK n : req' = [req EXCEPT ![r].pc = "submit_studio", ![r].num = n]
        BY <1>1, <2>2 DEF SubmitVersion
      <3> QED
        BY <1>1, <3>1, PagesUntouched DEF SubmitVersion, TypeInv, TypeOK, Quiet, Request
    <2> QED  BY <2>1, <2>2
  <1>2. CASE SubmitCheckStudio(r)
    BY <1>2, PagesUntouched, FinishQuiet, GotoQuiet DEF SubmitCheckStudio, Saving
  <1>3. CASE SubmitInsert(r)
    BY <1>3, PagesUntouched, FinishQuiet, GotoQuiet DEF SubmitInsert, Saving
  <1>4. CASE SubmitWrite(r)
    BY <1>4, PagesUntouched, StartSyncQuiet DEF SubmitWrite
  <1>5. CASE ReviewBegin(r)
    <2>1. PICK n : req' = [req EXCEPT ![r].pc = "review_commit", ![r].target = n]
      BY <1>5 DEF ReviewBegin
    <2> QED
      BY <1>5, <2>1, PagesUntouched DEF ReviewBegin, TypeInv, TypeOK, Quiet, Request
  <1>6. CASE ReviewCommit(r)
    <2>1. req[r].task \in TaskIds /\ req[r].target \in PageStatus \cup {NoStatus}
      BY <1>6 DEF TypeInv, RequestsFitRows, Fits, ReviewCommit, At
    <2>2. PageOf(req[r].task) \in ExistingPages
      BY <2>1, TaskIsOnPage
    <2>3. ExistingPages' = ExistingPages
      BY <1>6, <2>1, <2>2, StatusesAreDistinct DEF TypeInv, TypeOK, ReviewCommit, ExistingPages
    <2> QED
      BY <1>6, <2>3, FinishQuiet DEF ReviewCommit
  <1> QED  BY <1>1, <1>2, <1>3, <1>4, <1>5, <1>6 DEF SubmissionSteps

\* The sync changes only the status of a page.
LEMMA SyncStepsQuiet ==
    ASSUME TypeInv, NEW r \in Reqs, SyncSteps(r)
    PROVE  Quiet(r)
  <1>1. CASE SyncReadTasks(r)
    <2>1. CASE Finish(r)
      BY <1>1, <2>1, PagesUntouched, FinishQuiet DEF SyncReadTasks
    <2>2. CASE ~Finish(r)
      <3>1. PICK d : req' = [req EXCEPT ![r].pc = "sync_page", ![r].target = d]
        BY <1>1, <2>2 DEF SyncReadTasks
      <3> QED
        BY <1>1, <3>1, PagesUntouched DEF SyncReadTasks, TypeInv, TypeOK, Quiet, Request
    <2> QED  BY <2>1, <2>2
  <1>2. CASE SyncReadPage(r)
    BY <1>2, PagesUntouched, FinishQuiet, GotoQuiet DEF SyncReadPage, Saving
  <1>3. CASE SyncWrite(r)
    <2>1. req[r].page \in ExistingPages /\ req[r].target \in PageStatus
      BY <1>3 DEF TypeInv, RequestsFitRows, Fits, SyncWrite, At
    <2>2. ExistingPages' = ExistingPages
      BY <1>3, <2>1, StatusesAreDistinct DEF TypeInv, TypeOK, SyncWrite, ExistingPages
    <2> QED
      BY <1>3, <2>2, FinishQuiet DEF SyncWrite
  <1> QED  BY <1>1, <1>2, <1>3 DEF SyncSteps

\* The statements on the status of the chapter touch no page.
LEMMA ChapterStepsQuiet ==
    ASSUME TypeInv, NEW r \in Reqs, ChapterSteps(r)
    PROVE  Quiet(r)
  <1>1. CASE SetStatusCheckReadiness(r) \/ EditorCheckReadiness(r)
    BY <1>1, PagesUntouched, FinishQuiet, GotoQuiet
    DEF SetStatusCheckReadiness, EditorCheckReadiness, Saving
  <1>2. CASE WriteChapter(r)
    <2>1. UNCHANGED pageRows
      BY <1>2 DEF WriteChapter, work
    <2> QED  BY <1>2, <2>1, PagesUntouched, FinishQuiet DEF WriteChapter
  <1> QED
    BY <1>1, <1>2 DEF ChapterSteps, SetStatusWrite, EditorReviewWrite, BoardReviewWrite

\* The statements on regions touch no page.
LEMMA RegionStepsQuiet ==
    ASSUME TypeInv, NEW r \in Reqs,
           RegionCheckVersion(r) \/ RegionInsert(r) \/ RegionDelete(r)
    PROVE  Quiet(r)
  <1>1. CASE RegionCheckVersion(r)
    BY <1>1, PagesUntouched, FinishQuiet, GotoQuiet DEF RegionCheckVersion, Saving
  <1>2. CASE RegionInsert(r) \/ RegionDelete(r)
    BY <1>2, PagesUntouched, FinishQuiet DEF RegionInsert, RegionDelete
  <1> QED  BY <1>1, <1>2

SavesInv == VersionsContiguous /\ SavesInOrder

\* No save is in flight in the initial states, and a drawn page has version 1 only.
LEMMA InitSavesInv == Init => SavesInv
  <1> SUFFICES ASSUME Init PROVE SavesInv
    OBVIOUS
  <1>1. \A r \in Reqs : req[r].pc = "idle"
    BY DEF Init, InitEmpty, InitDrawn, Idle
  <1>2. SavesInOrder
    BY <1>1 DEF SavesInOrder, At
  <1>3. CASE InitEmpty
    BY <1>2, <1>3 DEF InitEmpty, SavesInv, VersionsContiguous, VersionsOf, ExistingPages
  <1>4. CASE InitDrawn
    <2>1. ASSUME NEW p \in Pages
          PROVE  /\ currentVersion[p] = 0 <=> p \notin ExistingPages
                 /\ VersionsOf(p) \subseteq {1}
                 /\ currentVersion[p] \in {0, 1}
      BY <1>4, <2>1 DEF InitDrawn, VersionsOf, ExistingPages, Absent
    <2>2. ASSUME NEW p \in Pages
          PROVE  2 .. currentVersion[p] = {}
      BY <2>1
    <2> QED  BY <1>2, <2>1, <2>2 DEF SavesInv, VersionsContiguous
  <1> QED  BY <1>3, <1>4 DEF Init

\* What a request that is saving holds.
LEMMA SavingRequest ==
    ASSUME TypeInv, NEW r \in Reqs, req[r].pc \in {"save_current", "save_insert", "save_update"}
    PROVE  req[r].page \in ExistingPages /\ req[r].page \in Pages
  BY DEF TypeInv, RequestsFitRows, Fits, ExistingPages

\* A quiet step keeps the order of the saves.
LEMMA QuietSavesInv ==
    ASSUME TypeInv, SavesInv, NEW r \in Reqs, Quiet(r)
    PROVE  SavesInv'
  <1>1. VersionsContiguous'
    BY DEF SavesInv, VersionsContiguous, VersionsOf, Quiet
  <1>2. SavesInOrder'
    BY DEF SavesInv, SavesInOrder, VersionsOf, Quiet, At
  <1> QED  BY <1>1, <1>2 DEF SavesInv

\* A save takes the number after the current version.
LEMMA SaveReadCurrentSavesInv ==
    ASSUME TypeInv, SavesInv, NEW r \in Reqs, SaveReadCurrent(r)
    PROVE  SavesInv'
  <1> DEFINE p == req[r].page
             next == currentVersion[p] + 1
  <1>1. CASE Finish(r)
    BY <1>1, PagesUntouched, FinishQuiet, QuietSavesInv DEF SaveReadCurrent
  <1>2. CASE req' = [req EXCEPT ![r].pc = "save_insert", ![r].num = next]
    <2>1. p \in ExistingPages /\ p \in Pages
      BY SavingRequest DEF SaveReadCurrent, At
    <2>2. UNCHANGED <<currentVersion, uploader>> /\ ExistingPages' = ExistingPages
      BY PagesUntouched DEF SaveReadCurrent
    <2>3. next \in 2 .. currentVersion[p] + 1
      <3>1. currentVersion[p] \in Nat
        BY <2>1 DEF TypeInv, TypeOK
      <3>2. currentVersion[p] # 0
        BY <2>1 DEF SavesInv, VersionsContiguous
      <3> QED  BY <3>1, <3>2
    <2> HIDE DEF next
    <2>4. /\ \A s \in Reqs \ {r} : req'[s] = req[s]
          /\ req'[r].pc = "save_insert"
          /\ req'[r].num = next
          /\ req'[r].page = p
      BY <1>2 DEF TypeInv, TypeOK, Request
    <2>5. VersionsContiguous'
      BY <2>2 DEF SavesInv, VersionsContiguous, VersionsOf
    <2> HIDE DEF p
    <2>6. SavesInOrder'
      BY <2>2, <2>3, <2>4 DEF SavesInv, SavesInOrder, VersionsOf, At
    <2> QED  BY <2>5, <2>6 DEF SavesInv
  <1> QED  BY <1>1, <1>2 DEF SaveReadCurrent

\* UNIQUE (page_id, version_number) lets one of the saves with the same number in, and
\* only while no other is between its insert and its update.
LEMMA SaveInsertSavesInv ==
    ASSUME TypeInv, SavesInv, NEW r \in Reqs, SaveInsert(r)
    PROVE  SavesInv'
  <1>1. CASE Finish(r) /\ UNCHANGED tables
    BY <1>1, PagesUntouched, FinishQuiet, QuietSavesInv
  <1>2. CASE /\ req[r].num \notin VersionsOf(req[r].page)
             /\ uploader' = [uploader EXCEPT ![req[r].page][req[r].num] = req[r].user]
             /\ Goto(r, "save_update")
             /\ UNCHANGED <<chapter, page, currentVersion, document, regionRows, taskRows,
                            submissionRows>>
    <2>1. PICK p \in Pages, n \in Versions, u \in Users :
             p = req[r].page /\ n = req[r].num /\ u = req[r].user
      BY DEF TypeInv, RequestsFitRows, Fits, SaveInsert, At, ExistingPages
    <2>2. n \in 2 .. currentVersion[p] + 1 /\ 2 .. currentVersion[p] \subseteq VersionsOf(p)
      BY <2>1 DEF SavesInv, SavesInOrder, VersionsContiguous, SaveInsert, At
    <2>3. currentVersion[p] \in Nat /\ n = currentVersion[p] + 1
      <3>1. currentVersion[p] \in Nat
        BY DEF TypeInv, TypeOK
      <3>2. n \notin 2 .. currentVersion[p]
        BY <1>2, <2>1, <2>2
      <3> QED  BY <2>2, <3>1, <3>2
    <2>4. VersionsOf(p)' = VersionsOf(p) \cup {n}
      <3>1. u # None
        BY NamesAssumption DEF Users
      <3>2. uploader[p] \in [Versions -> Users \cup {None}]
        BY DEF TypeInv, TypeOK
      <3>3. uploader'[p] = [uploader[p] EXCEPT ![n] = u]
        BY <1>2, <2>1 DEF TypeInv, TypeOK
      <3> QED  BY <3>1, <3>2, <3>3 DEF VersionsOf
    <2>5. \A o \in Pages \ {p} : VersionsOf(o)' = VersionsOf(o)
      BY <1>2, <2>1 DEF TypeInv, TypeOK, VersionsOf
    <2>6. ExistingPages' = ExistingPages /\ UNCHANGED currentVersion
      BY <1>2 DEF ExistingPages
    <2>7. VersionsContiguous'
      <3> SUFFICES ASSUME NEW o \in Pages
                   PROVE  /\ currentVersion[o] = 0 <=> o \notin ExistingPages
                          /\ VersionsOf(o)' \ {1} \subseteq 2 .. currentVersion[o] + 1
                          /\ 2 .. currentVersion[o] \subseteq VersionsOf(o)'
        BY <2>6 DEF VersionsContiguous
      <3>1. /\ currentVersion[o] = 0 <=> o \notin ExistingPages
            /\ VersionsOf(o) \ {1} \subseteq 2 .. currentVersion[o] + 1
            /\ 2 .. currentVersion[o] \subseteq VersionsOf(o)
        BY DEF SavesInv, VersionsContiguous
      <3>2. CASE o = p
        BY <2>2, <2>4, <3>1, <3>2
      <3>3. CASE o # p
        BY <2>5, <3>1, <3>3
      <3> QED  BY <3>2, <3>3
    <2>8. /\ \A s \in Reqs \ {r} : req'[s] = req[s]
          /\ req'[r].pc = "save_update"
          /\ req'[r].num = n
          /\ req'[r].page = p
      BY <1>2, <2>1, GotoRequest DEF TypeInv, Steps
    <2>9. ASSUME NEW s \in Reqs \ {r}, req[s].pc = "save_update"
          PROVE  req[s].page \in Pages \ {p}
      <3>1. req[s].page \in Pages
        BY <2>9, SavingRequest
      <3>2. /\ req[s].num = currentVersion[req[s].page] + 1
            /\ req[s].num \in VersionsOf(req[s].page)
        BY <2>9 DEF SavesInv, SavesInOrder
      <3> QED  BY <1>2, <2>1, <2>3, <3>1, <3>2
    <2>10. SavesInOrder'
      <3>1. ASSUME NEW s \in Reqs, req'[s].pc = "save_insert"
            PROVE  req'[s].num \in 2 .. currentVersion[req'[s].page] + 1
        BY <2>8, <3>1 DEF SavesInv, SavesInOrder
      <3>2. ASSUME NEW s \in Reqs, req'[s].pc = "save_update"
            PROVE  /\ req'[s].num = currentVersion[req'[s].page] + 1
                   /\ \A o \in Pages : o = req'[s].page => req'[s].num \in VersionsOf(o)'
                   /\ req'[s].page \in Pages
        <4>1. CASE s = r
          BY <2>3, <2>4, <2>8, <4>1
        <4>2. CASE s # r
          <5>1. req'[s] = req[s] /\ req[s].page \in Pages \ {p}
            BY <2>8, <2>9, <3>2, <4>2
          <5>2. /\ req[s].num = currentVersion[req[s].page] + 1
                /\ req[s].num \in VersionsOf(req[s].page)
            BY <3>2, <5>1 DEF SavesInv, SavesInOrder
          <5> QED  BY <2>5, <5>1, <5>2
        <4> QED  BY <4>1, <4>2
      <3>3. ASSUME NEW s \in Reqs, NEW q \in Reqs, req'[s].pc = "save_update",
                   req'[q].pc = "save_update", req'[s].page = req'[q].page
            PROVE  s = q
        BY <2>8, <2>9, <3>3 DEF SavesInv, SavesInOrder, At
      <3> QED
        BY <2>6, <3>1, <3>2, <3>3 DEF SavesInOrder, VersionsOf, At
    <2> QED  BY <2>7, <2>10 DEF SavesInv
  <1> QED  BY <1>1, <1>2 DEF SaveInsert

\* The save that is in moves current_version by one; no other save is past its insert.
LEMMA SaveUpdateSavesInv ==
    ASSUME TypeInv, SavesInv, NEW r \in Reqs, SaveUpdate(r)
    PROVE  /\ SavesInv'
           /\ \A p \in Pages : currentVersion'[p] >= currentVersion[p]
  <1> DEFINE p == req[r].page
             n == req[r].num
  <1>1. p \in Pages /\ p \in ExistingPages /\ At(r, "save_update")
    BY SavingRequest DEF SaveUpdate, At
  <1>2. n = currentVersion[p] + 1 /\ n \in VersionsOf(p) /\ currentVersion[p] \in Nat
    BY <1>1 DEF SavesInv, SavesInOrder, At, TypeInv, TypeOK
  <1>3. /\ currentVersion'[p] = n
        /\ \A o \in Pages \ {p} : currentVersion'[o] = currentVersion[o]
    BY <1>1 DEF SaveUpdate, TypeInv, TypeOK
  <1>4. ExistingPages' = ExistingPages
    BY <1>1 DEF SaveUpdate, TypeInv, TypeOK, ExistingPages, Absent
  <1>5. \A o \in Pages : VersionsOf(o)' = VersionsOf(o)
    BY DEF SaveUpdate, VersionsOf
  <1>6. VersionsContiguous'
    BY <1>1, <1>2, <1>3, <1>4, <1>5 DEF SavesInv, VersionsContiguous
  <1>7. /\ \A s \in Reqs \ {r} : req'[s] = req[s]
        /\ req'[r].pc = "idle"
    BY DEF SaveUpdate, Finish, Idle, TypeInv, TypeOK
  <1>8. ASSUME NEW s \in Reqs \ {r}, At(s, "save_update")
        PROVE  req[s].page # p
    BY <1>1, <1>8 DEF SavesInv, SavesInOrder
  <1>9. ASSUME NEW s \in Reqs, req[s].pc \in Saving
        PROVE  req[s].page \in Pages
    BY <1>9, SavingRequest DEF Saving
  <1> HIDE DEF p, n
  <1>10. SavesInOrder'
    BY <1>2, <1>3, <1>5, <1>7, <1>8, <1>9 DEF SavesInv, SavesInOrder, At, Saving
  <1>11. \A o \in Pages : currentVersion'[o] >= currentVersion[o]
    BY <1>2, <1>3 DEF TypeInv, TypeOK
  <1> QED  BY <1>6, <1>10, <1>11 DEF SavesInv

Grows == \A p \in Pages : currentVersion'[p] >= currentVersion[p]

\* A new page starts with current_version 1, and no save of it is in flight.
LEMMA PageInsertSavesInv ==
    ASSUME TypeInv, SavesInv, NEW r \in Reqs, PageInsert(r)
    PROVE  SavesInv' /\ Grows
  <1>1. PICK p \in Pages : p = req[r].page
    BY DEF TypeInv, RequestsFitRows, Fits, PageInsert, At
  <1>2. CASE Finish(r) /\ UNCHANGED tables
    <2>1. SavesInv' /\ UNCHANGED currentVersion
      BY <1>2, PagesUntouched, FinishQuiet, QuietSavesInv
    <2> QED  BY <2>1 DEF Grows, TypeInv, TypeOK
  <1>3. CASE /\ p \notin ExistingPages
             /\ page' = [page EXCEPT ![p] = "RAW"]
             /\ currentVersion' = [currentVersion EXCEPT ![p] = 1]
             /\ Goto(r, "page_version")
             /\ UNCHANGED <<chapter, uploader, document, regionRows, taskRows, submissionRows>>
    <2>1. ExistingPages' = ExistingPages \cup {p}
      BY <1>3 DEF TypeInv, TypeOK, ExistingPages, Absent
    <2>2. /\ currentVersion[p] = 0 /\ currentVersion'[p] = 1
          /\ \A o \in Pages \ {p} : currentVersion'[o] = currentVersion[o]
      BY <1>3 DEF TypeInv, TypeOK, SavesInv, VersionsContiguous
    <2>3. /\ \A s \in Reqs \ {r} : req'[s] = req[s]
          /\ req'[r].pc = "page_version"
      BY <1>3, GotoRequest DEF TypeInv, Steps
    <2>4. VersionsContiguous'
      <3> SUFFICES ASSUME NEW o \in Pages
                   PROVE  /\ currentVersion'[o] = 0 <=> o \notin ExistingPages'
                          /\ VersionsOf(o) \ {1} \subseteq 2 .. currentVersion'[o] + 1
                          /\ 2 .. currentVersion'[o] \subseteq VersionsOf(o)
        BY <1>3 DEF VersionsContiguous, VersionsOf
      <3>1. /\ currentVersion[o] = 0 <=> o \notin ExistingPages
            /\ VersionsOf(o) \ {1} \subseteq 2 .. currentVersion[o] + 1
            /\ 2 .. currentVersion[o] \subseteq VersionsOf(o)
        BY DEF SavesInv, VersionsContiguous
      <3>2. CASE o = p
        BY <2>1, <2>2, <3>1, <3>2
      <3>3. CASE o # p
        BY <2>1, <2>2, <3>1, <3>3
      <3> QED  BY <3>2, <3>3
    <2>5. ASSUME NEW s \in Reqs, req'[s].pc \in Saving
          PROVE  s # r /\ req'[s] = req[s] /\ req[s].page \in Pages \ {p}
      BY <1>3, <2>3, <2>5, SavingRequest DEF Saving
    <2>6. SavesInOrder'
      BY <1>3, <2>2, <2>5 DEF SavesInv, SavesInOrder, VersionsOf, At, Saving
    <2>7. Grows
      BY <2>2 DEF Grows, TypeInv, TypeOK
    <2> QED  BY <2>4, <2>6, <2>7 DEF SavesInv
  <1> QED  BY <1>1, <1>2, <1>3 DEF PageInsert

\* The first version of a page leaves the numbers of its later versions alone.
LEMMA PageInsertVersionSavesInv ==
    ASSUME TypeInv, SavesInv, NEW r \in Reqs, PageInsertVersion(r)
    PROVE  SavesInv' /\ Grows
  <1>1. PICK p \in Pages : p = req[r].page
    BY DEF TypeInv, RequestsFitRows, Fits, PageInsertVersion, At, ExistingPages
  <1>2. uploader' = [uploader EXCEPT ![p][1] = Mangaka] /\ 1 \in Versions /\ Mangaka # None
    BY <1>1, BoundsAssumption, NamesAssumption DEF PageInsertVersion, Versions
  <1>3. \A o \in Pages : VersionsOf(o)' = VersionsOf(o) \/ VersionsOf(o)' = VersionsOf(o) \cup {1}
    <2>1. uploader'[p] = [uploader[p] EXCEPT ![1] = Mangaka]
      BY <1>2 DEF TypeInv, TypeOK
    <2>2. VersionsOf(p)' = VersionsOf(p) \cup {1}
      BY <1>2, <2>1 DEF TypeInv, TypeOK, VersionsOf
    <2>3. \A o \in Pages \ {p} : VersionsOf(o)' = VersionsOf(o)
      BY <1>2 DEF TypeInv, TypeOK, VersionsOf
    <2> QED  BY <2>2, <2>3
  <1>4. ExistingPages' = ExistingPages /\ UNCHANGED currentVersion
    BY DEF PageInsertVersion, ExistingPages
  <1>5. /\ \A s \in Reqs \ {r} : req'[s] = req[s]
        /\ req'[r].pc = "idle"
    BY DEF PageInsertVersion, Finish, Idle, TypeInv, TypeOK
  <1>6. VersionsContiguous'
    <2> SUFFICES ASSUME NEW o \in Pages
                 PROVE  /\ currentVersion[o] = 0 <=> o \notin ExistingPages
                        /\ VersionsOf(o)' \ {1} \subseteq 2 .. currentVersion[o] + 1
                        /\ 2 .. currentVersion[o] \subseteq VersionsOf(o)'
      BY <1>4 DEF VersionsContiguous
    <2> QED
      BY <1>3 DEF SavesInv, VersionsContiguous
  <1>7. ASSUME NEW s \in Reqs, req'[s].pc \in Saving
        PROVE  s # r /\ req'[s] = req[s] /\ req[s].page \in Pages
    BY <1>5, <1>7, SavingRequest DEF Saving
  <1>8. ASSUME NEW s \in Reqs, req'[s].pc = "save_update"
        PROVE  \A o \in Pages : o = req'[s].page => req'[s].num \in VersionsOf(o)'
    BY <1>3, <1>7, <1>8 DEF SavesInv, SavesInOrder, Saving
  <1>9. SavesInOrder'
    BY <1>4, <1>7, <1>8 DEF SavesInv, SavesInOrder, VersionsOf, At, Saving
  <1>10. Grows
    BY <1>4 DEF Grows, TypeInv, TypeOK
  <1> QED  BY <1>6, <1>9, <1>10 DEF SavesInv

\* A quiet step keeps the order of the saves and the current versions.
LEMMA QuietGrows ==
    ASSUME TypeInv, SavesInv, NEW r \in Reqs, Quiet(r)
    PROVE  SavesInv' /\ Grows
  <1>1. SavesInv' /\ UNCHANGED currentVersion
    BY QuietSavesInv DEF Quiet
  <1> QED  BY <1>1 DEF Grows, TypeInv, TypeOK

\* The statements of the Studio keep the order of the saves.
LEMMA StudioStepsSavesInv ==
    ASSUME TypeInv, SavesInv, NEW r \in Reqs, StudioSteps(r)
    PROVE  SavesInv' /\ Grows
  <1>1. CASE SaveReadCurrent(r)
    <2>1. UNCHANGED currentVersion
      BY <1>1, PagesUntouched DEF SaveReadCurrent
    <2> QED  BY <1>1, <2>1, SaveReadCurrentSavesInv DEF Grows, TypeInv, TypeOK
  <1>2. CASE SaveInsert(r)
    <2>1. UNCHANGED currentVersion
      BY <1>2, PagesUntouched DEF SaveInsert
    <2> QED  BY <1>2, <2>1, SaveInsertSavesInv DEF Grows, TypeInv, TypeOK
  <1>3. CASE SaveUpdate(r)
    BY <1>3, SaveUpdateSavesInv DEF Grows
  <1>4. CASE DocWrite(r)
    <2>1. UNCHANGED <<currentVersion, uploader>> /\ ExistingPages' = ExistingPages
      BY <1>4 DEF DocWrite, ExistingPages
    <2> QED  BY <1>4, <2>1, FinishQuiet, QuietGrows DEF DocWrite
  <1> QED  BY <1>1, <1>2, <1>3, <1>4 DEF StudioSteps

\* The statements on pages and regions keep the order of the saves.
LEMMA PageStepsSavesInv ==
    ASSUME TypeInv, SavesInv, NEW r \in Reqs, PageSteps(r)
    PROVE  SavesInv' /\ Grows
  <1>1. CASE PageReadNumber(r)
    <2>1. CASE Finish(r)
      BY <1>1, <2>1, PagesUntouched, FinishQuiet, QuietGrows DEF PageReadNumber
    <2>2. CASE ~Finish(r)
      <3>1. PICK n : req' = [req EXCEPT ![r].pc = "page_insert", ![r].page = n]
        BY <1>1, <2>2 DEF PageReadNumber
      <3>2. Quiet(r)
        BY <1>1, <3>1, PagesUntouched DEF PageReadNumber, TypeInv, TypeOK, Quiet, Request
      <3> QED  BY <3>2, QuietGrows
    <2> QED  BY <2>1, <2>2
  <1>2. CASE PageInsert(r)
    BY <1>2, PageInsertSavesInv
  <1>3. CASE PageInsertVersion(r)
    BY <1>3, PageInsertVersionSavesInv
  <1>4. CASE RegionCheckVersion(r) \/ RegionInsert(r) \/ RegionDelete(r)
    BY <1>4, RegionStepsQuiet, QuietGrows
  <1> QED  BY <1>1, <1>2, <1>3, <1>4 DEF PageSteps

\* The order of the saves is inductive, given the type invariant.
LEMMA NextSavesInv == TypeInv /\ SavesInv /\ [Next]_vars => SavesInv' /\ Grows
  <1> SUFFICES ASSUME TypeInv, SavesInv, [Next]_vars PROVE SavesInv' /\ Grows
    OBVIOUS
  <1>1. CASE UNCHANGED vars
    BY <1>1 DEF vars, tables, work, pageRows, SavesInv, VersionsContiguous, SavesInOrder,
       VersionsOf, ExistingPages, At, Grows, TypeInv, TypeOK
  <1>2. ASSUME NEW r \in Reqs, Call(r) PROVE SavesInv' /\ Grows
    BY <1>2, CallQuiet, QuietGrows
  <1>3. ASSUME NEW r \in Reqs, Progress(r) PROVE SavesInv' /\ Grows
    BY <1>3, TaskStepsQuiet, SubmissionStepsQuiet, SyncStepsQuiet, ChapterStepsQuiet,
       StudioStepsSavesInv, PageStepsSavesInv, QuietGrows DEF Progress
  <1>4. ASSUME NEW r \in Reqs, Fail(r) PROVE SavesInv' /\ Grows
    BY <1>4, PagesUntouched, FinishQuiet, QuietGrows DEF Fail
  <1> QED  BY <1>1, <1>2, <1>3, <1>4 DEF Next

\* However many saves of a page run at once and wherever one dies, the versions have
\* no holes, and of the saves in flight only one has its version in.
THEOREM SavesStayInOrder == Spec => []SavesInv
  <1>1. Init => SavesInv
    BY InitSavesInv
  <1>2. TypeInv /\ SavesInv /\ [Next]_vars => SavesInv'
    BY NextSavesInv
  <1> QED
    BY <1>1, <1>2, TypeInvariant, PTL DEF Spec

\* The stored versions of a page are contiguous, at most one ahead of the current.
THEOREM VersionsStayContiguous == Spec => []VersionsContiguous
  <1>1. SavesInv => VersionsContiguous
    BY DEF SavesInv
  <1> QED
    BY <1>1, SavesStayInOrder, PTL

\* No stale save ever takes a page back to an older version.
THEOREM CurrentVersionNeverFalls == Spec => CurrentVersionGrows
  <1>1. TypeInv /\ SavesInv /\ [Next]_vars =>
           [\A p \in Pages : currentVersion'[p] >= currentVersion[p]]_vars
    BY NextSavesInv DEF Grows
  <1> QED
    BY <1>1, TypeInvariant, SavesStayInOrder, PTL DEF Spec, CurrentVersionGrows

\* Of the saves of a page in flight at most one is past its insert, with the version
\* next to the current one.
THEOREM SavesKeepTheirOrder == Spec => []SavesInOrder
  <1>1. SavesInv => SavesInOrder
    BY DEF SavesInv
  <1> QED
    BY <1>1, SavesStayInOrder, PTL

-----------------------------------------------------------------------------
(* Regions lie on drawn pages, tasks with assistants: what the canvas and  *)
(* the list of tasks rely on.                                              *)

\* The current version of a page, once it is stored, stays stored.
VersionsStay == \A p \in Pages : HasCurrentVersion(p) => HasCurrentVersion(p)'

\* Every region is on a page that has its current version, and so is the one that a
\* request is about to insert; every task has an assistant.
DrawnInv ==
    /\ \A g \in Regions : region[g] # Absent => HasCurrentVersion(regionPage[g])
    /\ \A r \in Reqs : At(r, "region_insert") => HasCurrentVersion(req[r].page)
    /\ \A t \in TaskIds : assignee[t] \in Assistants

\* A step that leaves versions and pages alone.
LEMMA QuietVersionsStay ==
    ASSUME UNCHANGED <<currentVersion, uploader>>
    PROVE  VersionsStay
  <1> QED  BY DEF VersionsStay, HasCurrentVersion, VersionsOf

\* A step that adds a version to one page at most.
LEMMA AddedVersionStays ==
    ASSUME TypeInv, NEW p \in Pages, NEW n \in Versions, NEW u \in Users,
           uploader' = [uploader EXCEPT ![p][n] = u], UNCHANGED currentVersion
    PROVE  VersionsStay
  <1>1. u # None
    BY NamesAssumption DEF Users
  <1>2. uploader \in [Pages -> [Versions -> Users \cup {None}]]
    BY DEF TypeInv, TypeOK
  <1>3. ASSUME NEW o \in Pages, NEW v \in Versions, uploader[o][v] # None PROVE uploader'[o][v] # None
    BY <1>1, <1>2, <1>3
  <1> QED  BY <1>3 DEF VersionsStay, HasCurrentVersion, VersionsOf

\* However saves and uploads interleave, a page does not lose its current version: a save
\* moves current_version to a version that is in, an upload sets it where there was none.
LEMMA VersionsAreKept ==
    ASSUME TypeInv, SavesInv, NEW r \in Reqs, Call(r) \/ Progress(r) \/ Fail(r)
    PROVE  VersionsStay
  <1>q. ASSUME Quiet(r) PROVE VersionsStay
    BY <1>q, QuietVersionsStay DEF Quiet
  <1>u. ASSUME UNCHANGED tables PROVE VersionsStay
    BY <1>u, PagesUntouched, QuietVersionsStay
  <1>1. CASE Call(r) \/ Fail(r)
    BY <1>1, <1>q, <1>u, CallQuiet DEF Fail
  <1>2. CASE TaskSteps(r) \/ SubmissionSteps(r) \/ SyncSteps(r) \/ ChapterSteps(r)
    BY <1>2, <1>q, TaskStepsQuiet, SubmissionStepsQuiet, SyncStepsQuiet, ChapterStepsQuiet
  <1>3. CASE SaveInsert(r)
    <2>1. CASE UNCHANGED tables
      BY <2>1, <1>u
    <2>2. CASE ~UNCHANGED tables
      <3>1. PICK p \in Pages, n \in Versions, u \in Users :
               p = req[r].page /\ n = req[r].num /\ u = req[r].user
        BY <1>3 DEF TypeInv, RequestsFitRows, Fits, SaveInsert, At, ExistingPages
      <3> QED  BY <1>3, <2>2, <3>1, AddedVersionStays DEF SaveInsert
    <2> QED  BY <2>1, <2>2
  <1>4. CASE SaveUpdate(r)
    <2>1. req[r].page \in Pages /\ req[r].num \in VersionsOf(req[r].page)
      BY <1>4, SavingRequest DEF SaveUpdate, SavesInv, SavesInOrder, At
    <2> QED
      BY <1>4, <2>1 DEF SaveUpdate, VersionsStay, HasCurrentVersion, VersionsOf, TypeInv, TypeOK
  <1>5. CASE PageInsert(r)
    <2>1. CASE UNCHANGED tables
      BY <2>1, <1>u
    <2>2. CASE ~UNCHANGED tables
      <3>1. /\ req[r].page \in Pages \ ExistingPages
            /\ currentVersion' = [currentVersion EXCEPT ![req[r].page] = 1]
            /\ UNCHANGED uploader
        BY <1>5, <2>2 DEF TypeInv, RequestsFitRows, Fits, PageInsert, At
      <3>2. currentVersion[req[r].page] = 0
        BY <3>1 DEF SavesInv, VersionsContiguous
      <3>3. ~HasCurrentVersion(req[r].page)
        BY <3>2 DEF HasCurrentVersion, VersionsOf, Versions
      <3> QED
        BY <3>1, <3>3 DEF VersionsStay, HasCurrentVersion, VersionsOf, TypeInv, TypeOK
    <2> QED  BY <2>1, <2>2
  <1>6. CASE PageInsertVersion(r)
    <2>1. req[r].page \in Pages /\ 1 \in Versions /\ Mangaka \in Users
      BY <1>6, BoundsAssumption
      DEF TypeInv, RequestsFitRows, Fits, PageInsertVersion, At, ExistingPages, Versions, Users
    <2> QED  BY <1>6, <2>1, AddedVersionStays DEF PageInsertVersion
  <1>7. CASE SaveReadCurrent(r) \/ DocWrite(r) \/ PageReadNumber(r) \/ RegionCheckVersion(r)
               \/ RegionInsert(r) \/ RegionDelete(r)
    <2>1. UNCHANGED <<currentVersion, uploader>>
      BY <1>7 DEF SaveReadCurrent, DocWrite, PageReadNumber, RegionCheckVersion, RegionInsert,
         RegionDelete, tables, work, pageRows
    <2> QED  BY <2>1, QuietVersionsStay
  <1> QED
    BY <1>1, <1>2, <1>3, <1>4, <1>5, <1>6, <1>7 DEF Progress, StudioSteps, PageSteps

\* A request that does not come to insert a region.
Regionless(r) ==
    /\ \A s \in Reqs \ {r} : req'[s] = req[s]
    /\ req'[r].pc # "region_insert"

\* A request that begins, and has read only.
LEMMA EnterRegionless ==
    ASSUME TypeInv, NEW r \in Reqs, NEW q, q.pc # "region_insert", Enter(r, q)
    PROVE  Regionless(r)
  <1> QED  BY DEF TypeInv, TypeOK, Enter, Regionless

\* A request that is done.
LEMMA FinishRegionless ==
    ASSUME TypeInv, NEW r \in Reqs, Finish(r)
    PROVE  Regionless(r)
  <1> QED  BY DEF TypeInv, TypeOK, Finish, Regionless, Idle

\* A request that goes on elsewhere.
LEMMA GotoRegionless ==
    ASSUME TypeInv, NEW r \in Reqs, NEW step, step # "region_insert", Goto(r, step)
    PROVE  Regionless(r)
  <1> QED  BY DEF TypeInv, TypeOK, Goto, Regionless, Request

\* A request that goes on to the status of its page.
LEMMA SyncRegionless ==
    ASSUME TypeInv, NEW r \in Reqs, NEW p, StartSync(r, p)
    PROVE  Regionless(r)
  <1> QED  BY DEF TypeInv, TypeOK, StartSync, Regionless, Idle

\* A request that goes on with what it has read.
LEMMA ReadRegionless ==
    ASSUME TypeInv, NEW r \in Reqs, NEW step, step # "region_insert", NEW n,
           \/ req' = [req EXCEPT ![r].pc = step, ![r].num = n]
           \/ req' = [req EXCEPT ![r].pc = step, ![r].page = n]
           \/ req' = [req EXCEPT ![r].pc = step, ![r].target = n]
    PROVE  Regionless(r)
  <1>1. req \in [Reqs -> Request]
    BY DEF TypeInv, TypeOK
  <1>2. req[r] \in Request
    BY <1>1
  <1>3. CASE req' = [req EXCEPT ![r].pc = step, ![r].num = n]
    BY <1>1, <1>2, <1>3 DEF Regionless, Request
  <1>4. CASE req' = [req EXCEPT ![r].pc = step, ![r].page = n]
    BY <1>1, <1>2, <1>4 DEF Regionless, Request
  <1>5. CASE req' = [req EXCEPT ![r].pc = step, ![r].target = n]
    BY <1>1, <1>2, <1>5 DEF Regionless, Request
  <1> QED  BY <1>3, <1>4, <1>5

\* A call reads only.
LEMMA CallRegionless ==
    ASSUME TypeInv, NEW r \in Reqs, Call(r)
    PROVE  Regionless(r)
  <1> USE DEF Idle
  <1>1. ASSUME NEW g \in Regions, NEW a \in Assistants, AssignRead(r, g, a) PROVE Regionless(r)
    BY <1>1, EnterRegionless DEF AssignRead
  <1>2. ASSUME NEW t \in Tasks, StartRead(r, t) \/ SubmitRead(r, t) PROVE Regionless(r)
    BY <1>2, EnterRegionless DEF StartRead, SubmitRead
  <1>3. ASSUME NEW t \in Tasks, NEW v \in SubmissionVersions, NEW d \in Decisions, ReviewRead(r, t, v, d)
        PROVE  Regionless(r)
    BY <1>3, EnterRegionless DEF ReviewRead
  <1>4. ASSUME NEW u, NEW p \in Pages, SaveRead(r, u, p) \/ DocRead(r, u, p) PROVE Regionless(r)
    BY <1>4, EnterRegionless DEF SaveRead, DocRead
  <1>5. ASSUME PageCreateRead(r) PROVE Regionless(r)
    BY <1>5, EnterRegionless DEF PageCreateRead
  <1>6. ASSUME NEW p \in Pages, RegionCreateRead(r, p) PROVE Regionless(r)
    BY <1>6, EnterRegionless DEF RegionCreateRead
  <1>7. ASSUME NEW g \in Regions, RegionDeleteRead(r, g) PROVE Regionless(r)
    BY <1>7, EnterRegionless DEF RegionDeleteRead
  <1>8. ASSUME NEW target \in ChapterStatus,
               SetStatusRead(r, target) \/ EditorReviewRead(r, target) \/ BoardReviewRead(r, target)
        PROVE  Regionless(r)
    BY <1>8, EnterRegionless DEF SetStatusRead, EditorReviewRead, BoardReviewRead
  <1> QED
    BY <1>1, <1>2, <1>3, <1>4, <1>5, <1>6, <1>7, <1>8 DEF Call

\* Only the check of the version leads to the insert of a region.
LEMMA ProgressRegionless ==
    ASSUME TypeInv, NEW r \in Reqs, Progress(r)
    PROVE  Regionless(r) \/ RegionCheckVersion(r)
  <1>f. ASSUME Finish(r) PROVE Regionless(r)
    BY <1>f, FinishRegionless
  <1>1. CASE AssignCheckRegion(r) \/ SubmitCheckStudio(r) \/ SubmitInsert(r) \/ SyncReadPage(r)
               \/ SaveInsert(r) \/ PageInsert(r) \/ SetStatusCheckReadiness(r) \/ EditorCheckReadiness(r)
    BY <1>1, <1>f, GotoRegionless
    DEF AssignCheckRegion, SubmitCheckStudio, SubmitInsert, SyncReadPage, SaveInsert, PageInsert,
        SetStatusCheckReadiness, EditorCheckReadiness
  <1>2. CASE AssignInsert(r) \/ StartWrite(r) \/ SubmitWrite(r)
    BY <1>2, <1>f, SyncRegionless DEF AssignInsert, StartWrite, SubmitWrite
  <1>3. CASE SubmitVersion(r) \/ SaveReadCurrent(r) \/ PageReadNumber(r)
    BY <1>3, <1>f, ReadRegionless DEF SubmitVersion, SaveReadCurrent, PageReadNumber
  <1>4. CASE SyncReadTasks(r) \/ ReviewBegin(r)
    BY <1>4, <1>f, ReadRegionless DEF SyncReadTasks, ReviewBegin
  <1>5. CASE ReviewCommit(r) \/ SyncWrite(r) \/ SaveUpdate(r) \/ DocWrite(r) \/ PageInsertVersion(r)
               \/ RegionInsert(r) \/ RegionDelete(r)
    BY <1>5, <1>f DEF ReviewCommit, SyncWrite, SaveUpdate, DocWrite, PageInsertVersion, RegionInsert,
       RegionDelete
  <1>6. CASE SetStatusWrite(r) \/ EditorReviewWrite(r) \/ BoardReviewWrite(r)
    BY <1>6, <1>f DEF SetStatusWrite, EditorReviewWrite, BoardReviewWrite, WriteChapter
  <1> QED
    BY <1>1, <1>2, <1>3, <1>4, <1>5, <1>6
    DEF Progress, TaskSteps, SubmissionSteps, SyncSteps, StudioSteps, PageSteps, ChapterSteps

\* Where regions come from and what becomes of them.
LEMMA RegionsStay ==
    ASSUME NEW r \in Reqs, Call(r) \/ Progress(r) \/ Fail(r)
    PROVE  UNCHANGED regionRows \/ RegionInsert(r) \/ RegionDelete(r)
  <1>1. CASE Call(r) \/ Fail(r)
    <2>1. UNCHANGED tables
      BY <1>1 DEF Fail, Call, AssignRead, StartRead, SubmitRead, ReviewRead, SaveRead, DocRead,
         PageCreateRead, RegionCreateRead, RegionDeleteRead, SetStatusRead, EditorReviewRead,
         BoardReviewRead
    <2> QED  BY <2>1 DEF tables, work
  <1>2. CASE TaskSteps(r) \/ SubmissionSteps(r) \/ SyncSteps(r)
    BY <1>2 DEF TaskSteps, SubmissionSteps, SyncSteps, AssignCheckRegion, AssignInsert, StartWrite,
       SubmitVersion, SubmitCheckStudio, SubmitInsert, SubmitWrite, ReviewBegin, ReviewCommit,
       SyncReadTasks, SyncReadPage, SyncWrite, tables, work
  <1>3. CASE StudioSteps(r) \/ PageSteps(r)
    BY <1>3 DEF StudioSteps, PageSteps, SaveReadCurrent, SaveInsert, SaveUpdate, DocWrite,
       PageReadNumber, PageInsert, PageInsertVersion, RegionCheckVersion, tables, work, regionRows
  <1>4. CASE ChapterSteps(r)
    BY <1>4 DEF ChapterSteps, SetStatusCheckReadiness, SetStatusWrite, EditorCheckReadiness,
       EditorReviewWrite, BoardReviewWrite, WriteChapter, tables, work
  <1> QED  BY <1>1, <1>2, <1>3, <1>4 DEF Progress

\* Tasks come from assignments only, and keep their assistant.
LEMMA AssigneesStay ==
    ASSUME TypeInv, NEW r \in Reqs, Call(r) \/ Progress(r) \/ Fail(r)
    PROVE  (UNCHANGED assignee /\ TaskIds' = TaskIds) \/ AssignInsert(r)
  <1> DEFINE Stay == UNCHANGED assignee /\ TaskIds' = TaskIds
  <1>u. ASSUME UNCHANGED taskRows PROVE Stay
    BY <1>u DEF taskRows, TaskIds
  <1>m. ASSUME NEW t \in TaskIds, NEW status \in TaskStatus, task' = [task EXCEPT ![t] = status],
               UNCHANGED assignee
        PROVE  Stay
    BY <1>m, StatusesAreDistinct DEF TaskIds, TypeInv, TypeOK
  <1> HIDE DEF Stay
  <1>1. CASE Call(r) \/ Fail(r)
    <2>1. UNCHANGED tables
      BY <1>1 DEF Fail, Call, AssignRead, StartRead, SubmitRead, ReviewRead, SaveRead, DocRead,
         PageCreateRead, RegionCreateRead, RegionDeleteRead, SetStatusRead, EditorReviewRead,
         BoardReviewRead
    <2> QED  BY <2>1, <1>u DEF tables, work, Stay
  <1>2. CASE StartWrite(r) \/ SubmitWrite(r)
    <2>1. req[r].task \in TaskIds
      BY <1>2 DEF TypeInv, RequestsFitRows, Fits, StartWrite, SubmitWrite, At
    <2> QED  BY <1>2, <2>1, <1>m DEF StartWrite, SubmitWrite, TaskStatus, Stay
  <1>3. CASE ReviewCommit(r)
    <2>1. req[r].task \in TaskIds /\ req[r].status \in TaskStatus
      BY <1>3 DEF TypeInv, RequestsFitRows, Fits, ReviewCommit, At, Decisions, TaskStatus
    <2> QED  BY <1>3, <2>1, <1>m DEF ReviewCommit, Stay
  <1>4. CASE AssignCheckRegion(r) \/ SubmitVersion(r) \/ SubmitCheckStudio(r) \/ SubmitInsert(r)
               \/ ReviewBegin(r) \/ SyncSteps(r)
    BY <1>4, <1>u DEF AssignCheckRegion, SubmitVersion, SubmitCheckStudio, SubmitInsert, ReviewBegin,
       SyncSteps, SyncReadTasks, SyncReadPage, SyncWrite, tables, work, Stay
  <1>5. CASE StudioSteps(r) \/ PageSteps(r)
    <2>1. UNCHANGED taskRows
      BY <1>5 DEF StudioSteps, PageSteps, SaveReadCurrent, SaveInsert, SaveUpdate, DocWrite,
         PageReadNumber, PageInsert, PageInsertVersion, RegionCheckVersion, RegionInsert, RegionDelete,
         tables, work
    <2> QED  BY <2>1, <1>u DEF Stay
  <1>6. CASE ChapterSteps(r)
    BY <1>6, <1>u DEF ChapterSteps, SetStatusCheckReadiness, SetStatusWrite, EditorCheckReadiness,
       EditorReviewWrite, BoardReviewWrite, WriteChapter, tables, work, Stay
  <1> QED
    BY <1>1, <1>2, <1>3, <1>4, <1>5, <1>6 DEF Progress, TaskSteps, SubmissionSteps, Stay

\* A new chapter has no regions, a drawn one has them on its first page.
LEMMA InitDrawnInv == Init => DrawnInv
  <1> SUFFICES ASSUME Init PROVE DrawnInv
    OBVIOUS
  <1>1. \A r \in Reqs : req[r].pc = "idle"
    BY DEF Init, InitEmpty, InitDrawn, Idle
  <1>2. TaskIds = {}
    BY DEF Init, InitEmpty, InitDrawn, TaskIds
  <1>3. CASE InitEmpty
    BY <1>1, <1>2, <1>3 DEF InitEmpty, DrawnInv, At
  <1>4. CASE InitDrawn
    <2>1. 1 \in Pages /\ 1 \in Versions
      BY BoundsAssumption DEF Pages, Versions
    <2>2. currentVersion[1] = 1 /\ uploader[1][1] = Mangaka /\ Mangaka # None
      BY <1>4, <2>1, NamesAssumption DEF InitDrawn
    <2>3. HasCurrentVersion(1)
      BY <2>1, <2>2 DEF HasCurrentVersion, VersionsOf
    <2>4. \A g \in Regions : regionPage[g] = 1
      BY <1>4 DEF InitDrawn
    <2> QED  BY <1>1, <1>2, <2>3, <2>4 DEF DrawnInv, At
  <1> QED  BY <1>3, <1>4 DEF Init

\* A step of a request keeps regions on drawn pages and tasks with assistants.
LEMMA StepKeepsDrawn ==
    ASSUME TypeInv, SavesInv, DrawnInv, NEW r \in Reqs, Call(r) \/ Progress(r) \/ Fail(r)
    PROVE  DrawnInv'
  <1>v. VersionsStay
    BY VersionsAreKept
  <1>p. \A g \in Regions : region[g] # Absent => regionPage[g] \in Pages
    BY DEF TypeInv, RowsAreConnected, ExistingPages
  <1>q. \A s \in Reqs : At(s, "region_insert") => req[s].page \in Pages
    BY DEF TypeInv, RequestsFitRows, Fits, ExistingPages, At
  <1>1. ASSUME NEW g \in Regions, region'[g] # Absent PROVE HasCurrentVersion(regionPage[g])'
    <2>1. CASE UNCHANGED regionRows
      <3>1. HasCurrentVersion(regionPage[g]) /\ regionPage[g] \in Pages
        BY <1>1, <1>p, <2>1 DEF regionRows, DrawnInv
      <3>2. regionPage'[g] = regionPage[g]
        BY <2>1 DEF regionRows
      <3> QED  BY <1>v, <3>1, <3>2 DEF VersionsStay, HasCurrentVersion, VersionsOf
    <2>2. CASE RegionInsert(r)
      <3>1. UNCHANGED <<currentVersion, uploader>>
        BY <2>2 DEF RegionInsert, tables, work, pageRows
      <3>2. HasCurrentVersion(req[r].page)
        BY <2>2 DEF RegionInsert, DrawnInv
      <3>3. (regionPage'[g] = regionPage[g] /\ region[g] # Absent) \/ regionPage'[g] = req[r].page
        BY <1>1, <2>2 DEF RegionInsert, TypeInv, TypeOK, tables, work, regionRows
      <3>4. HasCurrentVersion(regionPage'[g])
        BY <3>2, <3>3 DEF DrawnInv
      <3> QED  BY <3>1, <3>4 DEF HasCurrentVersion, VersionsOf
    <2>3. CASE RegionDelete(r)
      <3>1. UNCHANGED <<currentVersion, uploader, regionPage>>
        BY <2>3 DEF RegionDelete, pageRows
      <3>2. req[r].region \in Regions /\ region[req[r].region] # Absent
        BY <2>3 DEF RegionDelete, TypeInv, RequestsFitRows, Fits, At
      <3>3. region[g] # Absent
        BY <1>1, <2>3, <3>2 DEF RegionDelete, TypeInv, TypeOK
      <3> QED  BY <3>1, <3>3 DEF DrawnInv, HasCurrentVersion, VersionsOf
    <2> QED  BY <2>1, <2>2, <2>3, RegionsStay
  <1>2. ASSUME NEW s \in Reqs, At(s, "region_insert")' PROVE HasCurrentVersion(req[s].page)'
    <2>1. CASE Regionless(r)
      <3>1. s # r /\ req'[s] = req[s]
        BY <1>2, <2>1 DEF Regionless, At
      <3>2. HasCurrentVersion(req[s].page) /\ req[s].page \in Pages
        BY <1>2, <1>q, <3>1 DEF DrawnInv, At
      <3> QED  BY <1>v, <3>1, <3>2 DEF VersionsStay, HasCurrentVersion, VersionsOf
    <2>2. CASE RegionCheckVersion(r)
      <3>1. UNCHANGED <<currentVersion, uploader>>
        BY <2>2 DEF RegionCheckVersion, tables, work, pageRows
      <3>2. CASE Finish(r)
        BY <2>1, <3>2, FinishRegionless
      <3>3. CASE ~Finish(r)
        <4>1. HasCurrentVersion(req[r].page) /\ Goto(r, "region_insert")
          BY <2>2, <3>3 DEF RegionCheckVersion
        <4>2. /\ \A q \in Reqs \ {r} : req'[q] = req[q]
              /\ req'[r].page = req[r].page
          BY <4>1, GotoRequest DEF TypeInv, Steps
        <4>3. HasCurrentVersion(req'[s].page)
          BY <1>2, <4>1, <4>2 DEF DrawnInv, At
        <4> QED  BY <3>1, <4>3 DEF HasCurrentVersion, VersionsOf
      <3> QED  BY <3>2, <3>3
    <2> QED  BY <2>1, <2>2, CallRegionless, ProgressRegionless, FinishRegionless DEF Fail
  <1>3. ASSUME NEW t \in TaskIds' PROVE assignee'[t] \in Assistants
    <2>1. CASE UNCHANGED assignee /\ TaskIds' = TaskIds
      BY <1>3, <2>1 DEF DrawnInv
    <2>2. CASE AssignInsert(r)
      <3>1. req[r].user \in Assistants
        BY <2>2 DEF AssignInsert, TypeInv, RequestsFitRows, Fits, At
      <3>2. CASE UNCHANGED tables
        BY <1>3, <3>2 DEF DrawnInv, tables, work, taskRows, TaskIds
      <3>3. CASE ~UNCHANGED tables
        <4>1. PICK u \in Tasks : /\ task' = [task EXCEPT ![u] = "ASSIGNED"]
                                 /\ assignee' = [assignee EXCEPT ![u] = req[r].user]
          BY <2>2, <3>3 DEF AssignInsert
        <4> QED  BY <1>3, <3>1, <4>1 DEF DrawnInv, TypeInv, TypeOK, TaskIds
      <3> QED  BY <3>2, <3>3
    <2> QED  BY <2>1, <2>2, AssigneesStay
  <1> QED  BY <1>1, <1>2, <1>3 DEF DrawnInv

\* However uploads, saves, divisions and assignments interleave, and wherever one dies:
\* a region lies on a page whose current version is stored, and every task has an
\* assistant.
THEOREM RegionsLieOnDrawnPages == Spec => []DrawnInv
  <1>1. Init => DrawnInv
    BY InitDrawnInv
  <1>2. TypeInv /\ SavesInv /\ DrawnInv /\ [Next]_vars => DrawnInv'
    <2> SUFFICES ASSUME TypeInv, SavesInv, DrawnInv, [Next]_vars PROVE DrawnInv'
      OBVIOUS
    <2>1. CASE UNCHANGED vars
      BY <2>1 DEF vars, tables, work, pageRows, regionRows, taskRows, DrawnInv, HasCurrentVersion,
         VersionsOf, TaskIds, At
    <2> QED  BY <2>1, StepKeepsDrawn DEF Next
  <1> QED
    BY <1>1, <1>2, TypeInvariant, SavesStayInOrder, PTL DEF Spec

-----------------------------------------------------------------------------
(* Payment.  The rows of one task are touched by few statements, and only  *)
(* the commit of a review makes a task APPROVED.                           *)

PaidFor(t) == task[t] = "APPROVED" => ApprovedSubmissions(t) # {} /\ accruals[t] >= 1

\* A statement that leaves a task's row, its submissions and its payment alone.
LEMMA PaidUntouched ==
    ASSUME NEW t \in Tasks, PaidFor(t), task'[t] = task[t],
           submission'[t] = submission[t], accruals'[t] = accruals[t]
    PROVE  PaidFor(t)'
  BY DEF PaidFor, ApprovedSubmissions

\* ... and one that leaves those of all tasks alone.
LEMMA PaidRowsUntouched ==
    ASSUME ApprovedIsPaid, UNCHANGED <<task, submission, accruals>>
    PROVE  ApprovedIsPaid'
  BY DEF ApprovedIsPaid, ApprovedSubmissions

\* A statement that moves one task to a status other than APPROVED.
LEMMA PaidTaskMoves ==
    ASSUME TypeInv, ApprovedIsPaid, NEW t \in Tasks, NEW status, status # "APPROVED",
           task' = [task EXCEPT ![t] = status], UNCHANGED <<submission, accruals>>
    PROVE  ApprovedIsPaid'
  <1> SUFFICES ASSUME NEW u \in Tasks, task'[u] = "APPROVED"
               PROVE  ApprovedSubmissions(u)' # {} /\ accruals'[u] >= 1
    BY DEF ApprovedIsPaid
  <1>1. u # t /\ task[u] = "APPROVED"
    BY DEF TypeInv, TypeOK
  <1> QED
    BY <1>1 DEF ApprovedIsPaid, ApprovedSubmissions

\* A new submission takes the place of no other (UNIQUE (task_id, version_number)).
LEMMA SubmitInsertPaid ==
    ASSUME TypeInv, ApprovedIsPaid, NEW r \in Reqs, SubmitInsert(r)
    PROVE  ApprovedIsPaid'
  <1>1. PICK t \in Tasks : t = req[r].task
    BY DEF TypeInv, RequestsFitRows, Fits, SubmitInsert, At, TaskIds
  <1>2. CASE UNCHANGED tables
    BY <1>2, PaidRowsUntouched DEF tables, work, taskRows, submissionRows
  <1>3. CASE /\ req[r].num \notin SubmissionsOf(t)
             /\ submission' = [submission EXCEPT ![t][req[r].num] = "PENDING"]
             /\ UNCHANGED <<taskRows, accruals>>
    <2>1. ASSUME NEW u \in Tasks
          PROVE  ApprovedSubmissions(u) \subseteq ApprovedSubmissions(u)'
      <3>1. CASE u # t
        BY <1>3, <3>1 DEF TypeInv, TypeOK, ApprovedSubmissions
      <3>2. CASE u = t
        <4>1. submission[t] \in [SubmissionVersions -> SubmissionStatus \cup {Absent}]
          BY DEF TypeInv, TypeOK
        <4>2. submission'[t] = [submission[t] EXCEPT ![req[r].num] = "PENDING"]
          BY <1>3 DEF TypeInv, TypeOK
        <4>3. req[r].num \notin ApprovedSubmissions(t)
          BY <1>3 DEF SubmissionsOf, ApprovedSubmissions, Absent
        <4> QED
          BY <3>2, <4>1, <4>2, <4>3 DEF ApprovedSubmissions
      <3> QED  BY <3>1, <3>2
    <2> QED
      BY <1>3, <2>1 DEF ApprovedIsPaid, taskRows
  <1> QED  BY <1>1, <1>2, <1>3 DEF SubmitInsert

\* The commit of a review writes task, submission and payment together.
LEMMA ReviewCommitPaid ==
    ASSUME TypeInv, ApprovedIsPaid, NEW r \in Reqs, ReviewCommit(r)
    PROVE  ApprovedIsPaid'
  <1>1. PICK t \in Tasks, v \in SubmissionVersions, d \in Decisions :
          t = req[r].task /\ v = req[r].num /\ d = req[r].status
    BY DEF TypeInv, RequestsFitRows, Fits, ReviewCommit, At, TaskIds, SubmissionsOf
  <1>2. /\ submission' = [submission EXCEPT ![t][v] = d]
        /\ task' = [task EXCEPT ![t] = d]
        /\ accruals' = IF d = "APPROVED" THEN [accruals EXCEPT ![t] = @ + 1] ELSE accruals
    BY <1>1 DEF ReviewCommit, Credit
  <1>3. ASSUME NEW u \in Tasks \ {t}
        PROVE  PaidFor(u)'
    <2>1. task'[u] = task[u] /\ submission'[u] = submission[u] /\ accruals'[u] = accruals[u]
      BY <1>2 DEF TypeInv, TypeOK
    <2> QED  BY <2>1, PaidUntouched DEF ApprovedIsPaid, PaidFor
  <1>4. PaidFor(t)'
    <2>1. CASE d # "APPROVED"
      BY <1>2, <2>1 DEF TypeInv, TypeOK, PaidFor
    <2>2. CASE d = "APPROVED"
      <3>1. submission'[t][v] = "APPROVED"
        BY <1>2, <2>2 DEF TypeInv, TypeOK
      <3>2. accruals'[t] >= 1
        BY <1>2, <2>2 DEF TypeInv, TypeOK
      <3> QED  BY <3>1, <3>2 DEF PaidFor, ApprovedSubmissions
    <2> QED  BY <2>1, <2>2
  <1> QED  BY <1>3, <1>4 DEF ApprovedIsPaid, PaidFor

\* The statements that can touch a task, a submission or a payment.
LEMMA TaskAndSubmissionStepsPaid ==
    ASSUME TypeInv, ApprovedIsPaid, NEW r \in Reqs, TaskSteps(r) \/ SubmissionSteps(r)
    PROVE  ApprovedIsPaid'
  <1>1. CASE UNCHANGED tables
    BY <1>1, PaidRowsUntouched DEF tables, work, taskRows, submissionRows
  <1>2. CASE AssignInsert(r)
    <2>1. CASE UNCHANGED tables
      BY <2>1, <1>1
    <2>2. CASE ~UNCHANGED tables
      <3>1. PICK t \in Tasks : task' = [task EXCEPT ![t] = "ASSIGNED"]
        BY <1>2, <2>2 DEF AssignInsert
      <3>2. UNCHANGED <<submission, accruals>>
        BY <1>2, <2>2 DEF AssignInsert, submissionRows
      <3> QED  BY <3>1, <3>2, PaidTaskMoves
    <2> QED  BY <2>1, <2>2
  <1>3. CASE StartWrite(r) \/ SubmitWrite(r)
    <2>1. PICK t \in Tasks : t = req[r].task
      BY <1>3 DEF TypeInv, RequestsFitRows, Fits, StartWrite, SubmitWrite, At, TaskIds
    <2>2. UNCHANGED <<submission, accruals>>
      BY <1>3 DEF StartWrite, SubmitWrite, submissionRows
    <2>3. PICK status : status # "APPROVED" /\ task' = [task EXCEPT ![t] = status]
      BY <1>3, <2>1 DEF StartWrite, SubmitWrite
    <2> QED  BY <2>2, <2>3, PaidTaskMoves
  <1>4. CASE SubmitInsert(r)
    BY <1>4, SubmitInsertPaid
  <1>5. CASE ReviewCommit(r)
    BY <1>5, ReviewCommitPaid
  <1> QED
    BY <1>1, <1>2, <1>3, <1>4, <1>5
    DEF TaskSteps, SubmissionSteps, AssignCheckRegion, SubmitVersion, SubmitCheckStudio,
        ReviewBegin

\* The statements of the page, Studio, sync and chapter handlers write none of the
\* three.
LEMMA OtherStepsPaid ==
    ASSUME ApprovedIsPaid, NEW r \in Reqs,
           SyncSteps(r) \/ StudioSteps(r) \/ PageSteps(r) \/ ChapterSteps(r)
    PROVE  ApprovedIsPaid'
  <1>1. CASE SyncSteps(r)
    <2>1. UNCHANGED <<task, submission, accruals>>
      BY <1>1 DEF SyncSteps, SyncReadTasks, SyncReadPage, SyncWrite, tables, work, taskRows,
                  submissionRows
    <2> QED  BY <2>1, PaidRowsUntouched
  <1>2. CASE StudioSteps(r)
    <2>1. UNCHANGED <<task, submission, accruals>>
      BY <1>2 DEF StudioSteps, SaveReadCurrent, SaveInsert, SaveUpdate, DocWrite, tables, work,
                  taskRows, submissionRows
    <2> QED  BY <2>1, PaidRowsUntouched
  <1>3. CASE PageSteps(r)
    <2>1. UNCHANGED <<task, submission, accruals>>
      BY <1>3 DEF PageSteps, PageReadNumber, PageInsert, PageInsertVersion,
                  RegionCheckVersion, RegionInsert, RegionDelete, tables, work, taskRows,
                  submissionRows
    <2> QED  BY <2>1, PaidRowsUntouched
  <1>4. CASE ChapterSteps(r)
    <2>1. UNCHANGED <<task, submission, accruals>>
      BY <1>4 DEF ChapterSteps, SetStatusCheckReadiness, SetStatusWrite, EditorCheckReadiness,
                  EditorReviewWrite, BoardReviewWrite, WriteChapter, tables, work, taskRows,
                  submissionRows
    <2> QED  BY <2>1, PaidRowsUntouched
  <1> QED  BY <1>1, <1>2, <1>3, <1>4

\* However many reviews and submissions of a task race, wherever one dies: a task that
\* is APPROVED has an approved submission, and its payment has been credited.
THEOREM ApprovedStaysPaid == Spec => []ApprovedIsPaid
  <1>1. Init => ApprovedIsPaid
    BY DEF Init, InitEmpty, InitDrawn, ApprovedIsPaid, Absent
  <1>2. TypeInv /\ ApprovedIsPaid /\ [Next]_vars => ApprovedIsPaid'
    <2> SUFFICES ASSUME TypeInv, ApprovedIsPaid, [Next]_vars PROVE ApprovedIsPaid'
      OBVIOUS
    <2>1. CASE UNCHANGED tables
      BY <2>1, PaidRowsUntouched DEF tables, work, taskRows, submissionRows
    <2>2. ASSUME NEW r \in Reqs, Call(r) PROVE ApprovedIsPaid'
      BY <2>1, <2>2, CallQuiet
    <2>3. ASSUME NEW r \in Reqs, Progress(r) PROVE ApprovedIsPaid'
      BY <2>3, TaskAndSubmissionStepsPaid, OtherStepsPaid DEF Progress
    <2> QED
      BY <2>1, <2>2, <2>3 DEF Next, Fail, vars
  <1> QED
    BY <1>1, <1>2, TypeInvariant, PTL DEF Spec

-----------------------------------------------------------------------------
(* One request at a time.  What a handler has read then still holds when it *)
(* writes, so that the tests of the handlers are enough.                    *)

OneSlot == \A r, q \in Reqs : r = q

WorkPcs == Steps \ ({"idle"} \cup ChapterPcs)
AssignPcs == {"assign_check", "assign_insert"}
SubmitPcs == {"submit_version", "submit_studio", "submit_insert", "submit_write"}
ReviewPcs == {"review_begin", "review_commit"}
PlainPcs == WorkPcs \ (AssignPcs \cup {"start_write"} \cup SubmitPcs \cup ReviewPcs)

InProduction == chapter \in {"DRAFT", "IN_PROGRESS"}

\* What a request that works on the chapter's pages and tasks has read.
WorkTold(q) ==
    /\ q.pc \in WorkPcs => ~UnderReview
    /\ q.pc \in AssignPcs => InProduction
    /\ q.pc = "assign_insert" => \A t \in TaskIds : taskRegion[t] # q.region
    /\ q.pc = "start_write" => canTransition(TASK_TRANSITIONS, task[q.task], "IN_PROGRESS")
    /\ q.pc \in SubmitPcs => canTransition(TASK_TRANSITIONS, task[q.task], "SUBMITTED")
    /\ q.pc \in ReviewPcs => task[q.task] = "SUBMITTED"

\* What a request on the status of the chapter has read.
ChapterTold(q) ==
    /\ q.pc \in ChapterPcs => /\ canTransition(CHAPTER_TRANSITIONS, chapter, q.status)
                              /\ q.status # "PUBLISHED"
    /\ q.pc \in {"status_write", "editor_write"} => q.status = "IN_PROGRESS" \/ Ready
    /\ q.pc = "board_write" => q.status \in {"BOARD_APPROVED", "IN_PROGRESS"}

Told(q) == WorkTold(q) /\ ChapterTold(q)

SerialInv ==
    /\ \A r \in Reqs : Told(req[r])
    /\ OneTaskPerRegion
    /\ PaidOnce
    /\ ReviewedChapterIsReady

\* A statement that only reads.
LEMMA ReadIsTold ==
    ASSUME TypeInv, OneSlot, SerialInv, NEW r \in Reqs, UNCHANGED tables, Told(req'[r])
    PROVE  SerialInv'
  <1>1. UNCHANGED <<chapter, page, currentVersion, uploader, task, taskRegion, accruals>>
    BY DEF tables, work, pageRows, taskRows, submissionRows
  <1>2. TaskIds' = TaskIds /\ (UnderReview' <=> UnderReview) /\ (InProduction' <=> InProduction)
    BY <1>1 DEF TaskIds, UnderReview, InProduction
  <1>3. Ready' <=> Ready
    BY <1>1 DEF Ready, IncompletePages, NonApprovedTasks, ExistingPages, HasCurrentVersion,
                VersionsOf, TaskIds
  <1>4. WorkTold(req[r])'
    BY <1>1, <1>2 DEF Told, WorkTold
  <1>5. ChapterTold(req[r])'
    BY <1>1, <1>3 DEF Told, ChapterTold
  <1>6. \A q \in Reqs : Told(req[q])'
    BY <1>4, <1>5 DEF OneSlot, Told
  <1>7. OneTaskPerRegion' /\ PaidOnce'
    BY <1>1, <1>2 DEF SerialInv, OneTaskPerRegion, PaidOnce
  <1>8. ReviewedChapterIsReady'
    BY <1>2, <1>3 DEF SerialInv, ReviewedChapterIsReady
  <1> QED  BY <1>6, <1>7, <1>8 DEF SerialInv

\* A statement that writes outside a review, and has no more to rely on.
LEMMA WorkIsTold ==
    ASSUME TypeInv, OneSlot, SerialInv, NEW r \in Reqs, chapter' = chapter, ~UnderReview,
           req'[r].pc \in PlainPcs \cup {"idle"}, OneTaskPerRegion', PaidOnce'
    PROVE  SerialInv'
  <1>1. ~UnderReview'
    BY DEF UnderReview
  <1>2. WorkTold(req[r])'
    BY <1>1 DEF WorkTold, PlainPcs, WorkPcs, AssignPcs, SubmitPcs, ReviewPcs, Steps
  <1>3. ChapterTold(req[r])'
    BY DEF ChapterTold, PlainPcs, WorkPcs, ChapterPcs, Steps
  <1>4. \A q \in Reqs : Told(req[q])'
    BY <1>2, <1>3 DEF OneSlot, Told
  <1>5. ReviewedChapterIsReady'
    BY <1>1 DEF ReviewedChapterIsReady
  <1> QED  BY <1>4, <1>5 DEF SerialInv

\* A statement that leaves tasks and payments alone.
LEMMA TasksStay ==
    ASSUME SerialInv, UNCHANGED <<taskRows, accruals>>
    PROVE  OneTaskPerRegion' /\ PaidOnce'
  <1> QED  BY DEF SerialInv, OneTaskPerRegion, PaidOnce, TaskIds, taskRows

\* An open task keeps its chapter from a review.
LEMMA OpenTaskIsNotReviewed ==
    ASSUME SerialInv, NEW t \in TaskIds, task[t] # "APPROVED"
    PROVE  ~UnderReview
  <1> QED  BY DEF SerialInv, ReviewedChapterIsReady, Ready, NonApprovedTasks

\* An idle slot relies on nothing.
LEMMA IdleIsTold == Told(Idle)
  <1> QED  BY DEF Told, WorkTold, ChapterTold, Idle, WorkPcs, AssignPcs, SubmitPcs, ReviewPcs, ChapterPcs

\* A request that ends with a read.
LEMMA FinishIsTold ==
    ASSUME TypeInv, OneSlot, SerialInv, NEW r \in Reqs, Finish(r), UNCHANGED tables
    PROVE  SerialInv'
  <1>1. req'[r] = Idle
    BY DEF Finish, TypeInv, TypeOK
  <1> QED  BY <1>1, IdleIsTold, ReadIsTold

\* A request that begins.
LEMMA EnterIsTold ==
    ASSUME TypeInv, OneSlot, SerialInv, NEW r \in Reqs, NEW q, Enter(r, q), UNCHANGED tables, Told(q)
    PROVE  SerialInv'
  <1>1. req'[r] = q
    BY DEF Enter, TypeInv, TypeOK
  <1> QED  BY <1>1, ReadIsTold

\* A request that works on a page outside a review.
LEMMA PlainIsTold ==
    ASSUME NEW q, q.pc \in PlainPcs, ~UnderReview
    PROVE  Told(q)
  <1> QED  BY DEF Told, WorkTold, ChapterTold, PlainPcs, WorkPcs, AssignPcs, SubmitPcs, ReviewPcs,
              ChapterPcs, Steps

\* A call on the status of the chapter finds what its request goes on with.
LEMMA ChapterCallIsTold ==
    ASSUME TypeInv, OneSlot, SerialInv, NEW r \in Reqs, NEW target \in ChapterStatus,
           SetStatusRead(r, target) \/ EditorReviewRead(r, target) \/ BoardReviewRead(r, target)
    PROVE  SerialInv'
  <1> USE DEF Idle, WorkPcs, AssignPcs, SubmitPcs, ReviewPcs, ChapterPcs, Steps
  <1>1. PICK step \in ChapterPcs : Enter(r, [Idle EXCEPT !.status = target, !.pc = step]) /\ UNCHANGED tables
                                   /\ (step \in {"status_write", "editor_write"} => target = "IN_PROGRESS")
                                   /\ (step = "board_write" => target \in {"BOARD_APPROVED", "IN_PROGRESS"})
    <2>1. CASE SetStatusRead(r, target)
      <3>1. target \in {"IN_PROGRESS", "READY_FOR_EDITOR_REVIEW"}
        BY <2>1 DEF SetStatusRead, canTransition, MANGAKA_CHAPTER_TRANSITIONS, maySetStatus
      <3> QED  BY <2>1, <3>1 DEF SetStatusRead
    <2>2. CASE EditorReviewRead(r, target)
      BY <2>2 DEF EditorReviewRead, editorMayMove
    <2>3. CASE BoardReviewRead(r, target)
      BY <2>3 DEF BoardReviewRead, boardMayMove
    <2> QED  BY <2>1, <2>2, <2>3
  <1>2. canTransition(CHAPTER_TRANSITIONS, chapter, target) /\ target # "PUBLISHED"
    BY DEF SetStatusRead, EditorReviewRead, BoardReviewRead, canTransition,
       MANGAKA_CHAPTER_TRANSITIONS, CHAPTER_TRANSITIONS, maySetStatus, editorMayMove, boardMayMove
  <1>3. Told([Idle EXCEPT !.status = target, !.pc = step])
    BY <1>1, <1>2 DEF Told, WorkTold, ChapterTold
  <1> QED  BY <1>1, <1>3, EnterIsTold

\* A call finds what its request goes on with.
LEMMA CallIsTold ==
    ASSUME TypeInv, OneSlot, SerialInv, NEW r \in Reqs, Call(r)
    PROVE  SerialInv'
  <1> USE DEF Idle, WorkPcs, AssignPcs, SubmitPcs, ReviewPcs, PlainPcs, ChapterPcs, Steps
  <1>0. chapter \in ChapterStatus
    BY DEF TypeInv, TypeOK
  <1>1. ASSUME NEW g \in Regions, NEW a \in Assistants, AssignRead(r, g, a) PROVE SerialInv'
    <2>1. InProduction /\ ~UnderReview
      BY <1>0, <1>1 DEF AssignRead, EditableForAssign, InProduction, UnderReview, ChapterStatus, mayAssign
    <2>2. Told([Idle EXCEPT !.pc = "assign_check", !.region = g, !.user = a])
      BY <2>1 DEF Told, WorkTold, ChapterTold
    <2> QED  BY <1>1, <2>2, EnterIsTold DEF AssignRead
  <1>2. ASSUME NEW t \in Tasks, StartRead(r, t) PROVE SerialInv'
    <2>1. canTransition(TASK_TRANSITIONS, task[t], "IN_PROGRESS") /\ t \in TaskIds
      BY <1>2 DEF StartRead, mayStart
    <2>2. ~UnderReview
      BY <2>1, OpenTaskIsNotReviewed DEF canTransition, TASK_TRANSITIONS
    <2>3. Told([Idle EXCEPT !.pc = "start_write", !.task = t])
      BY <2>1, <2>2 DEF Told, WorkTold, ChapterTold
    <2> QED  BY <1>2, <2>3, EnterIsTold DEF StartRead
  <1>3. ASSUME NEW t \in Tasks, SubmitRead(r, t) PROVE SerialInv'
    <2>1. canTransition(TASK_TRANSITIONS, task[t], "SUBMITTED") /\ t \in TaskIds
      BY <1>3 DEF SubmitRead, maySubmit
    <2>2. ~UnderReview
      BY <2>1, OpenTaskIsNotReviewed DEF canTransition, TASK_TRANSITIONS
    <2>3. Told([Idle EXCEPT !.pc = "submit_version", !.task = t, !.user = assignee[t]])
      BY <2>1, <2>2 DEF Told, WorkTold, ChapterTold
    <2> QED  BY <1>3, <2>3, EnterIsTold DEF SubmitRead
  <1>4. ASSUME NEW t \in Tasks, NEW v \in SubmissionVersions, NEW d \in Decisions, ReviewRead(r, t, v, d)
        PROVE  SerialInv'
    <2>1. task[t] = "SUBMITTED" /\ t \in TaskIds
      BY <1>4 DEF ReviewRead, canTransition, TASK_TRANSITIONS, Decisions, TaskIds, Absent, mayReview
    <2>2. ~UnderReview
      BY <2>1, OpenTaskIsNotReviewed
    <2>3. Told([Idle EXCEPT !.pc = "review_begin", !.task = t, !.num = v, !.status = d])
      BY <2>1, <2>2 DEF Told, WorkTold, ChapterTold
    <2> QED  BY <1>4, <2>3, EnterIsTold DEF ReviewRead
  <1>5. ASSUME NEW u, NEW p \in Pages, SaveRead(r, u, p) \/ DocRead(r, u, p) PROVE SerialInv'
    <2>1. CanWritePage(u, p)
      BY <1>5 DEF SaveRead, DocRead, maySave
    <2>2. CASE EditableForStudio
      <3>1. ~UnderReview
        BY <2>2 DEF EditableForStudio, UnderReview
      <3> QED  BY <1>5, <3>1, PlainIsTold, EnterIsTold DEF SaveRead, DocRead
    <2>3. CASE ~EditableForStudio
      <3>1. PICK t \in TaskIds : task[t] \in {"ASSIGNED", "IN_PROGRESS", "REVISION_REQUIRED"}
        BY <2>1, <2>3 DEF CanWritePage, TasksOn
      <3>2. ~UnderReview
        BY <3>1, OpenTaskIsNotReviewed
      <3> QED  BY <1>5, <3>2, PlainIsTold, EnterIsTold DEF SaveRead, DocRead
    <2> QED  BY <2>2, <2>3
  <1>6. CASE PageCreateRead(r)
    <2>1. ~UnderReview
      BY <1>6 DEF PageCreateRead, EditableForPages, UnderReview
    <2> QED  BY <1>6, <2>1, PlainIsTold, EnterIsTold DEF PageCreateRead
  <1>7. ASSUME NEW p \in Pages, RegionCreateRead(r, p) PROVE SerialInv'
    <2>1. ~UnderReview
      BY <1>7 DEF RegionCreateRead, EditableForPages, UnderReview, mayDivide
    <2> QED  BY <1>7, <2>1, PlainIsTold, EnterIsTold DEF RegionCreateRead
  <1>8. ASSUME NEW g \in Regions, RegionDeleteRead(r, g) PROVE SerialInv'
    <2>1. ~UnderReview
      BY <1>8 DEF RegionDeleteRead, EditableForPages, UnderReview, mayDelete
    <2> QED  BY <1>8, <2>1, PlainIsTold, EnterIsTold DEF RegionDeleteRead
  <1>9. ASSUME NEW target \in ChapterStatus,
               SetStatusRead(r, target) \/ EditorReviewRead(r, target) \/ BoardReviewRead(r, target)
        PROVE  SerialInv'
    BY <1>9, ChapterCallIsTold
  <1> QED  BY <1>1, <1>2, <1>3, <1>4, <1>5, <1>6, <1>7, <1>8, <1>9 DEF Call

\* What the request in slot r has read.
LEMMA OwnTold ==
    ASSUME SerialInv, NEW r \in Reqs
    PROVE  WorkTold(req[r]) /\ ChapterTold(req[r])
  <1> QED  BY DEF SerialInv, Told

\* The statements of TaskService.
LEMMA TaskStepsTold ==
    ASSUME TypeInv, OneSlot, SerialInv, NEW r \in Reqs, TaskSteps(r)
    PROVE  SerialInv'
  <1> USE DEF WorkPcs, AssignPcs, SubmitPcs, ReviewPcs, PlainPcs, ChapterPcs, Steps
  <1>0. req \in [Reqs -> Request] /\ WorkTold(req[r])
    BY OwnTold DEF TypeInv, TypeOK
  <1>1. CASE AssignCheckRegion(r)
    <2>1. CASE Finish(r)
      BY <1>1, <2>1, FinishIsTold DEF AssignCheckRegion
    <2>2. CASE ~Finish(r)
      <3>1. Goto(r, "assign_insert") /\ At(r, "assign_check") /\ UNCHANGED tables
            /\ \A t \in TaskIds : taskRegion[t] # req[r].region
        BY <1>1, <2>2 DEF AssignCheckRegion
      <3>2. req'[r].pc = "assign_insert" /\ req'[r].region = req[r].region
        BY <1>0, <3>1 DEF Goto, Request
      <3>3. Told(req'[r])
        BY <1>0, <3>1, <3>2 DEF Told, WorkTold, ChapterTold, At
      <3> QED  BY <3>1, <3>3, ReadIsTold
    <2> QED  BY <2>1, <2>2
  <1>2. CASE AssignInsert(r)
    <2>1. CASE Finish(r) /\ UNCHANGED tables
      BY <2>1, FinishIsTold
    <2>2. CASE ~(Finish(r) /\ UNCHANGED tables)
      <3>1. PICK t \in Tasks :
              /\ TaskIds = 1 .. (t - 1)
              /\ task' = [task EXCEPT ![t] = "ASSIGNED"]
              /\ taskRegion' = [taskRegion EXCEPT ![t] = req[r].region]
              /\ StartSync(r, regionPage[req[r].region])
              /\ UNCHANGED <<chapter, submissionRows>>
        BY <1>2, <2>2 DEF AssignInsert
      <3>2. t \notin TaskIds /\ TaskIds' = TaskIds \cup {t}
        <4>1. t \notin TaskIds
          BY <3>1, BoundsAssumption DEF Tasks
        <4> QED  BY <3>1, <4>1, StatusesAreDistinct DEF TypeInv, TypeOK, TaskIds, TaskStatus
      <3>3. \A s \in TaskIds : taskRegion[s] # req[r].region /\ ~UnderReview
        BY <1>0, <1>2 DEF AssignInsert, At, WorkTold
      <3>4. OneTaskPerRegion'
        <4>1. \A s \in TaskIds : s \in Tasks /\ taskRegion'[s] = taskRegion[s]
          BY <3>1, <3>2 DEF TypeInv, TypeOK, TaskIds
        <4>2. taskRegion'[t] = req[r].region
          BY <3>1 DEF TypeInv, TypeOK
        <4> QED  BY <3>2, <3>3, <4>1, <4>2 DEF SerialInv, OneTaskPerRegion
      <3>5. PaidOnce'
        <4>1. accruals' = accruals /\ task[t] = Absent /\ task'[t] = "ASSIGNED"
          BY <3>1, <3>2 DEF TypeInv, TypeOK, submissionRows, TaskIds
        <4>2. \A s \in Tasks : s # t => task'[s] = task[s]
          BY <3>1 DEF TypeInv, TypeOK
        <4> QED  BY <4>1, <4>2 DEF SerialInv, PaidOnce, Absent
      <3>6. req'[r].pc = "sync_tasks" /\ ~UnderReview
        BY <1>0, <1>2, <3>1 DEF StartSync, Idle, AssignInsert, At, WorkTold
      <3> QED  BY <3>1, <3>4, <3>5, <3>6, WorkIsTold
    <2> QED  BY <2>1, <2>2
  <1>3. CASE StartWrite(r)
    <2>1. PICK t \in Tasks : t = req[r].task
      BY <1>3 DEF TypeInv, RequestsFitRows, Fits, StartWrite, At, TaskIds
    <2>2. /\ task[t] \in {"ASSIGNED", "REVISION_REQUIRED"} /\ ~UnderReview
          /\ task' = [task EXCEPT ![t] = "IN_PROGRESS"] /\ StartSync(r, PageOf(t))
          /\ UNCHANGED <<chapter, taskRegion, accruals>>
      BY <1>0, <1>3, <2>1 DEF StartWrite, At, WorkTold, canTransition, TASK_TRANSITIONS, submissionRows
    <2>3. OneTaskPerRegion' /\ PaidOnce'
      BY <2>2 DEF TypeInv, TypeOK, SerialInv, OneTaskPerRegion, PaidOnce, TaskIds, Absent
    <2>4. req'[r].pc = "sync_tasks"
      BY <1>0, <2>2 DEF StartSync, Idle
    <2> QED  BY <2>2, <2>3, <2>4, WorkIsTold
  <1> QED  BY <1>1, <1>2, <1>3 DEF TaskSteps

\* The statements of SubmissionService.
LEMMA SubmissionStepsTold ==
    ASSUME TypeInv, OneSlot, SerialInv, NEW r \in Reqs, SubmissionSteps(r)
    PROVE  SerialInv'
  <1> USE DEF WorkPcs, AssignPcs, SubmitPcs, ReviewPcs, PlainPcs, ChapterPcs, Steps
  <1>0. req \in [Reqs -> Request] /\ WorkTold(req[r])
    BY OwnTold DEF TypeInv, TypeOK
  <1>s. ASSUME NEW step \in SubmitPcs, req'[r].pc = step, req'[r].task = req[r].task,
               req[r].pc \in SubmitPcs, UNCHANGED tables
        PROVE  SerialInv'
    <2>1. Told(req'[r])
      BY <1>0, <1>s DEF Told, WorkTold, ChapterTold
    <2> QED  BY <1>s, <2>1, ReadIsTold
  <1>1. CASE SubmitVersion(r)
    <2>1. CASE Finish(r)
      BY <1>1, <2>1, FinishIsTold DEF SubmitVersion
    <2>2. CASE ~Finish(r)
      <3>1. PICK n : req' = [req EXCEPT ![r].pc = "submit_studio", ![r].num = n]
        BY <1>1, <2>2 DEF SubmitVersion
      <3>2. req'[r].pc = "submit_studio" /\ req'[r].task = req[r].task
        BY <1>0, <3>1 DEF Request
      <3> QED  BY <1>1, <1>s, <3>2 DEF SubmitVersion, At
    <2> QED  BY <2>1, <2>2
  <1>2. CASE SubmitCheckStudio(r)
    <2>1. CASE Finish(r)
      BY <1>2, <2>1, FinishIsTold DEF SubmitCheckStudio
    <2>2. CASE ~Finish(r)
      <3>1. req'[r].pc = "submit_insert" /\ req'[r].task = req[r].task
        BY <1>0, <1>2, <2>2 DEF SubmitCheckStudio, Goto, Request
      <3> QED  BY <1>2, <1>s, <3>1 DEF SubmitCheckStudio, At
    <2> QED  BY <2>1, <2>2
  <1>3. CASE SubmitInsert(r)
    <2>1. CASE Finish(r) /\ UNCHANGED tables
      BY <2>1, FinishIsTold
    <2>2. CASE ~(Finish(r) /\ UNCHANGED tables)
      <3>1. Goto(r, "submit_write") /\ At(r, "submit_insert")
            /\ UNCHANGED <<chapter, pageRows, regionRows, taskRows, accruals>>
        BY <1>3, <2>2 DEF SubmitInsert
      <3>2. req'[r].pc = "submit_write" /\ req'[r].task = req[r].task
        BY <1>0, <3>1 DEF Goto, Request
      <3>3. ~UnderReview /\ canTransition(TASK_TRANSITIONS, task[req[r].task], "SUBMITTED")
        BY <1>0, <3>1 DEF WorkTold, At
      <3>4. ~UnderReview' /\ task' = task
        BY <3>1, <3>3 DEF UnderReview, taskRows
      <3>5. WorkTold(req[r])' /\ ChapterTold(req[r])'
        BY <3>2, <3>3, <3>4 DEF WorkTold, ChapterTold
      <3> QED  BY <3>1, <3>4, <3>5, TasksStay DEF SerialInv, Told, OneSlot, ReviewedChapterIsReady
    <2> QED  BY <2>1, <2>2
  <1>4. CASE SubmitWrite(r)
    <2>1. PICK t \in Tasks : t = req[r].task
      BY <1>4 DEF TypeInv, RequestsFitRows, Fits, SubmitWrite, At, TaskIds
    <2>2. /\ task[t] \in {"IN_PROGRESS", "REVISION_REQUIRED"} /\ ~UnderReview
          /\ task' = [task EXCEPT ![t] = "SUBMITTED"] /\ StartSync(r, PageOf(t))
          /\ UNCHANGED <<chapter, taskRegion, accruals>>
      BY <1>0, <1>4, <2>1 DEF SubmitWrite, At, WorkTold, canTransition, TASK_TRANSITIONS, submissionRows
    <2>3. OneTaskPerRegion' /\ PaidOnce'
      BY <2>2 DEF TypeInv, TypeOK, SerialInv, OneTaskPerRegion, PaidOnce, TaskIds, Absent
    <2>4. req'[r].pc = "sync_tasks"
      BY <1>0, <2>2 DEF StartSync, Idle
    <2> QED  BY <2>2, <2>3, <2>4, WorkIsTold
  <1>5. CASE ReviewBegin(r)
    <2>1. PICK n : req' = [req EXCEPT ![r].pc = "review_commit", ![r].target = n]
      BY <1>5 DEF ReviewBegin
    <2>2. req'[r].pc = "review_commit" /\ req'[r].task = req[r].task /\ req[r].pc = "review_begin"
      BY <1>0, <1>5, <2>1 DEF Request, ReviewBegin, At
    <2>3. Told(req'[r])
      BY <1>0, <2>2 DEF Told, WorkTold, ChapterTold
    <2> QED  BY <1>5, <2>3, ReadIsTold DEF ReviewBegin
  <1>6. CASE ReviewCommit(r)
    <2>1. PICK t \in Tasks, d \in Decisions : t = req[r].task /\ d = req[r].status
      BY <1>6 DEF TypeInv, RequestsFitRows, Fits, ReviewCommit, At, TaskIds
    <2>2. /\ task[t] = "SUBMITTED" /\ ~UnderReview
          /\ task' = [task EXCEPT ![t] = d] /\ Finish(r) /\ UNCHANGED <<chapter, taskRegion>>
          /\ accruals' = IF d = "APPROVED" THEN [accruals EXCEPT ![t] = @ + 1] ELSE accruals
      BY <1>0, <1>6, <2>1 DEF ReviewCommit, At, WorkTold, Credit
    <2>3. OneTaskPerRegion'
      BY <2>2 DEF TypeInv, TypeOK, SerialInv, OneTaskPerRegion, TaskIds, Absent, Decisions
    <2>4. PaidOnce'
      <3>1. accruals[t] = 0
        BY <2>2 DEF SerialInv, PaidOnce
      <3>2. \A u \in Tasks \ {t} : accruals'[u] = accruals[u] /\ task'[u] = task[u]
        BY <2>2 DEF TypeInv, TypeOK
      <3>3. task'[t] = d /\ accruals'[t] = IF d = "APPROVED" THEN 1 ELSE 0
        BY <2>2, <3>1 DEF TypeInv, TypeOK
      <3> QED  BY <3>2, <3>3 DEF SerialInv, PaidOnce
    <2>5. req'[r].pc = "idle"
      BY <1>0, <2>2 DEF Finish, Idle
    <2> QED  BY <2>2, <2>3, <2>4, <2>5, WorkIsTold
  <1> QED  BY <1>1, <1>2, <1>3, <1>4, <1>5, <1>6 DEF SubmissionSteps

\* The statements that write pages, regions and documents.
LEMMA PageAndStudioStepsTold ==
    ASSUME TypeInv, OneSlot, SerialInv, NEW r \in Reqs, SyncSteps(r) \/ StudioSteps(r) \/ PageSteps(r)
    PROVE  SerialInv'
  <1> USE DEF WorkPcs, AssignPcs, SubmitPcs, ReviewPcs, PlainPcs, ChapterPcs, Steps, Idle
  <1>0. req \in [Reqs -> Request] /\ WorkTold(req[r])
    BY OwnTold DEF TypeInv, TypeOK
  <1>1. req[r].pc \in WorkPcs
    BY DEF SyncSteps, SyncReadTasks, SyncReadPage, SyncWrite, StudioSteps, SaveReadCurrent, SaveInsert,
       SaveUpdate, DocWrite, PageSteps, PageReadNumber, PageInsert, PageInsertVersion,
       RegionCheckVersion, RegionInsert, RegionDelete, At
  <1>2. ~UnderReview
    BY <1>0, <1>1 DEF WorkTold
  <1>3. CASE SyncSteps(r)
    <2>1. UNCHANGED <<chapter, taskRows, accruals>>
      BY <1>3 DEF SyncSteps, SyncReadTasks, SyncReadPage, SyncWrite, tables, work, submissionRows
    <2>2. req'[r].pc \in PlainPcs \cup {"idle"}
      BY <1>0, <1>3 DEF SyncSteps, SyncReadTasks, SyncReadPage, SyncWrite, Finish, Goto, Request
    <2> QED  BY <1>2, <2>1, <2>2, TasksStay, WorkIsTold
  <1>4. CASE StudioSteps(r)
    <2>1. UNCHANGED <<chapter, taskRows, accruals>>
      BY <1>4 DEF StudioSteps, SaveReadCurrent, SaveInsert, SaveUpdate, DocWrite, tables, work, submissionRows
    <2>2. req'[r].pc \in PlainPcs \cup {"idle"}
      BY <1>0, <1>4 DEF StudioSteps, SaveReadCurrent, SaveInsert, SaveUpdate, DocWrite, Finish, Goto, Request
    <2> QED  BY <1>2, <2>1, <2>2, TasksStay, WorkIsTold
  <1>5. CASE PageSteps(r)
    <2>1. UNCHANGED <<chapter, taskRows, accruals>>
      BY <1>5 DEF PageSteps, PageReadNumber, PageInsert, PageInsertVersion, RegionCheckVersion,
         RegionInsert, RegionDelete, tables, work, submissionRows
    <2>2. req'[r].pc \in PlainPcs \cup {"idle"}
      BY <1>0, <1>5 DEF PageSteps, PageReadNumber, PageInsert, PageInsertVersion, RegionCheckVersion,
         RegionInsert, RegionDelete, Finish, Goto, Request
    <2> QED  BY <1>2, <2>1, <2>2, TasksStay, WorkIsTold
  <1> QED  BY <1>3, <1>4, <1>5

\* The statements of ChapterService.
LEMMA ChapterStepsTold ==
    ASSUME TypeInv, OneSlot, SerialInv, NEW r \in Reqs, ChapterSteps(r)
    PROVE  SerialInv'
  <1> USE DEF ChapterPcs
  <1>0. req \in [Reqs -> Request] /\ ChapterTold(req[r])
    BY OwnTold DEF TypeInv, TypeOK
  <1>1. CASE SetStatusCheckReadiness(r) \/ EditorCheckReadiness(r)
    <2>1. CASE Finish(r)
      BY <1>1, <2>1, FinishIsTold DEF SetStatusCheckReadiness, EditorCheckReadiness
    <2>2. CASE ~Finish(r)
      <3>1. PICK step \in {"status_write", "editor_write"} : Goto(r, step)
        BY <1>1, <2>2 DEF SetStatusCheckReadiness, EditorCheckReadiness
      <3>2. Ready /\ UNCHANGED tables /\ req[r].pc \in ChapterPcs
        BY <1>1, <2>2 DEF SetStatusCheckReadiness, EditorCheckReadiness, At
      <3>3. req'[r].pc \in {"status_write", "editor_write"} /\ req'[r].status = req[r].status
        BY <1>0, <3>1 DEF Goto, Request
      <3>4. WorkTold(req'[r])
        BY <3>3 DEF WorkTold, WorkPcs, AssignPcs, SubmitPcs, ReviewPcs
      <3>5. ChapterTold(req'[r])
        BY <1>0, <3>2, <3>3 DEF ChapterTold
      <3> QED  BY <3>2, <3>4, <3>5, ReadIsTold DEF Told
    <2> QED  BY <2>1, <2>2
  <1>2. CASE SetStatusWrite(r) \/ EditorReviewWrite(r) \/ BoardReviewWrite(r)
    <2>1. /\ req[r].pc \in {"status_write", "editor_write", "board_write"}
          /\ chapter' = req[r].status /\ Finish(r) /\ UNCHANGED work
      BY <1>2 DEF SetStatusWrite, EditorReviewWrite, BoardReviewWrite, WriteChapter, At
    <2>2. req'[r] = Idle
      BY <1>0, <2>1 DEF Finish
    <2>3. UNCHANGED <<page, currentVersion, uploader, taskRows, accruals>>
      BY <2>1 DEF work, pageRows, submissionRows
    <2>4. UnderReview' => Ready
      BY <1>0, <2>1 DEF UnderReview, ChapterTold
    <2>5. Ready' <=> Ready
      BY <2>3 DEF Ready, IncompletePages, NonApprovedTasks, ExistingPages, HasCurrentVersion,
         VersionsOf, TaskIds, taskRows
    <2>6. \A q \in Reqs : Told(req[q])'
      BY <2>2 DEF OneSlot, Told, WorkTold, ChapterTold, Idle, WorkPcs, AssignPcs, SubmitPcs, ReviewPcs
    <2> QED  BY <2>3, <2>4, <2>5, <2>6, TasksStay DEF SerialInv, ReviewedChapterIsReady
  <1> QED  BY <1>1, <1>2 DEF ChapterSteps

\* The start of a chapter.
LEMMA InitSerial == Init => SerialInv
  <1> SUFFICES ASSUME Init PROVE SerialInv
    OBVIOUS
  <1> USE DEF Init, InitEmpty, InitDrawn
  <1>1. \A r \in Reqs : Told(req[r])
    BY IdleIsTold
  <1>2. OneTaskPerRegion /\ PaidOnce
    BY DEF OneTaskPerRegion, PaidOnce, TaskIds, Absent
  <1>3. ReviewedChapterIsReady
    BY DEF ReviewedChapterIsReady, UnderReview
  <1> QED  BY <1>1, <1>2, <1>3 DEF SerialInv

\* Every step, one request at a time.
LEMMA NextSerial ==
    ASSUME TypeInv, OneSlot, SerialInv, [Next]_vars
    PROVE  SerialInv'
  <1>1. ASSUME NEW r \in Reqs, Progress(r) PROVE SerialInv'
    BY <1>1, TaskStepsTold, SubmissionStepsTold, PageAndStudioStepsTold, ChapterStepsTold DEF Progress
  <1>2. ASSUME NEW r \in Reqs, Fail(r) PROVE SerialInv'
    BY <1>2, FinishIsTold DEF Fail
  <1>3. CASE UNCHANGED vars
    <2>1. UNCHANGED <<tables, req>>
      BY <1>3 DEF vars
    <2>2. ASSUME NEW r \in Reqs PROVE SerialInv'
      BY <2>1, <2>2, ReadIsTold DEF SerialInv
    <2>3. CASE Reqs = {}
      <3>1. UNCHANGED <<chapter, page, currentVersion, uploader, taskRows, accruals>>
        BY <2>1 DEF tables, work, pageRows, submissionRows
      <3>2. (Ready' <=> Ready) /\ (UnderReview' <=> UnderReview)
        BY <3>1 DEF Ready, IncompletePages, NonApprovedTasks, ExistingPages, HasCurrentVersion,
           VersionsOf, TaskIds, taskRows, UnderReview
      <3> QED  BY <2>3, <3>1, <3>2, TasksStay DEF SerialInv, ReviewedChapterIsReady
    <2> QED  BY <2>2, <2>3
  <1> QED  BY <1>1, <1>2, <1>3, CallIsTold DEF Next

\* With one request at a time, whatever dies: what a handler has read still holds when it
\* writes.
THEOREM SerialInvariant == Spec => [](OneSlot => SerialInv)
  <1>1. Init => (OneSlot => SerialInv)
    BY InitSerial
  <1>2. TypeInv /\ (OneSlot => SerialInv) /\ [Next]_vars => (OneSlot => SerialInv)'
    BY NextSerial DEF OneSlot
  <1> QED  BY <1>1, <1>2, TypeInvariant, PTL DEF Spec

\* A region is assigned at most once.
THEOREM RegionsAreAssignedOnce == Spec => [](OneSlot => OneTaskPerRegion)
  <1>1. (OneSlot => SerialInv) => (OneSlot => OneTaskPerRegion)
    BY DEF SerialInv
  <1> QED  BY <1>1, SerialInvariant, PTL

\* A task is paid once, when it is approved, and a task that is not approved never.
THEOREM ApprovedIsPaidOnce == Spec => [](OneSlot => PaidOnce)
  <1>1. (OneSlot => SerialInv) => (OneSlot => PaidOnce)
    BY DEF SerialInv
  <1> QED  BY <1>1, SerialInvariant, PTL

\* A chapter under review is finished.
THEOREM ReviewedStaysReady == Spec => [](OneSlot => ReviewedChapterIsReady)
  <1>1. (OneSlot => SerialInv) => (OneSlot => ReviewedChapterIsReady)
    BY DEF SerialInv
  <1> QED  BY <1>1, SerialInvariant, PTL

\* No step moves the work under review: every request that could was refused.
LEMMA ReviewedStands ==
    ASSUME TypeInv, OneSlot, SerialInv, [Next]_vars, UnderReview
    PROVE  UNCHANGED work
  <1>1. ASSUME NEW r \in Reqs, Progress(r) PROVE UNCHANGED work
    <2>1. req[r].pc \notin WorkPcs
      BY OwnTold DEF WorkTold
    <2>2. ChapterSteps(r)
      BY <1>1, <2>1 DEF WorkPcs, Steps, ChapterPcs, Progress, TaskSteps, AssignCheckRegion, AssignInsert,
         StartWrite, SubmissionSteps, SubmitVersion, SubmitCheckStudio, SubmitInsert, SubmitWrite,
         ReviewBegin, ReviewCommit, SyncSteps, SyncReadTasks, SyncReadPage, SyncWrite, StudioSteps,
         SaveReadCurrent, SaveInsert, SaveUpdate, DocWrite, PageSteps, PageReadNumber, PageInsert,
         PageInsertVersion, RegionCheckVersion, RegionInsert, RegionDelete, At
    <2> QED  BY <2>2 DEF ChapterSteps, SetStatusCheckReadiness, EditorCheckReadiness, SetStatusWrite,
                EditorReviewWrite, BoardReviewWrite, WriteChapter, tables
  <1>2. ASSUME NEW r \in Reqs, Call(r) PROVE UNCHANGED work
    BY <1>2, CallQuiet DEF tables
  <1> QED  BY <1>1, <1>2 DEF Next, Fail, vars, tables

\* The work under review stands still, also through the Studio's assistant path.
THEOREM ReviewedWorkIsStill == Spec => (OneSlot => ReviewedWorkStandsStill)
  <1>1. TypeInv /\ (OneSlot => SerialInv) /\ [Next]_vars
            => (OneSlot => [UnderReview => UNCHANGED work]_vars)
    BY ReviewedStands
  <1>2. OneSlot => OneSlot'
    BY DEF OneSlot
  <1> QED  BY <1>1, <1>2, TypeInvariant, SerialInvariant, PTL DEF Spec, ReviewedWorkStandsStill

-----------------------------------------------------------------------------
(* The contract.  Every status that a handler writes is one that the map    *)
(* allows from the status of the moment, because nothing moved since the   *)
(* handler read it.                                                        *)

\* The status maps and marks are the same on both sides.
LEMMA SameMaps ==
    /\ Contract!Absent = Absent
    /\ Contract!ChapterStatus = ChapterStatus
    /\ \A from, to : Contract!canTransition(Contract!TASK_TRANSITIONS, from, to)
                      <=> canTransition(TASK_TRANSITIONS, from, to)
    /\ \A from, to : Contract!canTransition(Contract!CHAPTER_TRANSITIONS, from, to)
                      <=> canTransition(CHAPTER_TRANSITIONS, from, to)
  <1> QED
    BY DEF Contract!Absent, Absent, Contract!ChapterStatus, ChapterStatus, Contract!canTransition,
           canTransition, Contract!TASK_TRANSITIONS, TASK_TRANSITIONS,
           Contract!CHAPTER_TRANSITIONS, CHAPTER_TRANSITIONS

\* A statement that leaves the statuses and the payments alone.
LEMMA ContractStutters ==
    ASSUME UNCHANGED <<chapter, task, accruals>>
    PROVE  [Contract!Next]_Contract!contract
  <1> QED  BY DEF Contract!contract

\* The statements of TaskService: a task is assigned, or started.
LEMMA TaskStepsKeepContract ==
    ASSUME TypeInv, OneSlot, SerialInv, NEW r \in Reqs, TaskSteps(r)
    PROVE  [Contract!Next]_Contract!contract
  <1>0. WorkTold(req[r])
    BY OwnTold
  <1>1. CASE AssignCheckRegion(r)
    BY <1>1, ContractStutters DEF AssignCheckRegion, tables, work, taskRows, submissionRows
  <1>2. CASE AssignInsert(r)
    <2>1. CASE UNCHANGED tables
      BY <2>1, ContractStutters DEF tables, work, taskRows, submissionRows
    <2>2. CASE ~(UNCHANGED tables)
      <3>1. PICK t \in Tasks : /\ TaskIds = 1 .. (t - 1)
                               /\ task' = [task EXCEPT ![t] = "ASSIGNED"]
                               /\ UNCHANGED <<chapter, accruals>>
        BY <1>2, <2>2 DEF AssignInsert, submissionRows
      <3>2. task[t] = Absent
        BY <3>1, BoundsAssumption DEF TaskIds, Tasks
      <3>3. chapter \in {"DRAFT", "IN_PROGRESS"}
        BY <1>0, <1>2 DEF AssignInsert, At, WorkTold, AssignPcs, InProduction
      <3> QED  BY <3>1, <3>2, <3>3, SameMaps DEF Contract!Next, Contract!Assign, Contract!InProduction
    <2> QED  BY <2>1, <2>2
  <1>3. CASE StartWrite(r)
    <2>1. PICK t \in Tasks : t = req[r].task
      BY <1>3 DEF TypeInv, RequestsFitRows, Fits, StartWrite, At, TaskIds
    <2>2. canTransition(TASK_TRANSITIONS, task[t], "IN_PROGRESS")
      BY <1>0, <1>3, <2>1 DEF StartWrite, At, WorkTold
    <2>3. task' = [task EXCEPT ![t] = "IN_PROGRESS"] /\ UNCHANGED <<chapter, accruals>>
      BY <1>3, <2>1 DEF StartWrite, submissionRows
    <2> QED  BY <2>2, <2>3, SameMaps DEF Contract!Next, Contract!Work
  <1> QED  BY <1>1, <1>2, <1>3 DEF TaskSteps

\* The statements of SubmissionService: a task is handed in, approved or sent back.
LEMMA SubmissionStepsKeepContract ==
    ASSUME TypeInv, OneSlot, SerialInv, NEW r \in Reqs, SubmissionSteps(r)
    PROVE  [Contract!Next]_Contract!contract
  <1>0. WorkTold(req[r])
    BY OwnTold
  <1>1. CASE SubmitVersion(r) \/ SubmitCheckStudio(r) \/ SubmitInsert(r) \/ ReviewBegin(r)
    <2>1. UNCHANGED <<chapter, task, accruals>>
      BY <1>1 DEF SubmitVersion, SubmitCheckStudio, SubmitInsert, ReviewBegin, tables, work, taskRows,
         submissionRows
    <2> QED  BY <2>1, ContractStutters
  <1>2. CASE SubmitWrite(r)
    <2>1. PICK t \in Tasks : t = req[r].task
      BY <1>2 DEF TypeInv, RequestsFitRows, Fits, SubmitWrite, At, TaskIds
    <2>2. canTransition(TASK_TRANSITIONS, task[t], "SUBMITTED")
      BY <1>0, <1>2, <2>1 DEF SubmitWrite, At, WorkTold, SubmitPcs
    <2>3. task' = [task EXCEPT ![t] = "SUBMITTED"] /\ UNCHANGED <<chapter, accruals>>
      BY <1>2, <2>1 DEF SubmitWrite, submissionRows
    <2> QED  BY <2>2, <2>3, SameMaps DEF Contract!Next, Contract!Work
  <1>3. CASE ReviewCommit(r)
    <2>1. PICK t \in Tasks, d \in Decisions : t = req[r].task /\ d = req[r].status
      BY <1>3 DEF TypeInv, RequestsFitRows, Fits, ReviewCommit, At, TaskIds
    <2>2. task[t] = "SUBMITTED"
      BY <1>0, <1>3, <2>1 DEF ReviewCommit, At, WorkTold, ReviewPcs
    <2>3. /\ task' = [task EXCEPT ![t] = d] /\ UNCHANGED chapter
          /\ accruals' = IF d = "APPROVED" THEN [accruals EXCEPT ![t] = @ + 1] ELSE accruals
      BY <1>3, <2>1 DEF ReviewCommit, Credit
    <2>4. CASE d = "APPROVED"
      BY <2>2, <2>3, <2>4 DEF Contract!Next, Contract!Approve
    <2>5. CASE d = "REVISION_REQUIRED"
      <3>1. canTransition(TASK_TRANSITIONS, task[t], d)
        BY <2>2, <2>5 DEF canTransition, TASK_TRANSITIONS
      <3> QED  BY <2>3, <2>5, <3>1, SameMaps DEF Contract!Next, Contract!Work
    <2> QED  BY <2>4, <2>5 DEF Decisions
  <1> QED  BY <1>1, <1>2, <1>3 DEF SubmissionSteps

\* The statements of ChapterService: a chapter leaves production when all is approved.
LEMMA ChapterStepsKeepContract ==
    ASSUME TypeInv, OneSlot, SerialInv, NEW r \in Reqs, ChapterSteps(r)
    PROVE  [Contract!Next]_Contract!contract
  <1>0. ChapterTold(req[r])
    BY OwnTold
  <1>1. CASE SetStatusCheckReadiness(r) \/ EditorCheckReadiness(r)
    BY <1>1, ContractStutters DEF SetStatusCheckReadiness, EditorCheckReadiness, tables, work, taskRows,
       submissionRows
  <1>2. CASE SetStatusWrite(r) \/ EditorReviewWrite(r) \/ BoardReviewWrite(r)
    <2> DEFINE to == req[r].status
    <2>1. /\ req[r].pc \in {"status_write", "editor_write", "board_write"}
          /\ chapter' = to /\ UNCHANGED <<task, accruals>>
      BY <1>2 DEF SetStatusWrite, EditorReviewWrite, BoardReviewWrite, WriteChapter, At, work, taskRows,
         submissionRows
    <2>2. canTransition(CHAPTER_TRANSITIONS, chapter, to) /\ to # "PUBLISHED"
      BY <1>0, <2>1 DEF ChapterTold, ChapterPcs
    <2>3. to \in ChapterStatus
      BY <2>2 DEF canTransition, CHAPTER_TRANSITIONS, ChapterStatus
    <2>4. to # "IN_PROGRESS" => Ready
      <3>1. CASE req[r].pc \in {"status_write", "editor_write"}
        BY <1>0, <3>1 DEF ChapterTold
      <3>2. CASE req[r].pc = "board_write" /\ to = "BOARD_APPROVED"
        <4>1. chapter = "EDITOR_APPROVED"
          BY <2>2, <3>2 DEF canTransition, CHAPTER_TRANSITIONS
        <4> QED  BY <4>1 DEF SerialInv, ReviewedChapterIsReady, UnderReview
      <3> QED  BY <1>0, <2>1, <3>1, <3>2 DEF ChapterTold
    <2>5. to # "IN_PROGRESS" => Contract!AllApproved
      BY <2>4, SameMaps DEF Ready, NonApprovedTasks, TaskIds, Contract!AllApproved
    <2> QED  BY <2>1, <2>2, <2>3, <2>5, SameMaps DEF Contract!Next, Contract!Move
  <1> QED  BY <1>1, <1>2 DEF ChapterSteps

\* Every other statement leaves statuses and payments alone.
LEMMA NextKeepsContract ==
    ASSUME TypeInv, OneSlot, SerialInv, [Next]_vars
    PROVE  [Contract!Next]_Contract!contract
  <1>1. ASSUME NEW r \in Reqs, SyncSteps(r) \/ StudioSteps(r) \/ PageSteps(r)
        PROVE  UNCHANGED <<chapter, task, accruals>>
    BY <1>1 DEF SyncSteps, SyncReadTasks, SyncReadPage, SyncWrite, StudioSteps, SaveReadCurrent, SaveInsert,
       SaveUpdate, DocWrite, PageSteps, PageReadNumber, PageInsert, PageInsertVersion,
       RegionCheckVersion, RegionInsert, RegionDelete, tables, work, taskRows, submissionRows
  <1>2. ASSUME NEW r \in Reqs, Progress(r) PROVE [Contract!Next]_Contract!contract
    BY <1>1, <1>2, ContractStutters, TaskStepsKeepContract, SubmissionStepsKeepContract,
       ChapterStepsKeepContract DEF Progress
  <1>3. ASSUME NEW r \in Reqs, Call(r) \/ Fail(r) PROVE UNCHANGED tables
    BY <1>3, CallQuiet DEF Fail
  <1> QED
    BY <1>2, <1>3, ContractStutters DEF Next, vars, tables, work, taskRows, submissionRows

\* One request at a time, whatever dies, the handlers implement the contract.
THEOREM HandlersKeepContract == Spec => (OneSlot => ImplementsContract)
  <1>1. Init => Contract!Init
    BY SameMaps DEF Init, InitEmpty, InitDrawn, Contract!Init
  <1>2. TypeInv /\ (OneSlot => SerialInv) /\ [Next]_vars
            => (OneSlot => [Contract!Next]_Contract!contract)
    BY NextKeepsContract
  <1>3. OneSlot => OneSlot'
    BY DEF OneSlot
  <1> QED
    BY <1>1, <1>2, <1>3, TypeInvariant, SerialInvariant, PTL
       DEF Spec, ImplementsContract, Contract!Spec

-----------------------------------------------------------------------------
(* The queue of reviews, one request at a time and none that dies.  Between *)
(* the insert of a submission and the update of its task a request is in   *)
(* flight, and waits for the review in the task's place.                   *)

\* The number after the greatest is the greatest of all.
LEMMA NextIsGreatest ==
    ASSUME NEW n \in Nat, NEW S \in SUBSET (1 .. n)
    PROVE  /\ NextVersion(S) \notin S
           /\ Max(S \cup {NextVersion(S)}) = NextVersion(S)
  <1> DEFINE k == NextVersion(S)
  <1>1. k \in Nat /\ \A x \in S : x < k
    <2>1. CASE S = {}
      BY <2>1 DEF NextVersion
    <2>2. CASE S # {}
      <3>1. Max(S) \in S /\ \A x \in S : Max(S) >= x
        BY <2>2, MaxIsElement
      <3>2. \A x \in S : x \in 1 .. n
        OBVIOUS
      <3>3. k = Max(S) + 1
        BY <2>2 DEF NextVersion
      <3>4. Max(S) \in 1 .. n
        BY <3>1, <3>2
      <3> QED  BY <3>1, <3>2, <3>3, <3>4
    <2> QED  BY <2>1, <2>2
  <1> HIDE DEF k
  <1>2. k \notin S
    BY <1>1
  <1>3. \A x \in S \cup {k} : k >= x
    BY <1>1
  <1>4. \A y \in S \cup {k} : (\A x \in S \cup {k} : y >= x) => y = k
    BY <1>1
  <1> QED  BY <1>2, <1>3, <1>4 DEF Max, k

Awaited(t) == task[t] = "SUBMITTED" \/ \E r \in Reqs : At(r, "submit_write") /\ req[r].task = t

\* What a request on a submission has read.
QueueTold(q) ==
    /\ q.pc \in {"submit_studio", "submit_insert"} => q.num = NextVersion(SubmissionsOf(q.task))
    /\ q.pc \in ReviewPcs => submission[q.task][q.num] = "PENDING"

QueueInv ==
    /\ \A r \in Reqs : QueueTold(req[r])
    /\ \A t \in Tasks :
         PendingSubmissions(t) = IF Awaited(t) THEN {Max(SubmissionsOf(t))} ELSE {}
    /\ \A t \in Tasks, v \in SubmissionVersions : submission[t][v] # "UNDER_REVIEW"

\* A statement that moves no submission, and hands no task over to a review or back.
LEMMA QueueStays ==
    ASSUME QueueInv, UNCHANGED submission, \A t \in Tasks : Awaited(t)' <=> Awaited(t),
           \A r \in Reqs : QueueTold(req[r])'
    PROVE  QueueInv'
  <1>1. \A t \in Tasks : /\ SubmissionsOf(t)' = SubmissionsOf(t)
                         /\ PendingSubmissions(t)' = PendingSubmissions(t)
    BY DEF SubmissionsOf, PendingSubmissions
  <1> QED  BY <1>1 DEF QueueInv

\* A statement of a request that does not stand in for its task.
LEMMA QueueUntouched ==
    ASSUME OneSlot, QueueInv, NEW r \in Reqs, UNCHANGED <<task, submission>>,
           req[r].pc # "submit_write", req'[r].pc # "submit_write",
           req'[r].pc \notin {"submit_studio", "submit_insert"} \cup ReviewPcs \/ QueueTold(req'[r])
    PROVE  QueueInv'
  <1>1. \A q \in Reqs : q = r
    BY DEF OneSlot
  <1>2. \A t \in Tasks : Awaited(t)' <=> Awaited(t)
    BY <1>1 DEF Awaited, At
  <1>3. QueueTold(req[r])'
    BY DEF QueueTold, SubmissionsOf
  <1> QED  BY <1>1, <1>2, <1>3, QueueStays

\* A task that no review waits for moves.
LEMMA QueueTaskMoves ==
    ASSUME TypeInv, OneSlot, QueueInv, NEW r \in Reqs, NEW t \in Tasks, NEW to, UNCHANGED submission,
           task' = [task EXCEPT ![t] = to], task[t] # "SUBMITTED",
           req[r].pc = "submit_write" => req[r].task = t,
           req[r].pc = "submit_write" <=> to = "SUBMITTED",
           req'[r].pc = "sync_tasks"
    PROVE  QueueInv'
  <1>1. \A q \in Reqs : q = r
    BY DEF OneSlot
  <1>2. task'[t] = to /\ \A u \in Tasks \ {t} : task'[u] = task[u]
    BY DEF TypeInv, TypeOK
  <1>3. \A u \in Tasks : Awaited(u)' <=> Awaited(u)
    <2>1. Awaited(t)' <=> Awaited(t)
      BY <1>1, <1>2 DEF Awaited, At
    <2>2. \A u \in Tasks \ {t} : Awaited(u)' <=> Awaited(u)
      BY <1>1, <1>2 DEF Awaited, At
    <2> QED  BY <2>1, <2>2
  <1>4. QueueTold(req[r])'
    BY DEF QueueTold, ReviewPcs
  <1> QED  BY <1>1, <1>3, <1>4, QueueStays

\* A call finds the submission it goes on with.
LEMMA CallKeepsQueue ==
    ASSUME TypeInv, OneSlot, QueueInv, NEW r \in Reqs, Call(r)
    PROVE  QueueInv'
  <1>0. UNCHANGED <<task, submission>>
    <2>1. UNCHANGED tables
      BY CallQuiet
    <2> QED  BY <2>1 DEF tables, work, taskRows, submissionRows
  <1>e. ASSUME NEW q, Enter(r, q), q.pc # "submit_write",
               q.pc \notin {"submit_studio", "submit_insert"} \cup ReviewPcs \/ QueueTold(q)
        PROVE  QueueInv'
    <2>1. req[r].pc = "idle" /\ req'[r] = q
      BY <1>e DEF Enter, At, TypeInv, TypeOK
    <2> QED  BY <1>0, <1>e, <2>1, QueueUntouched
  <1> USE DEF Idle, ReviewPcs
  <1>1. ASSUME NEW g \in Regions, NEW a \in Assistants, AssignRead(r, g, a) PROVE QueueInv'
    BY <1>1, <1>e DEF AssignRead
  <1>2. ASSUME NEW t \in Tasks, StartRead(r, t) \/ SubmitRead(r, t) PROVE QueueInv'
    BY <1>2, <1>e DEF StartRead, SubmitRead
  <1>3. ASSUME NEW t \in Tasks, NEW v \in SubmissionVersions, NEW d \in Decisions, ReviewRead(r, t, v, d)
        PROVE  QueueInv'
    <2>1. submission[t][v] = "PENDING"
      BY <1>3 DEF QueueInv, ReviewRead, canTransition, SUBMISSION_TRANSITIONS, mayReview
    <2>2. QueueTold([Idle EXCEPT !.pc = "review_begin", !.task = t, !.num = v, !.status = d])
      BY <2>1 DEF QueueTold
    <2> QED  BY <1>3, <1>e, <2>2 DEF ReviewRead
  <1>4. ASSUME NEW u, NEW p \in Pages, SaveRead(r, u, p) \/ DocRead(r, u, p) PROVE QueueInv'
    BY <1>4, <1>e DEF SaveRead, DocRead
  <1>5. CASE PageCreateRead(r)
    BY <1>5, <1>e DEF PageCreateRead
  <1>6. ASSUME NEW p \in Pages, RegionCreateRead(r, p) PROVE QueueInv'
    BY <1>6, <1>e DEF RegionCreateRead
  <1>7. ASSUME NEW g \in Regions, RegionDeleteRead(r, g) PROVE QueueInv'
    BY <1>7, <1>e DEF RegionDeleteRead
  <1>8. ASSUME NEW target \in ChapterStatus,
               SetStatusRead(r, target) \/ EditorReviewRead(r, target) \/ BoardReviewRead(r, target)
        PROVE  QueueInv'
    BY <1>8, <1>e DEF SetStatusRead, EditorReviewRead, BoardReviewRead
  <1> QED  BY <1>1, <1>2, <1>3, <1>4, <1>5, <1>6, <1>7, <1>8 DEF Call

\* The statements of TaskService.
LEMMA TaskStepsKeepQueue ==
    ASSUME TypeInv, OneSlot, SerialInv, QueueInv, NEW r \in Reqs, TaskSteps(r)
    PROVE  QueueInv'
  <1>0. req \in [Reqs -> Request] /\ WorkTold(req[r])
    BY OwnTold DEF TypeInv, TypeOK
  <1>e. ASSUME UNCHANGED tables, Finish(r) \/ Goto(r, "assign_insert"), req[r].pc # "submit_write"
        PROVE  QueueInv'
    <2>1. req'[r].pc \in {"idle", "assign_insert"}
      BY <1>0, <1>e DEF Finish, Goto, Idle, Request
    <2> QED  BY <1>e, <2>1, QueueUntouched DEF tables, work, taskRows, submissionRows, ReviewPcs
  <1>1. CASE AssignCheckRegion(r)
    BY <1>1, <1>e DEF AssignCheckRegion, At
  <1>2. CASE AssignInsert(r)
    <2>1. CASE Finish(r) /\ UNCHANGED tables
      BY <1>2, <1>e, <2>1 DEF AssignInsert, At
    <2>2. CASE ~(Finish(r) /\ UNCHANGED tables)
      <3>1. PICK t \in Tasks : /\ TaskIds = 1 .. (t - 1)
                               /\ task' = [task EXCEPT ![t] = "ASSIGNED"]
                               /\ StartSync(r, regionPage[req[r].region])
                               /\ UNCHANGED submission
        BY <1>2, <2>2 DEF AssignInsert, submissionRows
      <3>2. task[t] # "SUBMITTED"
        BY <3>1, BoundsAssumption DEF TaskIds, Tasks, Absent
      <3>3. req'[r].pc = "sync_tasks" /\ req[r].pc # "submit_write"
        BY <1>0, <1>2, <3>1 DEF StartSync, Idle, AssignInsert, At
      <3> QED  BY <3>1, <3>2, <3>3, QueueTaskMoves
    <2> QED  BY <2>1, <2>2
  <1>3. CASE StartWrite(r)
    <2>1. PICK t \in Tasks : t = req[r].task
      BY <1>3 DEF TypeInv, RequestsFitRows, Fits, StartWrite, At, TaskIds
    <2>2. task[t] # "SUBMITTED"
      BY <1>0, <1>3, <2>1 DEF StartWrite, At, WorkTold, canTransition, TASK_TRANSITIONS
    <2>3. task' = [task EXCEPT ![t] = "IN_PROGRESS"] /\ StartSync(r, PageOf(t)) /\ UNCHANGED submission
      BY <1>3, <2>1 DEF StartWrite, submissionRows
    <2>4. req'[r].pc = "sync_tasks" /\ req[r].pc # "submit_write"
      BY <1>0, <1>3, <2>3 DEF StartSync, Idle, StartWrite, At
    <2> QED  BY <2>2, <2>3, <2>4, QueueTaskMoves
  <1> QED  BY <1>1, <1>2, <1>3 DEF TaskSteps

\* The statements of SubmissionService.
LEMMA SubmissionStepsKeepQueue ==
    ASSUME TypeInv, OneSlot, SerialInv, QueueInv, NEW r \in Reqs, SubmissionSteps(r)
    PROVE  QueueInv'
  <1>0. /\ req \in [Reqs -> Request] /\ WorkTold(req[r]) /\ QueueTold(req[r])
        /\ submission \in [Tasks -> [SubmissionVersions -> SubmissionStatus \cup {Absent}]]
    BY OwnTold DEF QueueInv, TypeInv, TypeOK
  <1>s. \A q \in Reqs : q = r
    BY DEF OneSlot
  <1>e. ASSUME UNCHANGED tables, Finish(r), req[r].pc # "submit_write"
        PROVE  QueueInv'
    <2>1. req'[r].pc = "idle"
      BY <1>0, <1>e DEF Finish, Idle
    <2> QED  BY <1>e, <2>1, QueueUntouched DEF tables, work, taskRows, submissionRows, ReviewPcs
  <1>1. CASE SubmitVersion(r) \/ SubmitCheckStudio(r)
    <2>1. CASE Finish(r)
      BY <1>1, <1>e, <2>1 DEF SubmitVersion, SubmitCheckStudio, At
    <2>2. CASE ~Finish(r)
      <3>1. req'[r].pc \in {"submit_studio", "submit_insert"} /\ req'[r].task = req[r].task
            /\ req'[r].num = NextVersion(SubmissionsOf(req[r].task))
        BY <1>0, <1>1, <2>2 DEF SubmitVersion, SubmitCheckStudio, Goto, Request, QueueTold, At
      <3>2. UNCHANGED <<task, submission>> /\ req[r].pc # "submit_write"
        BY <1>1 DEF SubmitVersion, SubmitCheckStudio, At, tables, work, taskRows, submissionRows
      <3>3. QueueTold(req'[r])
        BY <3>1 DEF QueueTold, ReviewPcs
      <3> QED  BY <3>1, <3>2, <3>3, QueueUntouched
    <2> QED  BY <2>1, <2>2
  <1>2. CASE SubmitInsert(r)
    <2>1. CASE Finish(r) /\ UNCHANGED tables
      BY <1>2, <1>e, <2>1 DEF SubmitInsert, At
    <2>2. CASE ~(Finish(r) /\ UNCHANGED tables)
      <3>1. PICK t \in Tasks, n \in SubmissionVersions : t = req[r].task /\ n = req[r].num
        BY <1>2 DEF TypeInv, RequestsFitRows, Fits, SubmitInsert, At, TaskIds
      <3>2. /\ submission' = [submission EXCEPT ![t][n] = "PENDING"]
            /\ Goto(r, "submit_write") /\ req[r].pc = "submit_insert" /\ UNCHANGED task
        BY <1>2, <2>2, <3>1 DEF SubmitInsert, At, taskRows
      <3>3. req'[r].pc = "submit_write" /\ req'[r].task = t
        BY <1>0, <3>1, <3>2 DEF Goto, Request
      <3>4. task[t] # "SUBMITTED" /\ n = NextVersion(SubmissionsOf(t))
        BY <1>0, <3>1, <3>2 DEF WorkTold, SubmitPcs, canTransition, TASK_TRANSITIONS, QueueTold
      <3>5. PendingSubmissions(t) = {}
        BY <1>s, <3>2, <3>4 DEF QueueInv, Awaited, At
      <3>6. /\ \A v \in SubmissionVersions : submission'[t][v] = IF v = n THEN "PENDING" ELSE submission[t][v]
            /\ \A u \in Tasks \ {t} : submission'[u] = submission[u]
        BY <1>0, <3>2
      <3>7. SubmissionsOf(t)' = SubmissionsOf(t) \cup {n} /\ PendingSubmissions(t)' = {n}
        BY <3>1, <3>5, <3>6 DEF SubmissionsOf, PendingSubmissions, Absent
      <3>8. Max(SubmissionsOf(t)') = n
        BY <3>4, <3>7, NextIsGreatest, BoundsAssumption DEF SubmissionsOf, SubmissionVersions
      <3>9. \A u \in Tasks \ {t} : /\ SubmissionsOf(u)' = SubmissionsOf(u)
                                   /\ PendingSubmissions(u)' = PendingSubmissions(u)
                                   /\ Awaited(u)' <=> Awaited(u)
        BY <1>s, <3>2, <3>3, <3>6 DEF SubmissionsOf, PendingSubmissions, Awaited, At
      <3>10. Awaited(t)'
        BY <3>3 DEF Awaited, At
      <3>11. \A u \in Tasks : PendingSubmissions(u)' = IF Awaited(u)' THEN {Max(SubmissionsOf(u)')} ELSE {}
        BY <3>7, <3>8, <3>9, <3>10 DEF QueueInv
      <3>12. \A u \in Tasks, v \in SubmissionVersions : submission'[u][v] # "UNDER_REVIEW"
        BY <3>6 DEF QueueInv
      <3>13. \A q \in Reqs : QueueTold(req[q])'
        BY <1>s, <3>3 DEF QueueTold, ReviewPcs
      <3> QED  BY <3>11, <3>12, <3>13 DEF QueueInv
    <2> QED  BY <2>1, <2>2
  <1>3. CASE SubmitWrite(r)
    <2>1. PICK t \in Tasks : t = req[r].task
      BY <1>3 DEF TypeInv, RequestsFitRows, Fits, SubmitWrite, At, TaskIds
    <2>2. task[t] # "SUBMITTED" /\ req[r].pc = "submit_write"
      BY <1>0, <1>3, <2>1 DEF SubmitWrite, At, WorkTold, SubmitPcs, canTransition, TASK_TRANSITIONS
    <2>3. task' = [task EXCEPT ![t] = "SUBMITTED"] /\ StartSync(r, PageOf(t)) /\ UNCHANGED submission
      BY <1>3, <2>1 DEF SubmitWrite, submissionRows
    <2>4. req'[r].pc = "sync_tasks"
      BY <1>0, <2>3 DEF StartSync, Idle
    <2> QED  BY <2>1, <2>2, <2>3, <2>4, QueueTaskMoves
  <1>4. CASE ReviewBegin(r)
    <2>1. PICK n : req' = [req EXCEPT ![r].pc = "review_commit", ![r].target = n]
      BY <1>4 DEF ReviewBegin
    <2>2. /\ req'[r].pc = "review_commit" /\ req[r].pc = "review_begin"
          /\ req'[r].task = req[r].task /\ req'[r].num = req[r].num
      BY <1>0, <1>4, <2>1 DEF Request, ReviewBegin, At
    <2>3. QueueTold(req'[r])
      BY <1>0, <2>2 DEF QueueTold, ReviewPcs
    <2> QED  BY <1>4, <2>2, <2>3, QueueUntouched DEF ReviewBegin, tables, work, taskRows, submissionRows
  <1>5. CASE ReviewCommit(r)
    <2>1. PICK t \in Tasks, n \in SubmissionVersions, d \in Decisions :
            t = req[r].task /\ n = req[r].num /\ d = req[r].status
      BY <1>5 DEF TypeInv, RequestsFitRows, Fits, ReviewCommit, At, TaskIds, SubmissionsOf
    <2>2. /\ submission' = [submission EXCEPT ![t][n] = d] /\ task' = [task EXCEPT ![t] = d]
          /\ Finish(r) /\ req[r].pc = "review_commit"
      BY <1>5, <2>1 DEF ReviewCommit, At
    <2>3. req'[r].pc = "idle"
      BY <1>0, <2>2 DEF Finish, Idle
    <2>4. task[t] = "SUBMITTED" /\ submission[t][n] = "PENDING"
      BY <1>0, <2>1, <2>2 DEF WorkTold, QueueTold, ReviewPcs
    <2>5. PendingSubmissions(t) = {n}
      <3>1. PendingSubmissions(t) = {Max(SubmissionsOf(t))}
        BY <2>4 DEF QueueInv, Awaited
      <3>2. n \in PendingSubmissions(t)
        BY <2>1, <2>4 DEF PendingSubmissions
      <3> QED  BY <3>1, <3>2
    <2>6. /\ \A v \in SubmissionVersions : submission'[t][v] = IF v = n THEN d ELSE submission[t][v]
          /\ \A u \in Tasks \ {t} : submission'[u] = submission[u] /\ task'[u] = task[u]
          /\ task'[t] = d
      BY <1>0, <2>2 DEF TypeInv, TypeOK
    <2>7. PendingSubmissions(t)' = {}
      BY <2>5, <2>6 DEF PendingSubmissions, Decisions
    <2>8. ~Awaited(t)'
      BY <1>s, <2>3, <2>6 DEF Awaited, At, Decisions
    <2>9. \A u \in Tasks \ {t} : /\ SubmissionsOf(u)' = SubmissionsOf(u)
                                 /\ PendingSubmissions(u)' = PendingSubmissions(u)
                                 /\ Awaited(u)' <=> Awaited(u)
      BY <1>s, <2>2, <2>3, <2>6 DEF SubmissionsOf, PendingSubmissions, Awaited, At
    <2>10. \A u \in Tasks : PendingSubmissions(u)' = IF Awaited(u)' THEN {Max(SubmissionsOf(u)')} ELSE {}
      BY <2>7, <2>8, <2>9 DEF QueueInv
    <2>11. \A u \in Tasks, v \in SubmissionVersions : submission'[u][v] # "UNDER_REVIEW"
      BY <2>6 DEF QueueInv, Decisions
    <2>12. \A q \in Reqs : QueueTold(req[q])'
      BY <1>s, <2>3 DEF QueueTold, ReviewPcs
    <2> QED  BY <2>10, <2>11, <2>12 DEF QueueInv
  <1> QED  BY <1>1, <1>2, <1>3, <1>4, <1>5 DEF SubmissionSteps

\* The other statements move no task and no submission.
LEMMA OtherStepsKeepQueue ==
    ASSUME TypeInv, OneSlot, QueueInv, NEW r \in Reqs,
           SyncSteps(r) \/ StudioSteps(r) \/ PageSteps(r) \/ ChapterSteps(r)
    PROVE  QueueInv'
  <1> USE DEF SyncSteps, SyncReadTasks, SyncReadPage, SyncWrite, StudioSteps, SaveReadCurrent, SaveInsert,
              SaveUpdate, DocWrite, PageSteps, PageReadNumber, PageInsert, PageInsertVersion,
              RegionCheckVersion, RegionInsert, RegionDelete, ChapterSteps, SetStatusCheckReadiness,
              EditorCheckReadiness, SetStatusWrite, EditorReviewWrite, BoardReviewWrite, WriteChapter
  <1>0. req \in [Reqs -> Request]
    BY DEF TypeInv, TypeOK
  <1>1. UNCHANGED <<task, submission>>
    BY DEF tables, work, taskRows, submissionRows
  <1>2. req[r].pc # "submit_write"
    BY DEF At
  <1>3. req'[r].pc \notin SubmitPcs \cup ReviewPcs
    BY <1>0 DEF Finish, Goto, Idle, Request, SubmitPcs, ReviewPcs
  <1> QED  BY <1>1, <1>2, <1>3, QueueUntouched DEF SubmitPcs

\* Every step keeps the queue in order, when no request dies.
LEMMA NextKeepsQueue ==
    ASSUME TypeInv, OneSlot, SerialInv, ~Faults, QueueInv, [Next]_vars
    PROVE  QueueInv'
  <1>1. CASE UNCHANGED vars
    BY <1>1, QueueStays DEF vars, tables, work, taskRows, submissionRows, Awaited, At, QueueInv, QueueTold,
       SubmissionsOf
  <1>2. ASSUME NEW r \in Reqs, Call(r) \/ Progress(r) \/ Fail(r) PROVE QueueInv'
    BY <1>2, CallKeepsQueue, TaskStepsKeepQueue, SubmissionStepsKeepQueue, OtherStepsKeepQueue
       DEF Progress, Fail
  <1> QED  BY <1>1, <1>2 DEF Next

\* One request at a time and none that dies, a task waits for a review exactly when its
\* latest submission does.
THEOREM ReviewQueueFollowsTasks == Spec => [](OneSlot /\ ~Faults => ReviewQueueMatchesTasks)
  <1>1. Init => QueueInv
    <2> SUFFICES ASSUME Init PROVE QueueInv
      OBVIOUS
    <2>1. \A t \in Tasks : PendingSubmissions(t) = {} /\ ~Awaited(t)
      BY DEF Init, InitEmpty, InitDrawn, PendingSubmissions, Awaited, At, Idle, Absent
    <2> QED  BY <2>1 DEF Init, InitEmpty, InitDrawn, QueueInv, QueueTold, Idle, ReviewPcs, Absent
  <1>2. /\ TypeInv /\ (OneSlot => SerialInv) /\ (OneSlot /\ ~Faults => QueueInv) /\ [Next]_vars
        => (OneSlot /\ ~Faults => QueueInv)'
    BY NextKeepsQueue DEF OneSlot
  <1>3. (OneSlot /\ ~Faults => QueueInv) => (OneSlot /\ ~Faults => ReviewQueueMatchesTasks)
    BY DEF QueueInv, Awaited, ReviewQueueMatchesTasks, Quiescent, At
  <1> QED  BY <1>1, <1>2, <1>3, TypeInvariant, SerialInvariant, PTL DEF Spec

-----------------------------------------------------------------------------
(* The status of a page, one request at a time and none that dies.  While   *)
(* the sync of a page is in flight its status may be one step behind.      *)

SyncPcs == {"sync_tasks", "sync_page", "sync_write"}
OpenWork == {"ASSIGNED", "IN_PROGRESS", "REVISION_REQUIRED"}
InHand == {"IN_PROGRESS", "REVIEWING", "COMPLETED"}

Derived(p) == derivePageStatus(TaskStatusesOn(p))
SavedBy(p) == uploader[p][currentVersion[p]]
OtherStatuses(t) == {task[u] : u \in TasksOn(PageOf(t)) \ {t}}
Syncing(p) == \E r \in Reqs : req[r].pc \in SyncPcs /\ req[r].page = p

Settled(p) ==
    /\ page[p] = "REVIEWING" => Derived(p) = "REVIEWING"
    /\ Derived(p) \in {"REVIEWING", "COMPLETED"} =>
           page[p] \in {Derived(p), "COMPLETED"} \/ SavedBy(p) = Mangaka

Settling(p) ==
    /\ Derived(p) # "COMPLETED"
    /\ page[p] = "REVIEWING" => Derived(p) \in {"REVIEWING", "IN_PROGRESS"}
    /\ Derived(p) = "REVIEWING" => page[p] \in InHand \/ SavedBy(p) = Mangaka

\* What a request on a page, or on a task of it, has read.
PageTold(q) ==
    /\ q.pc \in {"sync_page", "sync_write"} => q.target = Derived(q.page)
    /\ q.pc = "sync_write" => syncTarget(page[q.page], q.target) # NoStatus
    /\ q.pc \in {"submit_version", "submit_studio"} => q.user \in Assistants \cup {None}
    /\ q.pc \in {"submit_insert", "submit_write"} => SavedBy(PageOf(q.task)) \in Assistants
    /\ q.pc \in {"save_current", "save_insert", "save_update"} =>
           q.user = Mangaka \/ \E t \in TasksOn(q.page) : task[t] \in OpenWork
    /\ q.pc \in {"save_insert", "save_update"} => q.num = currentVersion[q.page] + 1
    /\ q.pc = "save_update" => uploader[q.page][q.num] = q.user
    /\ q.pc = "review_commit" =>
           q.target = syncTarget(page[PageOf(q.task)],
                                 derivePageStatus({q.status} \cup OtherStatuses(q.task)))

PageInv ==
    /\ \A p \in ExistingPages : IF Syncing(p) THEN Settling(p) ELSE Settled(p)
    /\ \A p \in ExistingPages : SavedBy(p) \in Assistants => page[p] \in InHand
    /\ \A p \in Pages : uploader[p][1] \notin Assistants
    /\ \A r \in Reqs : PageTold(req[r])

\* The statuses that a page can be derived to, and from what.
LEMMA DerivedFrom ==
    ASSUME NEW S
    PROVE  /\ derivePageStatus(S) = "REVIEWING" <=> "SUBMITTED" \in S /\ S \subseteq {"SUBMITTED", "APPROVED"}
           /\ derivePageStatus(S) = "COMPLETED" <=> S = {"APPROVED"}
           /\ (\E s \in S : s # "ASSIGNED") => derivePageStatus(S) \in InHand
           /\ "ASSIGNED" \in S => derivePageStatus(S) \in {"ASSIGNED", "IN_PROGRESS"}
           /\ derivePageStatus(S) = "ASSIGNED" => S = {"ASSIGNED"}
           /\ derivePageStatus(S) = NoStatus <=> S = {}
  <1>1. CASE S = {}
    BY <1>1 DEF derivePageStatus, NoStatus
  <1>2. CASE S = {"APPROVED"}
    BY <1>2 DEF derivePageStatus, NoStatus, InHand
  <1>3. CASE S = {"ASSIGNED"}
    BY <1>3 DEF derivePageStatus, NoStatus, InHand
  <1>4. CASE "SUBMITTED" \in S /\ S \subseteq {"SUBMITTED", "APPROVED"}
    <2>1. derivePageStatus(S) = "REVIEWING"
      BY <1>4 DEF derivePageStatus
    <2> QED  BY <1>4, <2>1 DEF NoStatus, InHand
  <1>5. CASE ~(\/ S = {} \/ S = {"APPROVED"} \/ S = {"ASSIGNED"}
               \/ "SUBMITTED" \in S /\ S \subseteq {"SUBMITTED", "APPROVED"})
    <2>1. derivePageStatus(S) = "IN_PROGRESS"
      BY <1>5 DEF derivePageStatus
    <2> QED  BY <1>5, <2>1 DEF NoStatus, InHand
  <1> QED  BY <1>1, <1>2, <1>3, <1>4, <1>5

\* What the sync makes of a page's status.
LEMMA SyncTargets ==
    ASSUME NEW current, NEW derived
    PROVE  /\ syncTarget(current, derived) = IF derived # current /\ canTransition(PAGE_TRANSITIONS, current, derived)
                                             THEN derived ELSE NoStatus
           /\ current = "REVIEWING" /\ derived \in {"COMPLETED", "IN_PROGRESS"} => syncTarget(current, derived) = derived
           /\ current = "IN_PROGRESS" /\ derived = "REVIEWING" => syncTarget(current, derived) = derived
           /\ current \in InHand /\ syncTarget(current, derived) # NoStatus => derived \in InHand
  <1> QED  BY DEF syncTarget, canTransition, PAGE_TRANSITIONS, InHand

\* A statement that changes one page and the work on it.
LEMMA OnePageMoves ==
    ASSUME OneSlot, PageInv, NEW r \in Reqs, NEW p \in Pages,
           req[r].pc \in SyncPcs => req[r].page = p,
           req'[r].pc \in SyncPcs => req'[r].page = p,
           \A o \in Pages \ {p} : /\ page'[o] = page[o] /\ currentVersion'[o] = currentVersion[o]
                                  /\ uploader'[o] = uploader[o]
                                  /\ TaskStatusesOn(o)' = TaskStatusesOn(o),
           p \in ExistingPages' => /\ IF req'[r].pc \in SyncPcs THEN Settling(p)' ELSE Settled(p)'
                                   /\ SavedBy(p)' \in Assistants => page'[p] \in InHand,
           uploader'[p][1] \notin Assistants,
           PageTold(req[r])'
    PROVE  PageInv'
  <1>1. \A q \in Reqs : q = r
    BY DEF OneSlot
  <1>2. Syncing(p)' <=> req'[r].pc \in SyncPcs
    BY <1>1 DEF Syncing
  <1>3. ASSUME NEW o \in ExistingPages', o # p
        PROVE  /\ IF Syncing(o)' THEN Settling(o)' ELSE Settled(o)'
               /\ SavedBy(o)' \in Assistants => page'[o] \in InHand
    <2>1. o \in Pages \ {p} /\ o \in ExistingPages /\ page'[o] = page[o]
      BY <1>3 DEF ExistingPages
    <2>2. ~Syncing(o) /\ ~Syncing(o)'
      BY <1>1, <1>3 DEF Syncing
    <2>3. Derived(o)' = Derived(o) /\ SavedBy(o)' = SavedBy(o)
      BY <2>1 DEF Derived, SavedBy
    <2>4. Settled(o) /\ (SavedBy(o) \in Assistants => page[o] \in InHand)
      BY <2>1, <2>2 DEF PageInv
    <2> QED  BY <2>1, <2>2, <2>3, <2>4 DEF Settled
  <1>4. \A o \in ExistingPages' : /\ IF Syncing(o)' THEN Settling(o)' ELSE Settled(o)'
                                  /\ SavedBy(o)' \in Assistants => page'[o] \in InHand
    BY <1>2, <1>3
  <1>5. \A o \in Pages : uploader'[o][1] \notin Assistants
    BY DEF PageInv
  <1> QED  BY <1>1, <1>4, <1>5 DEF PageInv

\* A statement that leaves every page and the work on it alone.
LEMMA PagesStay ==
    ASSUME OneSlot, PageInv, NEW r \in Reqs, UNCHANGED <<page, currentVersion, uploader>>,
           \A p \in Pages : TaskStatusesOn(p)' = TaskStatusesOn(p),
           req[r].pc \notin SyncPcs, req'[r].pc \notin SyncPcs, PageTold(req[r])'
    PROVE  PageInv'
  <1>1. \A q \in Reqs : q = r
    BY DEF OneSlot
  <1>2. \A p \in Pages : ~Syncing(p) /\ ~Syncing(p)'
    BY <1>1 DEF Syncing
  <1>3. ExistingPages' = ExistingPages /\ ExistingPages \subseteq Pages
    BY DEF ExistingPages
  <1>4. \A p \in ExistingPages : Derived(p)' = Derived(p) /\ SavedBy(p)' = SavedBy(p)
    BY <1>3 DEF Derived, SavedBy
  <1>5. \A p \in ExistingPages : Settled(p)' /\ (SavedBy(p)' \in Assistants => page'[p] \in InHand)
    BY <1>2, <1>3, <1>4 DEF PageInv, Settled
  <1> QED  BY <1>1, <1>2, <1>3, <1>5 DEF PageInv

\* ... and its slot idle, or with a statement that relies on no page.
LEMMA UnreadPagesStay ==
    ASSUME OneSlot, PageInv, NEW r \in Reqs, UNCHANGED <<page, currentVersion, uploader, task, taskRegion>>,
           \A t \in TaskIds : PageOf(t)' = PageOf(t),
           req[r].pc \notin SyncPcs,
           req'[r].pc \notin SyncPcs \cup SubmitPcs \cup {"save_current", "save_insert", "save_update", "review_commit"}
    PROVE  PageInv'
  <1>1. TaskIds' = TaskIds
    BY DEF TaskIds
  <1>2. \A p \in Pages : TaskStatusesOn(p)' = TaskStatusesOn(p)
    BY <1>1 DEF TaskStatusesOn, TasksOn
  <1>3. PageTold(req[r])'
    BY DEF PageTold, SyncPcs, SubmitPcs
  <1> QED  BY <1>2, <1>3, PagesStay

\* One task moves.
LEMMA OneTaskMoves ==
    ASSUME TypeInv, NEW t \in TaskIds, NEW to, to # Absent, task' = [task EXCEPT ![t] = to],
           UNCHANGED <<taskRegion, regionPage>>, NEW p, p = PageOf(t)
    PROVE  /\ TaskStatusesOn(p) = {task[t]} \cup OtherStatuses(t)
           /\ TaskStatusesOn(p)' = {to} \cup OtherStatuses(t)
           /\ \A o \in Pages \ {p} : TaskStatusesOn(o)' = TaskStatusesOn(o)
           /\ p \in ExistingPages /\ p \in Pages /\ t \in Tasks
  <1>1. t \in Tasks /\ task'[t] = to /\ \A u \in Tasks \ {t} : task'[u] = task[u]
    BY DEF TypeInv, TypeOK, TaskIds
  <1>2. TaskIds' = TaskIds /\ \A u \in TaskIds : PageOf(u)' = PageOf(u) /\ u \in Tasks
    BY <1>1 DEF TaskIds, PageOf
  <1>3. \A o : TasksOn(o)' = TasksOn(o)
    BY <1>2 DEF TasksOn
  <1>4. t \in TasksOn(p)
    BY DEF TasksOn
  <1>5. TaskStatusesOn(p) = {task[t]} \cup OtherStatuses(t)
    BY <1>4 DEF TaskStatusesOn, OtherStatuses
  <1>6. TaskStatusesOn(p)' = {to} \cup OtherStatuses(t)
    <2>1. TaskStatusesOn(p)' = {task'[u] : u \in TasksOn(p)}
      BY <1>2, <1>3 DEF TaskStatusesOn
    <2>2. \A u \in TasksOn(p) \ {t} : task'[u] = task[u]
      BY <1>1 DEF TasksOn, TaskIds
    <2> QED  BY <1>1, <1>4, <2>1, <2>2 DEF OtherStatuses
  <1>7. \A o \in Pages \ {p} : TaskStatusesOn(o)' = TaskStatusesOn(o)
    <2>1. \A o \in Pages \ {p} : \A u \in TasksOn(o) : task'[u] = task[u]
      BY <1>1 DEF TasksOn, TaskIds
    <2> QED  BY <1>3, <2>1 DEF TaskStatusesOn
  <1>8. p \in ExistingPages
    BY TaskIsOnPage DEF TypeInv
  <1> QED  BY <1>1, <1>5, <1>6, <1>7, <1>8 DEF ExistingPages

\* The statements of the sync.
LEMMA SyncStepsKeepPages ==
    ASSUME TypeInv, OneSlot, PageInv, NEW r \in Reqs, SyncSteps(r)
    PROVE  PageInv'
  <1>0. /\ req \in [Reqs -> Request] /\ page \in [Pages -> PageStatus \cup {Absent}] /\ PageTold(req[r])
        /\ req[r].pc \in SyncPcs
    BY DEF PageInv, TypeInv, TypeOK, SyncSteps, SyncReadTasks, SyncReadPage, SyncWrite, At, SyncPcs
  <1>1. PICK p \in Pages : p \in ExistingPages /\ req[r].page = p
    BY <1>0 DEF TypeInv, RequestsFitRows, Fits, SyncPcs, ExistingPages
  <1>d. PICK D : D = Derived(p)
    OBVIOUS
  <1>2. Settling(p) /\ (SavedBy(p) \in Assistants => page[p] \in InHand) /\ uploader[p][1] \notin Assistants
    BY <1>0, <1>1 DEF PageInv, Syncing
  <1>3. UNCHANGED <<currentVersion, uploader>> /\ \A o \in Pages : TaskStatusesOn(o)' = TaskStatusesOn(o)
    <2>1. UNCHANGED <<currentVersion, uploader, regionRows, taskRows>>
      BY DEF SyncSteps, SyncReadTasks, SyncReadPage, SyncWrite, tables, work, pageRows
    <2> QED  BY <2>1 DEF TaskStatusesOn, TasksOn, TaskIds, PageOf, regionRows, taskRows
  <1>4. Derived(p)' = D /\ SavedBy(p)' = SavedBy(p)
    BY <1>1, <1>d, <1>3 DEF Derived, SavedBy
  <1>e. ASSUME NEW to, Finish(r), page' = [page EXCEPT ![p] = to],
               to = "REVIEWING" => D = "REVIEWING",
               D \in {"REVIEWING", "COMPLETED"} => to \in {D, "COMPLETED"} \/ SavedBy(p) = Mangaka,
               SavedBy(p) \in Assistants => to \in InHand
        PROVE  PageInv'
    <2>1. req'[r].pc = "idle"
      BY <1>0, <1>e DEF Finish, Idle
    <2>2. page'[p] = to /\ \A o \in Pages \ {p} : page'[o] = page[o]
      BY <1>0, <1>1, <1>e
    <2>3. Settled(p)'
      BY <1>4, <1>e, <2>2 DEF Settled
    <2>4. PageTold(req[r])'
      BY <2>1 DEF PageTold
    <2> QED  BY <1>1, <1>2, <1>3, <1>4, <1>e, <2>1, <2>2, <2>3, <2>4, OnePageMoves DEF SyncPcs
  <1>s. ASSUME UNCHANGED page, req'[r].pc \in SyncPcs, req'[r].page = p, PageTold(req[r])'
        PROVE  PageInv'
    <2>1. Settling(p)'
      BY <1>d, <1>2, <1>4, <1>s DEF Settling
    <2> QED  BY <1>1, <1>2, <1>3, <1>4, <1>s, <2>1, OnePageMoves
  <1>5. CASE SyncReadTasks(r)
    <2>1. UNCHANGED page
      BY <1>5 DEF SyncReadTasks, tables, work, pageRows
    <2>2. CASE Finish(r)
      <3>1. D = NoStatus
        <4>1. CASE D # NoStatus
          <5>1. req'[r].pc = "sync_page"
            BY <1>0, <1>1, <1>d, <1>5, <4>1 DEF SyncReadTasks, Derived, Request
          <5> QED  BY <1>0, <2>2, <5>1 DEF Finish, Idle
        <4> QED  BY <4>1
      <3>2. page' = [page EXCEPT ![p] = page[p]]
        BY <1>0, <2>1
      <3> QED  BY <1>d, <1>2, <2>2, <3>1, <3>2, <1>e DEF Settling, NoStatus
    <2>3. CASE ~Finish(r)
      <3>1. req'[r].pc = "sync_page" /\ req'[r].page = p /\ req'[r].target = D
        BY <1>0, <1>1, <1>d, <1>5, <2>3 DEF SyncReadTasks, Derived, Request
      <3>2. PageTold(req[r])'
        BY <1>4, <3>1 DEF PageTold
      <3> QED  BY <1>s, <2>1, <3>1, <3>2 DEF SyncPcs
    <2> QED  BY <2>2, <2>3
  <1>6. CASE SyncReadPage(r)
    <2>1. UNCHANGED page /\ req[r].target = D
      BY <1>0, <1>1, <1>d, <1>6 DEF SyncReadPage, tables, work, pageRows, PageTold, At
    <2>2. CASE syncTarget(page[p], D) = NoStatus
      <3>1. Finish(r)
        BY <1>1, <1>6, <2>1, <2>2 DEF SyncReadPage
      <3>2. page' = [page EXCEPT ![p] = page[p]]
        BY <1>0, <2>1
      <3>3. page[p] = "REVIEWING" => D \notin {"COMPLETED", "IN_PROGRESS"}
        BY <2>2, SyncTargets DEF NoStatus
      <3>4. page[p] = "IN_PROGRESS" => D # "REVIEWING"
        BY <2>2, SyncTargets DEF NoStatus
      <3> QED  BY <1>d, <1>2, <3>1, <3>2, <3>3, <3>4, <1>e DEF Settling, InHand
    <2>3. CASE syncTarget(page[p], D) # NoStatus
      <3>1. Goto(r, "sync_write")
        BY <1>1, <1>6, <2>1, <2>3 DEF SyncReadPage
      <3>2. req'[r].pc = "sync_write" /\ req'[r].page = p /\ req'[r].target = D
        BY <1>0, <1>1, <2>1, <3>1 DEF Goto, Request
      <3>3. PageTold(req[r])'
        BY <1>4, <2>1, <2>3, <3>2 DEF PageTold
      <3> QED  BY <1>s, <2>1, <3>2, <3>3 DEF SyncPcs
    <2> QED  BY <2>2, <2>3
  <1>7. CASE SyncWrite(r)
    <2>1. req[r].target = D /\ syncTarget(page[p], D) # NoStatus
      BY <1>0, <1>1, <1>d, <1>7 DEF SyncWrite, PageTold, At
    <2>2. page' = [page EXCEPT ![p] = D] /\ Finish(r)
      BY <1>1, <1>7, <2>1 DEF SyncWrite
    <2>3. page[p] \in InHand => D \in InHand
      BY <2>1, SyncTargets
    <2> QED  BY <1>2, <2>2, <2>3, <1>e
  <1> QED  BY <1>5, <1>6, <1>7 DEF SyncSteps

\* A task that moves towards its review, and the sync of its page begins.
LEMMA SyncBegins ==
    ASSUME TypeInv, OneSlot, PageInv, NEW r \in Reqs, req[r].pc \notin SyncPcs, NEW p \in ExistingPages,
           StartSync(r, p), UNCHANGED pageRows,
           \A o \in Pages \ {p} : TaskStatusesOn(o)' = TaskStatusesOn(o),
           TaskStatusesOn(p)' # {"APPROVED"},
           page[p] = "REVIEWING" => Derived(p)' \in {"REVIEWING", "IN_PROGRESS"},
           Derived(p)' = "REVIEWING" => page[p] \in InHand \/ SavedBy(p) = Mangaka
    PROVE  PageInv'
  <1>1. req'[r].pc = "sync_tasks" /\ req'[r].page = p
    BY DEF TypeInv, TypeOK, StartSync, Idle
  <1>2. p \in Pages /\ UNCHANGED <<page, currentVersion, uploader>> /\ SavedBy(p)' = SavedBy(p)
    BY DEF ExistingPages, pageRows, SavedBy
  <1>3. Derived(p)' # "COMPLETED"
    BY <1>2, DerivedFrom DEF Derived
  <1>4. Settling(p)'
    BY <1>2, <1>3 DEF Settling
  <1>5. PageTold(req[r])'
    BY <1>1 DEF PageTold
  <1>6. uploader[p][1] \notin Assistants /\ (SavedBy(p) \in Assistants => page[p] \in InHand)
    BY <1>2 DEF PageInv
  <1> QED  BY <1>1, <1>2, <1>4, <1>5, <1>6, OnePageMoves DEF SyncPcs

\* A page that no sync is working on is settled.
LEMMA PageIsSettled ==
    ASSUME OneSlot, PageInv, NEW r \in Reqs, req[r].pc \notin SyncPcs, NEW p \in ExistingPages
    PROVE  Settled(p)
  <1> QED  BY DEF OneSlot, PageInv, Syncing

\* An open task keeps its page from a review.
LEMMA OpenPageIsNotReviewed ==
    ASSUME TypeInv, OneSlot, PageInv, NEW r \in Reqs, req[r].pc \notin SyncPcs,
           NEW t \in TaskIds, task[t] \in OpenWork
    PROVE  page[PageOf(t)] # "REVIEWING"
  <1>1. PageOf(t) \in ExistingPages
    BY TaskIsOnPage
  <1>2. task[t] \in TaskStatusesOn(PageOf(t))
    BY DEF TaskStatusesOn, TasksOn
  <1>3. Derived(PageOf(t)) # "REVIEWING"
    BY <1>2, DerivedFrom DEF Derived, OpenWork
  <1> QED  BY <1>1, <1>3, PageIsSettled DEF Settled

\* The statements of TaskService.
LEMMA TaskStepsKeepPages ==
    ASSUME TypeInv, OneSlot, SerialInv, PageInv, NEW r \in Reqs, TaskSteps(r)
    PROVE  PageInv'
  <1>0. req \in [Reqs -> Request] /\ WorkTold(req[r]) /\ req[r].pc \notin SyncPcs
    BY OwnTold DEF TypeInv, TypeOK, TaskSteps, AssignCheckRegion, AssignInsert, StartWrite, At, SyncPcs
  <1>e. ASSUME UNCHANGED tables, Finish(r) \/ Goto(r, "assign_insert")
        PROVE  PageInv'
    <2>1. req'[r].pc \in {"idle", "assign_insert"}
      BY <1>0, <1>e DEF Finish, Goto, Idle, Request
    <2>2. UNCHANGED <<page, currentVersion, uploader, task, taskRegion, regionPage>>
      BY <1>e DEF tables, work, pageRows, taskRows, regionRows
    <2> QED  BY <1>0, <2>1, <2>2, UnreadPagesStay DEF SyncPcs, SubmitPcs, PageOf
  <1>1. CASE AssignCheckRegion(r)
    BY <1>1, <1>e DEF AssignCheckRegion
  <1>2. CASE AssignInsert(r)
    <2>1. CASE Finish(r) /\ UNCHANGED tables
      BY <1>e, <2>1
    <2>2. CASE ~(Finish(r) /\ UNCHANGED tables)
      <3>1. PICK t \in Tasks : /\ TaskIds = 1 .. (t - 1)
                               /\ task' = [task EXCEPT ![t] = "ASSIGNED"]
                               /\ taskRegion' = [taskRegion EXCEPT ![t] = req[r].region]
                               /\ StartSync(r, regionPage[req[r].region])
                               /\ UNCHANGED <<pageRows, regionPage>>
        BY <1>2, <2>2 DEF AssignInsert, regionRows
      <3>2. PICK g \in Regions : g = req[r].region /\ region[g] # Absent
        BY <1>2 DEF AssignInsert, At, TypeInv, RequestsFitRows, Fits
      <3>3. regionPage[g] \in ExistingPages
        BY <3>2 DEF TypeInv, RowsAreConnected
      <3>4. PICK p \in ExistingPages : p = regionPage[g] /\ StartSync(r, p)
        BY <3>1, <3>2, <3>3
      <3>5. t \notin TaskIds
        BY <3>1, BoundsAssumption DEF Tasks
      <3>6. /\ TaskIds' = TaskIds \cup {t} /\ task'[t] = "ASSIGNED" /\ PageOf(t)' = p
            /\ \A u \in TaskIds : task'[u] = task[u] /\ PageOf(u)' = PageOf(u)
        BY <3>1, <3>2, <3>4, <3>5 DEF TypeInv, TypeOK, TaskIds, PageOf, Absent
      <3>7. TaskStatusesOn(p)' = TaskStatusesOn(p) \cup {"ASSIGNED"}
        <4>1. TasksOn(p)' = TasksOn(p) \cup {t}
          BY <3>6 DEF TasksOn
        <4>2. \A u \in TasksOn(p) : task'[u] = task[u]
          BY <3>6 DEF TasksOn
        <4> QED  BY <3>6, <4>1, <4>2 DEF TaskStatusesOn
      <3>8. \A o \in Pages \ {p} : TaskStatusesOn(o)' = TaskStatusesOn(o)
        <4>1. \A o \in Pages \ {p} : TasksOn(o)' = TasksOn(o)
          BY <3>6 DEF TasksOn
        <4>2. \A o \in Pages \ {p} : \A u \in TasksOn(o) : task'[u] = task[u]
          BY <3>6 DEF TasksOn
        <4> QED  BY <4>1, <4>2 DEF TaskStatusesOn
      <3>9. Derived(p)' \in {"ASSIGNED", "IN_PROGRESS"}
        BY <3>7, DerivedFrom DEF Derived
      <3>10. page[p] = "REVIEWING" => Derived(p)' = "IN_PROGRESS"
        <4>1. page[p] = "REVIEWING" => "SUBMITTED" \in TaskStatusesOn(p)
          BY <1>0, PageIsSettled, DerivedFrom DEF Settled, Derived
        <4>2. Derived(p)' = "ASSIGNED" => TaskStatusesOn(p)' = {"ASSIGNED"}
          BY DerivedFrom DEF Derived
        <4> QED  BY <3>7, <3>9, <4>1, <4>2
      <3> QED  BY <1>0, <3>1, <3>4, <3>7, <3>8, <3>9, <3>10, SyncBegins
    <2> QED  BY <2>1, <2>2
  <1>3. CASE StartWrite(r)
    <2>1. PICK t \in TaskIds : t = req[r].task
      BY <1>3 DEF TypeInv, RequestsFitRows, Fits, StartWrite, At
    <2>2. task[t] \in OpenWork
      BY <1>0, <1>3, <2>1 DEF StartWrite, At, WorkTold, canTransition, TASK_TRANSITIONS, OpenWork
    <2>3. /\ task' = [task EXCEPT ![t] = "IN_PROGRESS"] /\ StartSync(r, PageOf(t))
          /\ UNCHANGED <<pageRows, taskRegion, regionPage>>
      BY <1>3, <2>1 DEF StartWrite, regionRows
    <2>4. PICK p \in ExistingPages : p = PageOf(t)
      BY TaskIsOnPage
    <2>5. /\ TaskStatusesOn(p)' = {"IN_PROGRESS"} \cup OtherStatuses(t)
          /\ \A o \in Pages \ {p} : TaskStatusesOn(o)' = TaskStatusesOn(o)
      BY <2>3, <2>4, OneTaskMoves DEF Absent
    <2>6. Derived(p)' # "REVIEWING"
      <3>1. "IN_PROGRESS" \in TaskStatusesOn(p)'
        BY <2>5
      <3> QED  BY <3>1, DerivedFrom DEF Derived
    <2>7. page[p] # "REVIEWING"
      BY <1>0, <2>2, <2>4, OpenPageIsNotReviewed
    <2>8. /\ StartSync(r, p) /\ TaskStatusesOn(p)' # {"APPROVED"}
          /\ \A o \in Pages \ {p} : TaskStatusesOn(o)' = TaskStatusesOn(o)
      BY <2>3, <2>4, <2>5
    <2> QED  BY <1>0, <2>3, <2>6, <2>7, <2>8, SyncBegins
  <1> QED  BY <1>1, <1>2, <1>3 DEF TaskSteps

\* The statements of SubmissionService.
LEMMA SubmissionStepsKeepPages ==
    ASSUME TypeInv, OneSlot, SerialInv, PageInv, NEW r \in Reqs, SubmissionSteps(r)
    PROVE  PageInv'
  <1>0. /\ req \in [Reqs -> Request] /\ WorkTold(req[r]) /\ PageTold(req[r]) /\ req[r].pc \notin SyncPcs
        /\ page \in [Pages -> PageStatus \cup {Absent}]
    BY OwnTold DEF PageInv, TypeInv, TypeOK, SubmissionSteps, SubmitVersion, SubmitCheckStudio, SubmitInsert,
       SubmitWrite, ReviewBegin, ReviewCommit, At, SyncPcs
  <1>e. ASSUME UNCHANGED <<pageRows, taskRows, regionRows>>, req'[r].pc \notin SyncPcs, PageTold(req[r])'
        PROVE  PageInv'
    <2>1. \A p \in Pages : TaskStatusesOn(p)' = TaskStatusesOn(p)
      BY <1>e DEF taskRows, regionRows, TaskStatusesOn, TasksOn, TaskIds, PageOf
    <2> QED  BY <1>0, <1>e, <2>1, PagesStay DEF pageRows
  <1>f. ASSUME UNCHANGED tables, Finish(r) PROVE PageInv'
    <2>1. req'[r].pc = "idle"
      BY <1>0, <1>f DEF Finish, Idle
    <2>2. PageTold(req[r])'
      BY <2>1 DEF PageTold
    <2> QED  BY <1>e, <1>f, <2>1, <2>2 DEF tables, work, SyncPcs
  <1>1. CASE SubmitVersion(r)
    <2>1. CASE Finish(r)
      BY <1>1, <1>f, <2>1 DEF SubmitVersion
    <2>2. CASE ~Finish(r)
      <3>1. req'[r].pc = "submit_studio" /\ req'[r].user = req[r].user /\ req[r].pc = "submit_version"
        BY <1>0, <1>1, <2>2 DEF SubmitVersion, Request, At
      <3>2. PageTold(req[r])'
        BY <1>0, <3>1 DEF PageTold
      <3> QED  BY <1>1, <1>e, <3>1, <3>2 DEF SubmitVersion, tables, work, SyncPcs
    <2> QED  BY <2>1, <2>2
  <1>2. CASE SubmitCheckStudio(r)
    <2>1. CASE Finish(r)
      BY <1>2, <1>f, <2>1 DEF SubmitCheckStudio
    <2>2. CASE ~Finish(r)
      <3>1. /\ Goto(r, "submit_insert") /\ UNCHANGED tables /\ req[r].pc = "submit_studio"
            /\ SavedInStudioBy(req[r].user, PageOf(req[r].task))
        BY <1>2, <2>2 DEF SubmitCheckStudio, At
      <3>2. SavedBy(PageOf(req[r].task)) \in Assistants
        BY <1>0, <3>1 DEF SavedInStudioBy, HasCurrentVersion, VersionsOf, SavedBy, PageTold
      <3>3. req'[r].pc = "submit_insert" /\ req'[r].task = req[r].task
        BY <1>0, <3>1 DEF Goto, Request
      <3>4. PageTold(req[r])'
        BY <3>1, <3>2, <3>3 DEF PageTold, SavedBy, PageOf, tables, work, pageRows, taskRows, regionRows
      <3> QED  BY <1>e, <3>1, <3>3, <3>4 DEF tables, work, SyncPcs
    <2> QED  BY <2>1, <2>2
  <1>3. CASE SubmitInsert(r)
    <2>1. CASE Finish(r) /\ UNCHANGED tables
      BY <1>f, <2>1
    <2>2. CASE ~(Finish(r) /\ UNCHANGED tables)
      <3>1. /\ Goto(r, "submit_write") /\ UNCHANGED <<pageRows, regionRows, taskRows>>
            /\ req[r].pc = "submit_insert"
        BY <1>3, <2>2 DEF SubmitInsert, At
      <3>2. req'[r].pc = "submit_write" /\ req'[r].task = req[r].task
        BY <1>0, <3>1 DEF Goto, Request
      <3>3. PageTold(req[r])'
        BY <1>0, <3>1, <3>2 DEF PageTold, SavedBy, PageOf, pageRows, taskRows, regionRows
      <3> QED  BY <1>e, <3>1, <3>2, <3>3 DEF SyncPcs
    <2> QED  BY <2>1, <2>2
  <1>4. CASE SubmitWrite(r)
    <2>1. PICK t \in TaskIds : t = req[r].task
      BY <1>4 DEF TypeInv, RequestsFitRows, Fits, SubmitWrite, At
    <2>2. task[t] \in OpenWork /\ SavedBy(PageOf(t)) \in Assistants
      BY <1>0, <1>4, <2>1 DEF SubmitWrite, At, WorkTold, SubmitPcs, PageTold, canTransition, TASK_TRANSITIONS,
         OpenWork
    <2>3. /\ task' = [task EXCEPT ![t] = "SUBMITTED"] /\ StartSync(r, PageOf(t))
          /\ UNCHANGED <<pageRows, taskRegion, regionPage>>
      BY <1>4, <2>1 DEF SubmitWrite, regionRows
    <2>4. PICK p \in ExistingPages : p = PageOf(t)
      BY TaskIsOnPage
    <2>5. /\ TaskStatusesOn(p)' = {"SUBMITTED"} \cup OtherStatuses(t)
          /\ \A o \in Pages \ {p} : TaskStatusesOn(o)' = TaskStatusesOn(o)
      BY <2>3, <2>4, OneTaskMoves DEF Absent
    <2>6. page[p] # "REVIEWING" /\ page[p] \in InHand
      BY <1>0, <2>2, <2>4, OpenPageIsNotReviewed DEF PageInv
    <2>7. TaskStatusesOn(p)' # {"APPROVED"}
      BY <2>5
    <2> QED  BY <1>0, <2>3, <2>4, <2>5, <2>6, <2>7, SyncBegins
  <1>5. CASE ReviewBegin(r)
    <2>1. PICK t \in TaskIds, d \in Decisions : t = req[r].task /\ d = req[r].status
      BY <1>5 DEF TypeInv, RequestsFitRows, Fits, ReviewBegin, At
    <2>2. PICK n : n = syncTarget(page[PageOf(t)], derivePageStatus({d} \cup OtherStatuses(t)))
      OBVIOUS
    <2>3. req' = [req EXCEPT ![r].pc = "review_commit", ![r].target = n] /\ UNCHANGED tables
      BY <1>5, <2>1, <2>2 DEF ReviewBegin, OtherStatuses
    <2>4. /\ req'[r].pc = "review_commit" /\ req'[r].task = t /\ req'[r].status = d /\ req'[r].target = n
      BY <1>0, <2>1, <2>3 DEF Request
    <2>5. PageTold(req[r])'
      BY <2>2, <2>3, <2>4 DEF PageTold, OtherStatuses, TasksOn, TaskIds, PageOf, tables, work, pageRows, taskRows,
         regionRows
    <2> QED  BY <1>e, <2>3, <2>4, <2>5 DEF tables, work, SyncPcs
  <1>6. CASE ReviewCommit(r)
    <2>1. PICK t \in TaskIds, d \in Decisions : t = req[r].task /\ d = req[r].status
      BY <1>6 DEF TypeInv, RequestsFitRows, Fits, ReviewCommit, At
    <2>2. PICK p \in ExistingPages : p = PageOf(t)
      BY TaskIsOnPage
    <2>3. PICK D : D = derivePageStatus({d} \cup OtherStatuses(t))
      OBVIOUS
    <2>4. PICK to : to = IF syncTarget(page[p], D) = NoStatus THEN page[p] ELSE D
      OBVIOUS
    <2>5. p \in Pages /\ task[t] = "SUBMITTED" /\ req[r].target = syncTarget(page[p], D)
      BY <1>0, <1>6, <2>1, <2>2, <2>3 DEF ReviewCommit, At, WorkTold, ReviewPcs, PageTold, ExistingPages
    <2>6. /\ task' = [task EXCEPT ![t] = d] /\ Finish(r)
          /\ page' = IF req[r].target = NoStatus THEN page ELSE [page EXCEPT ![p] = req[r].target]
          /\ UNCHANGED <<currentVersion, uploader, taskRegion, regionPage>>
      BY <1>6, <2>1, <2>2 DEF ReviewCommit, regionRows
    <2>7. page'[p] = to /\ \A o \in Pages \ {p} : page'[o] = page[o]
      BY <1>0, <2>4, <2>5, <2>6, SyncTargets
    <2>8. /\ TaskStatusesOn(p) = {"SUBMITTED"} \cup OtherStatuses(t)
          /\ TaskStatusesOn(p)' = {d} \cup OtherStatuses(t)
          /\ \A o \in Pages \ {p} : TaskStatusesOn(o)' = TaskStatusesOn(o)
      BY <2>2, <2>5, <2>6, OneTaskMoves DEF Absent, Decisions
    <2>9. Derived(p)' = D /\ SavedBy(p)' = SavedBy(p)
      BY <2>3, <2>6, <2>8 DEF Derived, SavedBy
    <2>10. D \in InHand
      BY <2>3, DerivedFrom DEF Decisions
    <2>11. Settled(p)
      BY <1>0, PageIsSettled
    <2>12. to = "REVIEWING" => D = "REVIEWING"
      BY <2>4, <2>10, SyncTargets DEF InHand, NoStatus
    <2>13. D \in {"REVIEWING", "COMPLETED"} => to \in {D, "COMPLETED"} \/ SavedBy(p) = Mangaka
      <3>1. ASSUME D \in {"REVIEWING", "COMPLETED"} PROVE Derived(p) = "REVIEWING"
        <4>1. {d} \cup OtherStatuses(t) \subseteq {"SUBMITTED", "APPROVED"}
          BY <2>3, <3>1, DerivedFrom
        <4> QED  BY <2>8, <4>1, DerivedFrom DEF Derived
      <3>2. ASSUME page[p] = "REVIEWING", D = "COMPLETED" PROVE to = D
        BY <2>4, <3>2, SyncTargets DEF NoStatus
      <3>3. page[p] = "COMPLETED" => to = "COMPLETED"
        BY <2>4 DEF syncTarget, canTransition, PAGE_TRANSITIONS
      <3>4. page[p] = "REVIEWING" /\ D = "REVIEWING" => to = D
        BY <2>4
      <3> QED  BY <2>11, <3>1, <3>2, <3>3, <3>4 DEF Settled
    <2>14. SavedBy(p) \in Assistants => to \in InHand
      BY <2>4, <2>10 DEF PageInv
    <2>15. req'[r].pc = "idle"
      BY <1>0, <2>6 DEF Finish, Idle
    <2>16. Settled(p)' /\ PageTold(req[r])' /\ uploader[p][1] \notin Assistants
      BY <2>5, <2>7, <2>9, <2>12, <2>13, <2>15 DEF Settled, PageTold, PageInv
    <2> QED  BY <1>0, <2>5, <2>6, <2>7, <2>8, <2>9, <2>14, <2>15, <2>16, OnePageMoves DEF SyncPcs
  <1> QED  BY <1>1, <1>2, <1>3, <1>4, <1>5, <1>6 DEF SubmissionSteps

\* The statements of StudioService.
LEMMA StudioStepsKeepPages ==
    ASSUME TypeInv, SavesInv, OneSlot, PageInv, NEW r \in Reqs, StudioSteps(r)
    PROVE  PageInv'
  <1>0. /\ req \in [Reqs -> Request] /\ PageTold(req[r]) /\ req[r].pc \notin SyncPcs
        /\ page \in [Pages -> PageStatus \cup {Absent}] /\ currentVersion \in [Pages -> 0 .. MaxVersions]
        /\ uploader \in [Pages -> [Versions -> Users \cup {None}]]
    BY DEF PageInv, TypeInv, TypeOK, StudioSteps, SaveReadCurrent, SaveInsert, SaveUpdate, DocWrite, At, SyncPcs
  <1>1. UNCHANGED <<task, taskRegion, regionPage>>
    BY DEF StudioSteps, SaveReadCurrent, SaveInsert, SaveUpdate, DocWrite, tables, work, taskRows, regionRows
  <1>2. \A o \in Pages : TaskStatusesOn(o)' = TaskStatusesOn(o) /\ TasksOn(o)' = TasksOn(o)
    BY <1>1 DEF TaskStatusesOn, TasksOn, TaskIds, PageOf
  <1>3. PICK p \in Pages : p = req[r].page /\ p \in ExistingPages
    BY DEF TypeInv, RequestsFitRows, Fits, StudioSteps, SaveReadCurrent, SaveInsert, SaveUpdate, DocWrite, At,
       ExistingPages
  <1>4. Settled(p) /\ (SavedBy(p) \in Assistants => page[p] \in InHand) /\ uploader[p][1] \notin Assistants
    BY <1>0, <1>3, PageIsSettled DEF PageInv
  <1>5. currentVersion[p] \in Nat /\ currentVersion[p] # 0
    BY <1>0, <1>3, BoundsAssumption DEF SavesInv, VersionsContiguous
  <1>e. ASSUME UNCHANGED <<page, currentVersion, uploader>>, Finish(r)
        PROVE  PageInv'
    <2>1. req'[r].pc = "idle"
      BY <1>0, <1>e DEF Finish, Idle
    <2> QED  BY <1>0, <1>1, <1>e, <2>1, UnreadPagesStay DEF SyncPcs, SubmitPcs, PageOf
  <1>6. CASE SaveReadCurrent(r)
    <2>1. UNCHANGED <<page, currentVersion, uploader>>
      BY <1>6 DEF SaveReadCurrent, tables, work, pageRows
    <2>2. CASE Finish(r)
      BY <1>e, <2>1, <2>2
    <2>3. CASE ~Finish(r)
      <3>1. /\ req'[r].pc = "save_insert" /\ req'[r].page = p /\ req'[r].user = req[r].user
            /\ req'[r].num = currentVersion[p] + 1 /\ req[r].pc = "save_current"
        BY <1>0, <1>3, <1>6, <2>3 DEF SaveReadCurrent, Request, At
      <3>2. PageTold(req[r])'
        BY <1>0, <1>1, <1>2, <1>3, <2>1, <3>1 DEF PageTold
      <3> QED  BY <1>0, <1>2, <2>1, <3>1, <3>2, PagesStay DEF SyncPcs
    <2> QED  BY <2>2, <2>3
  <1>7. CASE SaveInsert(r)
    <2>1. CASE Finish(r) /\ UNCHANGED tables
      BY <1>e, <2>1 DEF tables, work, pageRows
    <2>2. CASE ~(Finish(r) /\ UNCHANGED tables)
      <3>1. PICK n \in Versions : n = req[r].num
        BY <1>7 DEF SaveInsert, At, TypeInv, RequestsFitRows, Fits
      <3>2. PICK u \in Users : u = req[r].user
        BY <1>7 DEF SaveInsert, At, TypeInv, RequestsFitRows, Fits
      <3>3. /\ uploader' = [uploader EXCEPT ![p][n] = u] /\ Goto(r, "save_update")
            /\ UNCHANGED <<page, currentVersion>> /\ req[r].pc = "save_insert"
        BY <1>3, <1>7, <2>2, <3>1, <3>2 DEF SaveInsert, At
      <3>4. /\ req'[r].pc = "save_update" /\ req'[r].page = p /\ req'[r].user = u /\ req'[r].num = n
        BY <1>0, <1>3, <3>1, <3>2, <3>3 DEF Goto, Request
      <3>5. n = currentVersion[p] + 1
        BY <1>0, <1>3, <3>1, <3>3 DEF PageTold
      <3>6. /\ uploader'[p][n] = u /\ uploader'[p][1] = uploader[p][1]
            /\ uploader'[p][currentVersion[p]] = uploader[p][currentVersion[p]]
            /\ \A o \in Pages \ {p} : uploader'[o] = uploader[o]
        BY <1>0, <1>5, <3>3, <3>5
      <3>7. Derived(p)' = Derived(p) /\ SavedBy(p)' = SavedBy(p)
        BY <1>2, <3>3, <3>6 DEF Derived, SavedBy
      <3>8. Settled(p)'
        BY <1>4, <3>3, <3>7 DEF Settled
      <3>9. PageTold(req[r])'
        BY <1>0, <1>1, <1>2, <1>3, <3>1, <3>2, <3>3, <3>4, <3>5, <3>6 DEF PageTold
      <3> QED  BY <1>0, <1>2, <1>4, <3>3, <3>4, <3>6, <3>7, <3>8, <3>9, OnePageMoves DEF SyncPcs
    <2> QED  BY <2>1, <2>2
  <1>8. CASE SaveUpdate(r)
    <2>1. PICK n \in Versions : n = req[r].num
      BY <1>8 DEF SaveUpdate, At, TypeInv, RequestsFitRows, Fits
    <2>2. /\ currentVersion' = [currentVersion EXCEPT ![p] = n] /\ page' = [page EXCEPT ![p] = "IN_PROGRESS"]
          /\ Finish(r) /\ UNCHANGED uploader /\ req[r].pc = "save_update"
      BY <1>3, <1>8, <2>1 DEF SaveUpdate, At
    <2>3. /\ currentVersion'[p] = n /\ page'[p] = "IN_PROGRESS" /\ uploader[p][n] = req[r].user
          /\ \A o \in Pages \ {p} : currentVersion'[o] = currentVersion[o] /\ page'[o] = page[o]
      BY <1>0, <1>3, <2>1, <2>2 DEF PageTold
    <2>4. Derived(p)' = Derived(p) /\ SavedBy(p)' = req[r].user
      BY <1>2, <2>2, <2>3 DEF Derived, SavedBy
    <2>5. Derived(p) \in {"REVIEWING", "COMPLETED"} => req[r].user = Mangaka
      <3>1. ASSUME NEW t \in TasksOn(p), task[t] \in OpenWork
            PROVE  Derived(p) \notin {"REVIEWING", "COMPLETED"}
        <4>1. task[t] \in TaskStatusesOn(p)
          BY DEF TaskStatusesOn
        <4> QED  BY <3>1, <4>1, DerivedFrom DEF Derived, OpenWork
      <3>2. req[r].user = Mangaka \/ \E t \in TasksOn(p) : task[t] \in OpenWork
        BY <1>0, <1>3, <2>2 DEF PageTold
      <3> QED  BY <3>1, <3>2
    <2>6. Settled(p)'
      BY <2>3, <2>4, <2>5 DEF Settled
    <2>7. req'[r].pc = "idle"
      BY <1>0, <2>2 DEF Finish, Idle
    <2>8. PageTold(req[r])'
      BY <2>7 DEF PageTold
    <2> QED  BY <1>0, <1>2, <1>4, <2>2, <2>3, <2>6, <2>7, <2>8, OnePageMoves DEF SyncPcs, InHand
  <1>9. CASE DocWrite(r)
    BY <1>9, <1>e DEF DocWrite
  <1> QED  BY <1>6, <1>7, <1>8, <1>9 DEF StudioSteps

\* The statements of PageService.
LEMMA PageStepsKeepPages ==
    ASSUME TypeInv, SavesInv, OneSlot, PageInv, NEW r \in Reqs, PageSteps(r)
    PROVE  PageInv'
  <1>0. /\ req \in [Reqs -> Request] /\ req[r].pc \notin SyncPcs
        /\ page \in [Pages -> PageStatus \cup {Absent}] /\ currentVersion \in [Pages -> 0 .. MaxVersions]
        /\ uploader \in [Pages -> [Versions -> Users \cup {None}]]
    BY DEF TypeInv, TypeOK, PageSteps, PageReadNumber, PageInsert, PageInsertVersion, RegionCheckVersion,
       RegionInsert, RegionDelete, At, SyncPcs
  <1>1. UNCHANGED <<task, taskRegion>>
    BY DEF PageSteps, PageReadNumber, PageInsert, PageInsertVersion, RegionCheckVersion, RegionInsert,
       RegionDelete, tables, work, taskRows
  <1>p. req'[r].pc \in {"idle", "page_insert", "page_version", "region_insert"}
    BY <1>0 DEF PageSteps, PageReadNumber, PageInsert, PageInsertVersion, RegionCheckVersion, RegionInsert,
       RegionDelete, Finish, Goto, Idle, Request
  <1>t. PageTold(req[r])' /\ req'[r].pc \notin SyncPcs
    BY <1>p DEF PageTold, SyncPcs
  <1>e. ASSUME UNCHANGED <<page, currentVersion, uploader>>, \A t \in TaskIds : PageOf(t)' = PageOf(t)
        PROVE  PageInv'
    BY <1>0, <1>1, <1>p, <1>e, UnreadPagesStay DEF SyncPcs, SubmitPcs
  <1>2. CASE PageReadNumber(r) \/ RegionCheckVersion(r) \/ RegionDelete(r)
    BY <1>1, <1>2, <1>e DEF PageReadNumber, RegionCheckVersion, RegionDelete, tables, work, pageRows, regionRows,
       PageOf
  <1>3. CASE RegionInsert(r)
    <2>1. \A t \in TaskIds : PageOf(t)' = PageOf(t)
      BY <1>1, <1>3 DEF RegionInsert, TypeInv, TypeOK, RowsAreConnected, PageOf, TaskIds, Absent, tables, work,
         regionRows
    <2> QED  BY <1>3, <1>e, <2>1 DEF RegionInsert, tables, work, pageRows
  <1>4. CASE PageInsert(r)
    <2>1. CASE UNCHANGED tables
      BY <1>1, <1>e, <2>1 DEF tables, work, pageRows, regionRows, PageOf
    <2>2. CASE ~(UNCHANGED tables)
      <3>1. PICK p \in Pages : p = req[r].page
        BY <1>4 DEF PageInsert, At, TypeInv, RequestsFitRows, Fits
      <3>2. /\ p \notin ExistingPages /\ page' = [page EXCEPT ![p] = "RAW"]
            /\ currentVersion' = [currentVersion EXCEPT ![p] = 1] /\ UNCHANGED <<uploader, regionPage>>
        BY <1>4, <2>2, <3>1 DEF PageInsert, regionRows
      <3>3. \A o \in Pages : TasksOn(o)' = TasksOn(o) /\ TaskStatusesOn(o)' = TaskStatusesOn(o)
        BY <1>1, <3>2 DEF TaskStatusesOn, TasksOn, TaskIds, PageOf
      <3>4. TasksOn(p) = {}
        BY <3>2, TaskIsOnPage DEF TasksOn
      <3>5. Derived(p)' = NoStatus
        BY <3>3, <3>4, DerivedFrom DEF Derived, TaskStatusesOn
      <3>6. page'[p] = "RAW" /\ currentVersion'[p] = 1 /\ uploader[p][1] \notin Assistants
        BY <1>0, <3>2 DEF PageInv
      <3>7. Settled(p)' /\ SavedBy(p)' \notin Assistants
        BY <3>2, <3>5, <3>6 DEF Settled, SavedBy, NoStatus
      <3>8. \A o \in Pages \ {p} : page'[o] = page[o] /\ currentVersion'[o] = currentVersion[o]
        BY <1>0, <3>2
      <3> QED  BY <1>0, <1>t, <3>2, <3>3, <3>6, <3>7, <3>8, OnePageMoves
    <2> QED  BY <2>1, <2>2
  <1>5. CASE PageInsertVersion(r)
    <2>1. PICK p \in ExistingPages : p = req[r].page
      BY <1>5 DEF PageInsertVersion, At, TypeInv, RequestsFitRows, Fits
    <2>2. /\ uploader' = [uploader EXCEPT ![p][1] = Mangaka] /\ UNCHANGED <<page, currentVersion, regionPage>>
      BY <1>5, <2>1 DEF PageInsertVersion, regionRows
    <2>3. \A o \in Pages : TaskStatusesOn(o)' = TaskStatusesOn(o)
      BY <1>1, <2>2 DEF TaskStatusesOn, TasksOn, TaskIds, PageOf
    <2>4. p \in Pages /\ Settled(p) /\ (SavedBy(p) \in Assistants => page[p] \in InHand)
      BY <1>0, PageIsSettled DEF PageInv, ExistingPages
    <2>5. /\ uploader'[p][1] = Mangaka /\ \A o \in Pages \ {p} : uploader'[o] = uploader[o]
          /\ uploader'[p][currentVersion[p]] \in {uploader[p][currentVersion[p]], Mangaka}
      BY <1>0, <2>2, <2>4, BoundsAssumption DEF Versions
    <2>6. Derived(p)' = Derived(p) /\ SavedBy(p)' \in {SavedBy(p), Mangaka}
      BY <2>2, <2>3, <2>4, <2>5 DEF Derived, SavedBy
    <2>7. Settled(p)' /\ (SavedBy(p)' \in Assistants => page'[p] \in InHand)
      BY <2>2, <2>4, <2>6, NamesAssumption DEF Settled
    <2> QED  BY <1>0, <1>t, <2>2, <2>3, <2>4, <2>5, <2>7, NamesAssumption, OnePageMoves
  <1> QED  BY <1>2, <1>3, <1>4, <1>5 DEF PageSteps

\* The statements of ChapterService leave the pages alone.
LEMMA ChapterStepsKeepPages ==
    ASSUME TypeInv, OneSlot, PageInv, NEW r \in Reqs, ChapterSteps(r)
    PROVE  PageInv'
  <1> USE DEF ChapterSteps, SetStatusCheckReadiness, EditorCheckReadiness, SetStatusWrite, EditorReviewWrite,
              BoardReviewWrite, WriteChapter
  <1>1. UNCHANGED <<page, currentVersion, uploader, task, taskRegion, regionPage>>
    BY DEF tables, work, pageRows, taskRows, regionRows
  <1>2. req[r].pc \notin SyncPcs
    BY DEF At, SyncPcs
  <1>3. req'[r].pc \in {"idle", "status_write", "editor_write"}
    BY DEF TypeInv, TypeOK, Finish, Goto, Idle, Request
  <1> QED  BY <1>1, <1>2, <1>3, UnreadPagesStay DEF SyncPcs, SubmitPcs, PageOf

\* A call reads who may write a page.
LEMMA CallKeepsPages ==
    ASSUME TypeInv, OneSlot, PageInv, NEW r \in Reqs, Call(r)
    PROVE  PageInv'
  <1>0. UNCHANGED <<pageRows, taskRows, regionRows>>
    <2>1. UNCHANGED tables
      BY CallQuiet
    <2> QED  BY <2>1 DEF tables, work
  <1>1. \A p \in Pages : TaskStatusesOn(p)' = TaskStatusesOn(p)
    BY <1>0 DEF taskRows, regionRows, TaskStatusesOn, TasksOn, TaskIds, PageOf
  <1>f. ASSUME NEW q, Enter(r, q), q.pc \notin SyncPcs, PageTold(q) PROVE PageInv'
    <2>1. req[r].pc = "idle" /\ req'[r] = q
      BY <1>f DEF Enter, At, TypeInv, TypeOK
    <2>2. PageTold(req[r])'
      BY <1>0, <1>f, <2>1 DEF PageTold, SavedBy, Derived, TaskStatusesOn, OtherStatuses, TasksOn, TaskIds, PageOf,
         pageRows, taskRows, regionRows
    <2> QED  BY <1>0, <1>1, <1>f, <2>1, <2>2, PagesStay DEF SyncPcs, pageRows
  <1>e. ASSUME NEW q, Enter(r, q),
               q.pc \notin SyncPcs \cup SubmitPcs \cup {"save_current", "save_insert", "save_update", "review_commit"}
        PROVE  PageInv'
    BY <1>e, <1>f DEF PageTold, SyncPcs, SubmitPcs
  <1> USE DEF SyncPcs, SubmitPcs
  <1> USE DEF Idle
  <1>2. ASSUME NEW g \in Regions, NEW a \in Assistants, AssignRead(r, g, a) PROVE PageInv'
    BY <1>2, <1>e DEF AssignRead
  <1>3. ASSUME NEW t \in Tasks, StartRead(r, t) PROVE PageInv'
    BY <1>3, <1>e DEF StartRead
  <1>4. ASSUME NEW t \in Tasks, SubmitRead(r, t) PROVE PageInv'
    <2>1. assignee[t] \in Assistants \cup {None}
      BY DEF TypeInv, TypeOK
    <2>2. PageTold([Idle EXCEPT !.pc = "submit_version", !.task = t, !.user = assignee[t]])
      BY <2>1 DEF PageTold
    <2> QED  BY <1>4, <1>f, <2>2 DEF SubmitRead
  <1>5. ASSUME NEW t \in Tasks, NEW v \in SubmissionVersions, NEW d \in Decisions, ReviewRead(r, t, v, d)
        PROVE  PageInv'
    BY <1>5, <1>e DEF ReviewRead
  <1>6. ASSUME NEW u, NEW p \in Pages, SaveRead(r, u, p) PROVE PageInv'
    <2>1. u = Mangaka \/ \E t \in TasksOn(p) : task[t] \in OpenWork
      BY <1>6 DEF SaveRead, CanWritePage, OpenWork, maySave
    <2>2. PageTold([Idle EXCEPT !.pc = "save_current", !.page = p, !.user = u])
      BY <2>1 DEF PageTold
    <2> QED  BY <1>6, <1>f, <2>2 DEF SaveRead
  <1>7. ASSUME NEW u, NEW p \in Pages, DocRead(r, u, p) PROVE PageInv'
    BY <1>7, <1>e DEF DocRead
  <1>8. CASE PageCreateRead(r)
    BY <1>8, <1>e DEF PageCreateRead
  <1>9. ASSUME NEW p \in Pages, RegionCreateRead(r, p) PROVE PageInv'
    BY <1>9, <1>e DEF RegionCreateRead
  <1>10. ASSUME NEW g \in Regions, RegionDeleteRead(r, g) PROVE PageInv'
    BY <1>10, <1>e DEF RegionDeleteRead
  <1>11. ASSUME NEW target \in ChapterStatus,
                SetStatusRead(r, target) \/ EditorReviewRead(r, target) \/ BoardReviewRead(r, target)
         PROVE  PageInv'
    BY <1>11, <1>e DEF SetStatusRead, EditorReviewRead, BoardReviewRead, ChapterPcs
  <1> QED  BY <1>2, <1>3, <1>4, <1>5, <1>6, <1>7, <1>8, <1>9, <1>10, <1>11 DEF Call

\* Every step keeps the pages in step, when no request dies.
LEMMA NextKeepsPages ==
    ASSUME TypeInv, SavesInv, OneSlot, SerialInv, ~Faults, PageInv, [Next]_vars
    PROVE  PageInv'
  <1>1. CASE UNCHANGED vars
    <2>1. UNCHANGED <<page, currentVersion, uploader, task, taskRegion, regionPage, req>>
      BY <1>1 DEF vars, tables, work, pageRows, taskRows, regionRows
    <2>2. \A p : TasksOn(p)' = TasksOn(p) /\ Derived(p)' = Derived(p)
      BY <2>1 DEF Derived, TaskStatusesOn, TasksOn, TaskIds, PageOf
    <2>3. ExistingPages' = ExistingPages
      BY <2>1 DEF ExistingPages
    <2>4. \A r \in Reqs : PageTold(req[r])'
      BY <2>1, <2>2 DEF PageInv, PageTold, SavedBy, OtherStatuses, PageOf
    <2> QED  BY <2>1, <2>2, <2>3, <2>4 DEF PageInv, Syncing, Settling, Settled, SavedBy
  <1>2. ASSUME NEW r \in Reqs, Call(r) \/ Progress(r) \/ Fail(r) PROVE PageInv'
    BY <1>2, CallKeepsPages, TaskStepsKeepPages, SubmissionStepsKeepPages, SyncStepsKeepPages,
       StudioStepsKeepPages, PageStepsKeepPages, ChapterStepsKeepPages
       DEF Progress, Fail
  <1> QED  BY <1>1, <1>2 DEF Next

\* The start of a chapter.
LEMMA InitPages == Init => PageInv
  <1> SUFFICES ASSUME Init PROVE PageInv
    OBVIOUS
  <1> USE DEF Init, InitEmpty, InitDrawn
  <1>1. \A r \in Reqs : PageTold(req[r])
    BY DEF PageTold, Idle
  <1>2. \A p \in Pages : uploader[p][1] \notin Assistants
    BY NamesAssumption, BoundsAssumption DEF Versions
  <1>3. \A p : Derived(p) = NoStatus
    <2>1. \A p : TaskStatusesOn(p) = {}
      BY DEF TaskStatusesOn, TasksOn, TaskIds
    <2> QED  BY <2>1, DerivedFrom DEF Derived
  <1>4. ASSUME NEW p \in ExistingPages PROVE page[p] = "RAW" /\ SavedBy(p) \notin Assistants
    BY NamesAssumption, BoundsAssumption DEF ExistingPages, SavedBy, Pages, Versions
  <1> QED  BY <1>1, <1>2, <1>3, <1>4 DEF PageInv, Syncing, SyncPcs, Idle, Settled, NoStatus

\* One request at a time and none that dies, the status of a page follows its tasks.
THEOREM PagesFollowTasks == Spec => [](OneSlot /\ ~Faults => PageFollowsTasks)
  <1>1. /\ TypeInv /\ SavesInv /\ (OneSlot => SerialInv) /\ (OneSlot /\ ~Faults => PageInv) /\ [Next]_vars
        => (OneSlot /\ ~Faults => PageInv)'
    BY NextKeepsPages DEF OneSlot
  <1>2. (OneSlot /\ ~Faults => PageInv) => (OneSlot /\ ~Faults => PageFollowsTasks)
    BY DEF PageInv, PageFollowsTasks, Quiescent, At, Syncing, SyncPcs, Settled, Derived, SavedBy
  <1> QED  BY <1>1, <1>2, InitPages, TypeInvariant, SavesStayInOrder, SerialInvariant, PTL DEF Spec

-----------------------------------------------------------------------------
(* That every request returns is a question of fairness, and TLC's.  What of *)
(* it is safety is proved here: no handler repeats a statement, and no       *)
(* request moves another one.                                                *)

\* How many statements a handler has before it at most.
StatementsLeft(step) ==
    IF step = "idle" THEN 0
    ELSE IF step \in {"sync_write", "review_commit", "save_update", "doc_write", "page_version",
                      "region_insert", "region_delete", "status_write", "editor_write",
                      "board_write"} THEN 1
    ELSE IF step \in {"sync_page", "review_begin", "save_insert", "page_insert", "region_version",
                      "status_readiness", "editor_readiness"} THEN 2
    ELSE IF step \in {"sync_tasks", "save_current", "page_number"} THEN 3
    ELSE IF step \in {"assign_insert", "start_write", "submit_write"} THEN 4
    ELSE IF step \in {"assign_check", "submit_insert"} THEN 5
    ELSE IF step = "submit_studio" THEN 6
    ELSE 7

\* A request in flight has fewer statements before it than it had, or is left alone.
StatementsRunOut ==
    [][\A r \in Reqs :
          \/ At(r, "idle")
          \/ req'[r] = req[r]
          \/ StatementsLeft(req'[r].pc) < StatementsLeft(req[r].pc)]_vars

\* The statement of slot r is followed by a later one of its handler, or by none; the
\* other slots stay.
RunsOut(r) ==
    /\ StatementsLeft(req'[r].pc) < StatementsLeft(req[r].pc)
    /\ \A q \in Reqs \ {r} : req'[q] = req[q]

\* Where the ways to go on leave the slots.
LEMMA GoesOn ==
    ASSUME TypeOK, NEW r \in Reqs
    PROVE  /\ \A step : Goto(r, step) => req'[r].pc = step /\ \A q \in Reqs \ {r} : req'[q] = req[q]
           /\ Finish(r) => req'[r].pc = "idle" /\ \A q \in Reqs \ {r} : req'[q] = req[q]
           /\ \A p : StartSync(r, p) => req'[r].pc = "sync_tasks" /\ \A q \in Reqs \ {r} : req'[q] = req[q]
  <1>1. req \in [Reqs -> Request]
    BY DEF TypeOK
  <1>2. ASSUME NEW step, Goto(r, step)
        PROVE  req'[r].pc = step /\ \A q \in Reqs \ {r} : req'[q] = req[q]
    BY <1>1, <1>2 DEF Goto, Request
  <1>3. ASSUME Finish(r) PROVE req'[r].pc = "idle" /\ \A q \in Reqs \ {r} : req'[q] = req[q]
    BY <1>1, <1>3 DEF Finish, Idle
  <1>4. ASSUME NEW p, StartSync(r, p)
        PROVE  req'[r].pc = "sync_tasks" /\ \A q \in Reqs \ {r} : req'[q] = req[q]
    BY <1>1, <1>4 DEF StartSync, Idle
  <1> QED  BY <1>2, <1>3, <1>4

\* From one statement to a later one, or out of the handler.
LEMMA GoesDown ==
    ASSUME TypeOK, NEW r \in Reqs, NEW from, NEW to, At(r, from),
           StatementsLeft(to) < StatementsLeft(from), 0 < StatementsLeft(from),
           Goto(r, to) \/ Finish(r) \/ (to = "sync_tasks" /\ \E p : StartSync(r, p))
    PROVE  RunsOut(r)
  <1>1. req[r].pc = from
    BY DEF At
  <1>2. req'[r].pc \in {to, "idle"} /\ \A q \in Reqs \ {r} : req'[q] = req[q]
    BY GoesOn
  <1>3. StatementsLeft("idle") = 0
    BY DEF StatementsLeft
  <1> QED  BY <1>1, <1>2, <1>3 DEF RunsOut

\* The numbers of the statements that are followed by another one.
LEMMA StatementsAreNumbered ==
    /\ StatementsLeft("assign_insert") < StatementsLeft("assign_check")
    /\ StatementsLeft("sync_tasks") < StatementsLeft("assign_insert")
    /\ StatementsLeft("sync_tasks") < StatementsLeft("start_write")
    /\ StatementsLeft("submit_studio") < StatementsLeft("submit_version")
    /\ StatementsLeft("submit_insert") < StatementsLeft("submit_studio")
    /\ StatementsLeft("submit_write") < StatementsLeft("submit_insert")
    /\ StatementsLeft("sync_tasks") < StatementsLeft("submit_write")
    /\ StatementsLeft("review_commit") < StatementsLeft("review_begin")
    /\ StatementsLeft("sync_page") < StatementsLeft("sync_tasks")
    /\ StatementsLeft("sync_write") < StatementsLeft("sync_page")
    /\ StatementsLeft("save_insert") < StatementsLeft("save_current")
    /\ StatementsLeft("save_update") < StatementsLeft("save_insert")
    /\ StatementsLeft("page_insert") < StatementsLeft("page_number")
    /\ StatementsLeft("page_version") < StatementsLeft("page_insert")
    /\ StatementsLeft("region_insert") < StatementsLeft("region_version")
    /\ StatementsLeft("status_write") < StatementsLeft("status_readiness")
    /\ StatementsLeft("editor_write") < StatementsLeft("editor_readiness")
    /\ \A step : step # "idle" => 0 < StatementsLeft(step)
    /\ StatementsLeft("idle") = 0
  <1> QED  BY DEF StatementsLeft

\* The statements of tasks, submissions and of the synchronisation.
LEMMA TaskWorkRunsOut ==
    ASSUME TypeOK, NEW r \in Reqs, TaskSteps(r) \/ SubmissionSteps(r) \/ SyncSteps(r)
    PROVE  RunsOut(r)
  <1>r. req \in [Reqs -> Request]
    BY DEF TypeOK
  <1>1. CASE AssignCheckRegion(r)
    BY <1>1, GoesDown, StatementsAreNumbered DEF AssignCheckRegion
  <1>2. CASE AssignInsert(r)
    BY <1>2, GoesDown, StatementsAreNumbered DEF AssignInsert
  <1>3. CASE StartWrite(r)
    BY <1>3, GoesDown, StatementsAreNumbered DEF StartWrite
  <1>4. CASE SubmitVersion(r)
    <2>1. At(r, "submit_version") /\ (Finish(r) \/ \E n : req' = [req EXCEPT ![r].pc = "submit_studio", ![r].num = n])
      BY <1>4 DEF SubmitVersion
    <2>2. CASE Finish(r)
      BY <2>1, <2>2, GoesDown, StatementsAreNumbered
    <2>3. ASSUME NEW n, req' = [req EXCEPT ![r].pc = "submit_studio", ![r].num = n] PROVE RunsOut(r)
      <3>1. req'[r].pc = "submit_studio" /\ \A q \in Reqs \ {r} : req'[q] = req[q]
        BY <1>r, <2>3 DEF Request
      <3> QED  BY <2>1, <3>1, StatementsAreNumbered DEF RunsOut, At
    <2> QED  BY <2>1, <2>2, <2>3
  <1>5. CASE SubmitCheckStudio(r)
    BY <1>5, GoesDown, StatementsAreNumbered DEF SubmitCheckStudio
  <1>6. CASE SubmitInsert(r)
    BY <1>6, GoesDown, StatementsAreNumbered DEF SubmitInsert
  <1>7. CASE SubmitWrite(r)
    BY <1>7, GoesDown, StatementsAreNumbered DEF SubmitWrite
  <1>8. CASE ReviewBegin(r)
    <2>1. At(r, "review_begin") /\ \E x : req' = [req EXCEPT ![r].pc = "review_commit", ![r].target = x]
      BY <1>8 DEF ReviewBegin
    <2> QED  BY <1>r, <2>1, StatementsAreNumbered DEF RunsOut, At, Request
  <1>9. CASE ReviewCommit(r)
    BY <1>9, GoesDown, StatementsAreNumbered DEF ReviewCommit
  <1>10. CASE SyncReadTasks(r)
    <2>1. At(r, "sync_tasks") /\ (Finish(r) \/ \E x : req' = [req EXCEPT ![r].pc = "sync_page", ![r].target = x])
      BY <1>10 DEF SyncReadTasks
    <2>2. CASE Finish(r)
      BY <2>1, <2>2, GoesDown, StatementsAreNumbered
    <2>3. ASSUME NEW x, req' = [req EXCEPT ![r].pc = "sync_page", ![r].target = x] PROVE RunsOut(r)
      <3>1. req'[r].pc = "sync_page" /\ \A q \in Reqs \ {r} : req'[q] = req[q]
        BY <1>r, <2>3 DEF Request
      <3> QED  BY <2>1, <3>1, StatementsAreNumbered DEF RunsOut, At
    <2> QED  BY <2>1, <2>2, <2>3
  <1>11. CASE SyncReadPage(r)
    BY <1>11, GoesDown, StatementsAreNumbered DEF SyncReadPage
  <1>12. CASE SyncWrite(r)
    BY <1>12, GoesDown, StatementsAreNumbered DEF SyncWrite
  <1> QED
    BY <1>1, <1>2, <1>3, <1>4, <1>5, <1>6, <1>7, <1>8, <1>9, <1>10, <1>11, <1>12
       DEF TaskSteps, SubmissionSteps, SyncSteps

\* The statements of the Studio, of pages and regions, and of the chapter.
LEMMA PageWorkRunsOut ==
    ASSUME TypeOK, NEW r \in Reqs, StudioSteps(r) \/ PageSteps(r) \/ ChapterSteps(r)
    PROVE  RunsOut(r)
  <1>r. req \in [Reqs -> Request]
    BY DEF TypeOK
  <1>1. CASE SaveReadCurrent(r)
    <2>1. At(r, "save_current") /\ (Finish(r) \/ \E n : req' = [req EXCEPT ![r].pc = "save_insert", ![r].num = n])
      BY <1>1 DEF SaveReadCurrent
    <2>2. CASE Finish(r)
      BY <2>1, <2>2, GoesDown, StatementsAreNumbered
    <2>3. ASSUME NEW n, req' = [req EXCEPT ![r].pc = "save_insert", ![r].num = n] PROVE RunsOut(r)
      <3>1. req'[r].pc = "save_insert" /\ \A q \in Reqs \ {r} : req'[q] = req[q]
        BY <1>r, <2>3 DEF Request
      <3> QED  BY <2>1, <3>1, StatementsAreNumbered DEF RunsOut, At
    <2> QED  BY <2>1, <2>2, <2>3
  <1>2. CASE SaveInsert(r)
    BY <1>2, GoesDown, StatementsAreNumbered DEF SaveInsert
  <1>3. CASE PageReadNumber(r)
    <2>1. At(r, "page_number") /\ (Finish(r) \/ \E n : req' = [req EXCEPT ![r].pc = "page_insert", ![r].page = n])
      BY <1>3 DEF PageReadNumber
    <2>2. CASE Finish(r)
      BY <2>1, <2>2, GoesDown, StatementsAreNumbered
    <2>3. ASSUME NEW n, req' = [req EXCEPT ![r].pc = "page_insert", ![r].page = n] PROVE RunsOut(r)
      <3>1. req'[r].pc = "page_insert" /\ \A q \in Reqs \ {r} : req'[q] = req[q]
        BY <1>r, <2>3 DEF Request
      <3> QED  BY <2>1, <3>1, StatementsAreNumbered DEF RunsOut, At
    <2> QED  BY <2>1, <2>2, <2>3
  <1>4. CASE PageInsert(r)
    BY <1>4, GoesDown, StatementsAreNumbered DEF PageInsert
  <1>5. CASE RegionCheckVersion(r)
    BY <1>5, GoesDown, StatementsAreNumbered DEF RegionCheckVersion
  <1>6. CASE SetStatusCheckReadiness(r)
    BY <1>6, GoesDown, StatementsAreNumbered DEF SetStatusCheckReadiness
  <1>7. CASE EditorCheckReadiness(r)
    BY <1>7, GoesDown, StatementsAreNumbered DEF EditorCheckReadiness
  <1>8. CASE SaveUpdate(r) \/ DocWrite(r) \/ PageInsertVersion(r) \/ RegionInsert(r) \/ RegionDelete(r)
             \/ SetStatusWrite(r) \/ EditorReviewWrite(r) \/ BoardReviewWrite(r)
    <2>1. Finish(r) /\ ~At(r, "idle")
      BY <1>8 DEF SaveUpdate, DocWrite, PageInsertVersion, RegionInsert, RegionDelete, SetStatusWrite,
         EditorReviewWrite, BoardReviewWrite, WriteChapter, At
    <2> QED  BY <2>1, GoesOn, StatementsAreNumbered DEF RunsOut, At
  <1> QED
    BY <1>1, <1>2, <1>3, <1>4, <1>5, <1>6, <1>7, <1>8 DEF StudioSteps, PageSteps, ChapterSteps

\* However requests interleave, die, and wait for one another's row locks, none repeats a
\* statement: a handler that goes on being served returns after seven at most.
THEOREM HandlersRunOut == Spec => StatementsRunOut
  <1> DEFINE Descends(r) == \/ At(r, "idle")
                            \/ req'[r] = req[r]
                            \/ StatementsLeft(req'[r].pc) < StatementsLeft(req[r].pc)
  <1>1. TypeInv /\ [Next]_vars => [\A r \in Reqs : Descends(r)]_vars
    <2> SUFFICES ASSUME TypeInv, [Next]_vars, NEW r \in Reqs PROVE Descends(r)
      OBVIOUS
    <2>1. CASE UNCHANGED vars
      BY <2>1 DEF vars
    <2>2. ASSUME NEW q \in Reqs, Call(q) PROVE At(q, "idle") /\ \A s \in Reqs \ {q} : req'[s] = req[s]
      <3>1. \E locals : Enter(q, locals)
        BY <2>2 DEF Call, AssignRead, StartRead, SubmitRead, ReviewRead, SaveRead, DocRead, PageCreateRead,
           RegionCreateRead, RegionDeleteRead, SetStatusRead, EditorReviewRead, BoardReviewRead
      <3> QED  BY <3>1 DEF Enter, TypeInv, TypeOK
    <2>3. ASSUME NEW q \in Reqs, Progress(q) PROVE RunsOut(q)
      BY <2>3, TaskWorkRunsOut, PageWorkRunsOut DEF Progress, TypeInv
    <2>4. ASSUME NEW q \in Reqs, Fail(q) PROVE RunsOut(q)
      BY <2>4, GoesOn, StatementsAreNumbered DEF Fail, RunsOut, At, TypeInv
    <2> QED  BY <2>1, <2>2, <2>3, <2>4 DEF Next, RunsOut
  <1> QED  BY <1>1, TypeInvariant, PTL DEF Spec, StatementsRunOut
=============================================================================
