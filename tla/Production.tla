----------------------------- MODULE Production -----------------------------
(***************************************************************************)
(* The production of one chapter: every handler that writes its pages,     *)
(* regions, tasks, submissions and status, over the tables they share, by  *)
(* as many concurrent requests as there are slots in Reqs.  With one slot  *)
(* the handlers run one after the other.                                   *)
(***************************************************************************)
EXTENDS TaskService, SubmissionService, StudioService, PageService, ChapterService

CONSTANTS
    Ops,      \* the operations that users call in this instance
    Faults,   \* whether a request may die between two of its statements
    Drawn     \* whether the chapter starts with its first page drawn

ASSUME SwitchesAssumption == Faults \in BOOLEAN /\ Drawn \in BOOLEAN

Init == IF Drawn THEN InitDrawn ELSE InitEmpty

\* A user calls an operation: what the handler does up to its first write, or up
\* to the first statement whose answer another request could change.
Call(r) ==
    \/ "assign" \in Ops /\ \E g \in Regions, a \in Assistants : AssignRead(r, g, a)
    \/ "start" \in Ops /\ \E t \in Tasks : StartRead(r, t)
    \/ "submit" \in Ops /\ \E t \in Tasks : SubmitRead(r, t)
    \/ "review" \in Ops /\ \E t \in Tasks, v \in SubmissionVersions, d \in Decisions :
                              ReviewRead(r, t, v, d)
    \/ "save" \in Ops /\ \E u \in Assistants, p \in Pages : SaveRead(r, u, p)
    \/ "retouch" \in Ops /\ \E p \in Pages : SaveRead(r, Mangaka, p)
    \/ "doc" \in Ops /\ \E u \in Users, p \in Pages : DocRead(r, u, p)
    \/ "page" \in Ops /\ PageCreateRead(r)
    \/ "region" \in Ops /\ \E p \in Pages : RegionCreateRead(r, p)
    \/ "unregion" \in Ops /\ \E g \in Regions : RegionDeleteRead(r, g)
    \/ "status" \in Ops /\ \E target \in ChapterStatus : SetStatusRead(r, target)
    \/ "editor" \in Ops /\ \E target \in ChapterStatus : EditorReviewRead(r, target)
    \/ "board" \in Ops /\ \E target \in ChapterStatus : BoardReviewRead(r, target)

\* The database connection or the process is lost before the next statement:
\* what has committed stays, an open transaction rolls back.
Fail(r) ==
    /\ Faults
    /\ ~At(r, "idle")
    /\ Finish(r)
    /\ UNCHANGED tables

\* The statements of the request in slot r.
Progress(r) ==
    \/ TaskSteps(r) \/ SubmissionSteps(r) \/ SyncSteps(r)
    \/ StudioSteps(r) \/ PageSteps(r) \/ ChapterSteps(r)

Next == \E r \in Reqs : Call(r) \/ Progress(r) \/ Fail(r)

Spec == Init /\ [][Next]_vars

\* The event loop resumes every handler whose statement has returned, and InnoDB
\* grants a contended row lock in the order of the queue.  No user is obliged to
\* call anything.
FairSpec == Spec /\ \A r \in Reqs : SF_vars(Progress(r))

-----------------------------------------------------------------------------
(* What holds however the requests interleave and wherever they die. *)

ApprovedSubmissions(t) == {v \in SubmissionVersions : submission[t][v] = "APPROVED"}
PendingSubmissions(t) == {v \in SubmissionVersions : submission[t][v] = "PENDING"}

\* An approved task has an approved submission, and its payment has gone into
\* the assistant's total_earnings at least once (SubmissionService.review writes
\* the three rows in one transaction).
ApprovedIsPaid ==
    \A t \in Tasks : task[t] = "APPROVED" => ApprovedSubmissions(t) # {} /\ accruals[t] >= 1

\* The saved versions of a page have no holes and never run more than one ahead
\* of current_version (savePageVersion inserts first and updates Page second).
VersionsContiguous ==
    \A p \in Pages :
        /\ currentVersion[p] = 0 <=> p \notin ExistingPages
        /\ VersionsOf(p) \ {1} \subseteq 2 .. currentVersion[p] + 1
        /\ 2 .. currentVersion[p] \subseteq VersionsOf(p)

\* Of the saves of a page in flight at most one has got its version in, the next
\* one after current_version; the others hold that number, or an older one.
SavesInOrder ==
    /\ \A r \in Reqs :
         LET q == req[r] IN
         /\ q.pc = "save_insert" => q.num \in 2 .. currentVersion[q.page] + 1
         /\ q.pc = "save_update" => /\ q.num = currentVersion[q.page] + 1
                                    /\ q.num \in VersionsOf(q.page)
    /\ \A r, s \in Reqs :
         At(r, "save_update") /\ At(s, "save_update") /\ req[r].page = req[s].page => r = s

\* The work on a page never goes back to an older version.
CurrentVersionGrows ==
    [][\A p \in Pages : currentVersion'[p] >= currentVersion[p]]_vars

\* Every task is on a region that is still there, every region on a page: no race
\* of an assignment with a deletion gets past the foreign keys.
RowsAreConnected ==
    /\ \A t \in TaskIds : taskRegion[t] # None /\ region[taskRegion[t]] = "LIVE"
    /\ \A g \in Regions : region[g] # Absent => regionPage[g] \in ExistingPages

\* What the locals of a request in flight name is there when its next statement
\* runs, however long ago they were read.
Fits(q) ==
    /\ q.pc \in {"assign_check", "assign_insert"} =>
         /\ q.region \in Regions /\ region[q.region] # Absent
         /\ q.user \in Assistants
    /\ q.pc = "region_delete" => q.region \in Regions /\ region[q.region] # Absent
    /\ q.pc \in {"start_write", "submit_version", "submit_studio", "submit_insert",
                 "submit_write", "review_begin", "review_commit"} => q.task \in TaskIds
    /\ q.pc \in {"submit_studio", "submit_insert"} => q.num \in SubmissionVersions
    /\ q.pc \in {"review_begin", "review_commit"} =>
         q.num \in SubmissionsOf(q.task) /\ q.status \in Decisions
    /\ q.pc = "review_commit" => q.target \in PageStatus \cup {NoStatus}
    /\ q.pc \in {"sync_tasks", "sync_page", "sync_write", "save_current", "save_insert",
                 "save_update", "doc_write", "page_version", "region_version",
                 "region_insert"} => q.page \in ExistingPages
    /\ q.pc \in {"sync_page", "sync_write"} => q.target \in PageStatus
    /\ q.pc \in {"save_current", "save_insert", "save_update", "doc_write"} => q.user \in Users
    /\ q.pc \in {"save_insert", "save_update"} => q.num \in Versions
    /\ q.pc = "page_insert" => q.page \in Pages
    /\ q.pc \in {"status_readiness", "status_write", "editor_readiness", "editor_write",
                 "board_write"} => q.status \in ChapterStatus

RequestsFitRows == \A r \in Reqs : Fits(req[r])

-----------------------------------------------------------------------------
(* What holds while the handlers run one after the other. *)

\* A region is assigned at most once (TasksService.assign refuses a second task).
OneTaskPerRegion ==
    \A s, t \in TaskIds : taskRegion[s] = taskRegion[t] => s = t

\* An assistant is paid once for a task that is approved, and for no other.
PaidOnce ==
    \A t \in Tasks : accruals[t] = IF task[t] = "APPROVED" THEN 1 ELSE 0

\* Between requests a task waits for a review exactly when one of its
\* submissions does, the latest one.
ReviewQueueMatchesTasks ==
    Quiescent =>
        \A t \in Tasks :
            PendingSubmissions(t) = IF task[t] = "SUBMITTED"
                                    THEN {Max(SubmissionsOf(t))} ELSE {}

\* Between requests a page waiting for a review has only work that is handed in;
\* and a page whose work is all handed in waits for a review, or is COMPLETED
\* (as it is once all is approved), unless the mangaka was the last to save it.
PageFollowsTasks ==
    Quiescent =>
        \A p \in ExistingPages :
            LET derived == derivePageStatus(TaskStatusesOn(p)) IN
            /\ page[p] = "REVIEWING" => derived = "REVIEWING"
            /\ derived \in {"REVIEWING", "COMPLETED"} =>
                   \/ page[p] \in {derived, "COMPLETED"}
                   \/ uploader[p][currentVersion[p]] = Mangaka

UnderReview == chapter \in {"READY_FOR_EDITOR_REVIEW", "EDITOR_APPROVED"}

\* A chapter under review is finished: pages, tasks and versions.
ReviewedChapterIsReady ==
    UnderReview => Ready

\* The work under review stands still: while the editor or the board looks at a
\* chapter no page of it changes, not even through the Studio's assistant path,
\* which does not ask for the status of the chapter (assertCanWritePage).
ReviewedWorkStandsStill == [][UnderReview => UNCHANGED work]_vars

\* With one request at a time the handlers implement the contract: the checks that
\* assign, start, submit, review and the chapter's reviews make are enough.
Contract == INSTANCE ProductionContract WITH paid <- accruals
ImplementsContract == Contract!Spec

-----------------------------------------------------------------------------
(* What fair handlers bring about. *)

\* Every request returns: no handler waits for a row lock forever, none is caught
\* in a cycle of lock waits, and none retries forever.
RequestsReturn == \A r \in Reqs : ~At(r, "idle") ~> At(r, "idle")

\* A page version that has been stored is caught up with by current_version, so it
\* is what the Studio and the readers see (savePageVersion, while nothing dies).
SavedVersionIsShown ==
    \A p \in Pages, v \in Versions :
        v \in VersionsOf(p) ~> currentVersion[p] >= v

-----------------------------------------------------------------------------
(* What the repository says of the program and the program does not do. *)

\* "APPROVED is terminal" (documents/01-overview/04-business-rules.md, BR-FLOW-012).
ApprovedIsTerminal == [][\A t \in Tasks : task[t] = "APPROVED" => task'[t] = "APPROVED"]_vars

\* "Reconcile the page: COMPLETED once all its tasks are APPROVED"
\* (submissions.service.ts, review): the review that approves the last task of a
\* page leaves the page COMPLETED.
LastApprovalCompletesPage ==
    [][\A t \in TaskIds :
          (/\ task[t] # "APPROVED"
           /\ task'[t] = "APPROVED"
           /\ \A u \in TasksOn(PageOf(t)) : task'[u] = "APPROVED")
          => page'[PageOf(t)] = "COMPLETED"]_vars
=============================================================================
