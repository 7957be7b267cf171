--------------------------- MODULE PageStatusSync ---------------------------
(***************************************************************************)
(* syncPageStatusFromTasks (pages/page-status.util.ts) outside a           *)
(* transaction: three statements, each on the latest committed rows.       *)
(* Task assignment, task start and submission end with it.                 *)
(***************************************************************************)
EXTENDS ProductionDb

\* Mutant of StartSync: the sync is forgotten.
StartSyncForgotten(r, p) == req' = [req EXCEPT ![r] = Idle]

\* The handler goes on with the sync of the page of its task.
StartSync(r, p) == req' = [req EXCEPT ![r] = [Idle EXCEPT !.pc = "sync_tasks", !.page = p]]

\* SELECT task_status FROM Task WHERE page_id = ?
SyncReadTasks(r) ==
    LET derived == derivePageStatus(TaskStatusesOn(req[r].page)) IN
    /\ At(r, "sync_tasks")
    /\ IF derived = NoStatus
       THEN Finish(r)
       ELSE req' = [req EXCEPT ![r].pc = "sync_page", ![r].target = derived]
    /\ UNCHANGED tables

\* SELECT page_status FROM Page: nothing to do, or a move the map forbids?
SyncReadPage(r) ==
    /\ At(r, "sync_page")
    /\ IF syncTarget(page[req[r].page], req[r].target) = NoStatus
       THEN Finish(r)
       ELSE Goto(r, "sync_write")
    /\ UNCHANGED tables

\* UPDATE Page SET page_status = ?
SyncWrite(r) ==
    /\ At(r, "sync_write")
    /\ page' = [page EXCEPT ![req[r].page] = req[r].target]
    /\ Finish(r)
    /\ UNCHANGED <<chapter, currentVersion, uploader, document, regionRows, taskRows,
                   submissionRows>>

SyncSteps(r) == SyncReadTasks(r) \/ SyncReadPage(r) \/ SyncWrite(r)
=============================================================================
