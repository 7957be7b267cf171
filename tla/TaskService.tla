----------------------------- MODULE TaskService -----------------------------
(***************************************************************************)
(* Assigning a region of a page to an assistant and starting the task      *)
(* (tasks/tasks.service.ts).                                               *)
(***************************************************************************)
EXTENDS PageStatusSync

\* Mutant of EditableForAssign: a status is missing from the list.
EditableForAssignAfterEditor ==
    chapter \notin {"READY_FOR_EDITOR_REVIEW", "BOARD_APPROVED", "PUBLISHED"}

\* The chapter is neither waiting for a review nor past one.
EditableForAssign ==
    chapter \notin {"READY_FOR_EDITOR_REVIEW", "EDITOR_APPROVED", "BOARD_APPROVED", "PUBLISHED"}

\* assign: the region is one of the mangaka's and its chapter is editable.
mayAssign(g) == region[g] = "LIVE" /\ EditableForAssign

AssignRead(r, g, a) ==
    /\ mayAssign(g)
    /\ Enter(r, [Idle EXCEPT !.pc = "assign_check", !.region = g, !.user = a])
    /\ UNCHANGED tables

\* Mutant of AssignCheckRegion: the region is not looked up.
AssignCheckNothing(r) ==
    /\ At(r, "assign_check")
    /\ Goto(r, "assign_insert")
    /\ UNCHANGED tables

\* assign: SELECT task_id FROM Task WHERE region_id = ? LIMIT 1
AssignCheckRegion(r) ==
    /\ At(r, "assign_check")
    /\ IF \E t \in TaskIds : taskRegion[t] = req[r].region
       THEN Finish(r)
       ELSE Goto(r, "assign_insert")
    /\ UNCHANGED tables

\* assign: INSERT INTO Task.  The region may have been deleted meanwhile: the
\* foreign key refuses the row.  Bound: so it is when MaxTasks are used up.
AssignInsert(r) ==
    /\ At(r, "assign_insert")
    /\ IF region[req[r].region] # "LIVE" \/ TaskIds = Tasks
       THEN Finish(r) /\ UNCHANGED tables
       ELSE \E t \in Tasks :
              /\ TaskIds = 1 .. (t - 1)
              /\ task' = [task EXCEPT ![t] = "ASSIGNED"]
              /\ taskRegion' = [taskRegion EXCEPT ![t] = req[r].region]
              /\ assignee' = [assignee EXCEPT ![t] = req[r].user]
              /\ StartSync(r, regionPage[req[r].region])
              /\ UNCHANGED <<chapter, pageRows, regionRows, submissionRows>>

\* Mutant of mayStart: any open task may be started.
mayStartAnyOpen(t) == task[t] \notin {Absent, "APPROVED"}

\* start: the task is the caller's and may move to IN_PROGRESS.
mayStart(t) == t \in TaskIds /\ canTransition(TASK_TRANSITIONS, task[t], "IN_PROGRESS")

StartRead(r, t) ==
    /\ mayStart(t)
    /\ Enter(r, [Idle EXCEPT !.pc = "start_write", !.task = t])
    /\ UNCHANGED tables

\* Mutant of StartWrite: a status that the enum of Task does not have.
StartWriteWrongEnum(r) ==
    LET t == req[r].task IN
    /\ At(r, "start_write")
    /\ ~TaskLocked(t)
    /\ task' = [task EXCEPT ![t] = "REVIEWING"]
    /\ StartSync(r, PageOf(t))
    /\ UNCHANGED <<chapter, pageRows, regionRows, taskRegion, assignee, submissionRows>>

\* start: UPDATE Task SET task_status = 'IN_PROGRESS' WHERE task_id = ?
StartWrite(r) ==
    LET t == req[r].task IN
    /\ At(r, "start_write")
    /\ ~TaskLocked(t)
    /\ task' = [task EXCEPT ![t] = "IN_PROGRESS"]
    /\ StartSync(r, PageOf(t))
    /\ UNCHANGED <<chapter, pageRows, regionRows, taskRegion, assignee, submissionRows>>

TaskSteps(r) == AssignCheckRegion(r) \/ AssignInsert(r) \/ StartWrite(r)
=============================================================================
