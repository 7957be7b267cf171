-------------------------- MODULE SubmissionService --------------------------
(***************************************************************************)
(* Handing in the work of a task and reviewing it                          *)
(* (submissions/submissions.service.ts).                                   *)
(***************************************************************************)
EXTENDS PageStatusSync

\* submit: the task is the caller's and may move to SUBMITTED.
maySubmit(t) == t \in TaskIds /\ canTransition(TASK_TRANSITIONS, task[t], "SUBMITTED")

SubmitRead(r, t) ==
    /\ maySubmit(t)
    /\ Enter(r, [Idle EXCEPT !.pc = "submit_version", !.task = t, !.user = assignee[t]])
    /\ UNCHANGED tables

\* submit: SELECT MAX(version_number) + 1.  Bound: past MaxSubmissions the
\* request is dropped.
SubmitVersion(r) ==
    LET next == NextVersion(SubmissionsOf(req[r].task)) IN
    /\ At(r, "submit_version")
    /\ IF next \notin SubmissionVersions
       THEN Finish(r)
       ELSE req' = [req EXCEPT ![r].pc = "submit_studio", ![r].num = next]
    /\ UNCHANGED tables

\* The page's current version and its Studio document were both last saved by u.
SavedInStudioBy(u, p) ==
    /\ HasCurrentVersion(p)
    /\ uploader[p][currentVersion[p]] = u
    /\ document[p] = u

\* submit: the work handed in is what the assistant last saved in the Studio.
SubmitCheckStudio(r) ==
    /\ At(r, "submit_studio")
    /\ IF SavedInStudioBy(req[r].user, PageOf(req[r].task))
       THEN Goto(r, "submit_insert")
       ELSE Finish(r)
    /\ UNCHANGED tables

\* submit: INSERT INTO Submission; UNIQUE (task_id, version_number).
SubmitInsert(r) ==
    LET t == req[r].task IN
    /\ At(r, "submit_insert")
    /\ ~TaskLocked(t)
    /\ IF req[r].num \in SubmissionsOf(t)
       THEN Finish(r) /\ UNCHANGED tables
       ELSE /\ submission' = [submission EXCEPT ![t][req[r].num] = "PENDING"]
            /\ Goto(r, "submit_write")
            /\ UNCHANGED <<chapter, pageRows, regionRows, taskRows, accruals>>

\* submit: UPDATE Task SET task_status = 'SUBMITTED' WHERE task_id = ?
SubmitWrite(r) ==
    LET t == req[r].task IN
    /\ At(r, "submit_write")
    /\ ~TaskLocked(t)
    /\ task' = [task EXCEPT ![t] = "SUBMITTED"]
    /\ StartSync(r, PageOf(t))
    /\ UNCHANGED <<chapter, pageRows, regionRows, taskRegion, assignee, submissionRows>>

-----------------------------------------------------------------------------
Decisions == {"APPROVED", "REVISION_REQUIRED"}

\* review: submission and task are read, and both guards checked, before the
\* transaction begins.
mayReview(t, v, decision) ==
    /\ v \in SubmissionsOf(t)
    /\ canTransition(SUBMISSION_TRANSITIONS, submission[t][v], decision)
    /\ canTransition(TASK_TRANSITIONS, task[t], decision)

ReviewRead(r, t, v, decision) ==
    /\ mayReview(t, v, decision)
    /\ Enter(r, [Idle EXCEPT !.pc = "review_begin", !.task = t, !.num = v,
                             !.status = decision])
    /\ UNCHANGED tables

\* review, in the transaction: the updates of Submission, Task and (to approve)
\* Assistant_Profile wait for the rows; the snapshot is taken by the first
\* SELECT, which comes after them, and sees this transaction's own update.
ReviewBegin(r) ==
    LET t == req[r].task
        decision == req[r].status
        statuses == {decision} \cup {task[u] : u \in TasksOn(PageOf(t)) \ {t}}
    IN
    /\ At(r, "review_begin")
    /\ ~TaskLocked(t)
    /\ decision = "APPROVED" => ~ProfileLocked(assignee[t])
    /\ req' = [req EXCEPT ![r].pc = "review_commit",
                          ![r].target = syncTarget(page[PageOf(t)], derivePageStatus(statuses))]
    /\ UNCHANGED tables

\* Mutants of Credit: every decision is paid for; the wrong one is.
CreditEveryDecision(t, decision) == [accruals EXCEPT ![t] = @ + 1]
CreditRevisions(t, decision) ==
    IF decision = "REVISION_REQUIRED" THEN [accruals EXCEPT ![t] = @ + 1] ELSE accruals

\* review: to approve, the payment is added to the assistant's total_earnings.
Credit(t, decision) ==
    IF decision = "APPROVED" THEN [accruals EXCEPT ![t] = @ + 1] ELSE accruals

\* review: the transaction commits.
ReviewCommit(r) ==
    LET t == req[r].task
        p == PageOf(t)
    IN
    /\ At(r, "review_commit")
    /\ submission' = [submission EXCEPT ![t][req[r].num] = req[r].status]
    /\ task' = [task EXCEPT ![t] = req[r].status]
    /\ accruals' = Credit(t, req[r].status)
    /\ page' = IF req[r].target = NoStatus THEN page ELSE [page EXCEPT ![p] = req[r].target]
    /\ Finish(r)
    /\ UNCHANGED <<chapter, currentVersion, uploader, document, regionRows, taskRegion, assignee>>

SubmissionSteps(r) ==
    \/ SubmitVersion(r) \/ SubmitCheckStudio(r) \/ SubmitInsert(r) \/ SubmitWrite(r)
    \/ ReviewBegin(r) \/ ReviewCommit(r)
=============================================================================
