---------------------------- MODULE Transitions ----------------------------
(***************************************************************************)
(* The status maps that the backend and the frontend share                 *)
(* (packages/shared/src/enums/transitions.ts) and the pure function that   *)
(* projects a page's status from the statuses of its tasks                 *)
(* (apps/backend/src/pages/page-status.util.ts).  A status map is a set of *)
(* pairs <<from, to>>; a status is a string, spelled as in the enums.      *)
(***************************************************************************)

\* No row with this id exists (yet).
Absent == "ABSENT"

\* Nothing to derive, nothing to write: the null of the TypeScript code.
NoStatus == "NONE"

ProposalStatus == {"DRAFT", "SUBMITTED", "UNDER_REVIEW", "APPROVED", "REJECTED"}

ChapterStatus == {"DRAFT", "IN_PROGRESS", "READY_FOR_EDITOR_REVIEW",
                  "EDITOR_APPROVED", "BOARD_APPROVED", "PUBLISHED"}

PageStatus == {"RAW", "ASSIGNED", "IN_PROGRESS", "REVIEWING", "COMPLETED"}

TaskStatus == {"ASSIGNED", "IN_PROGRESS", "SUBMITTED", "REVISION_REQUIRED", "APPROVED"}

SubmissionStatus == {"PENDING", "UNDER_REVIEW", "REVISION_REQUIRED", "APPROVED", "REJECTED"}

PROPOSAL_TRANSITIONS ==
    {<<"DRAFT", "SUBMITTED">>}
        \cup ({"SUBMITTED"} \X {"UNDER_REVIEW", "APPROVED", "REJECTED"})
        \cup ({"UNDER_REVIEW"} \X {"APPROVED", "REJECTED"})

CHAPTER_TRANSITIONS ==
    {<<"DRAFT", "IN_PROGRESS">>,
     <<"IN_PROGRESS", "READY_FOR_EDITOR_REVIEW">>,
     <<"READY_FOR_EDITOR_REVIEW", "EDITOR_APPROVED">>,
     <<"READY_FOR_EDITOR_REVIEW", "IN_PROGRESS">>,
     <<"EDITOR_APPROVED", "BOARD_APPROVED">>,
     <<"EDITOR_APPROVED", "IN_PROGRESS">>,
     <<"BOARD_APPROVED", "PUBLISHED">>}

MANGAKA_CHAPTER_TRANSITIONS ==
    {<<"DRAFT", "IN_PROGRESS">>,
     <<"IN_PROGRESS", "READY_FOR_EDITOR_REVIEW">>}

PAGE_TRANSITIONS ==
    {<<"RAW", "ASSIGNED">>,
     <<"ASSIGNED", "IN_PROGRESS">>,
     <<"IN_PROGRESS", "REVIEWING">>,
     <<"REVIEWING", "COMPLETED">>,
     <<"REVIEWING", "IN_PROGRESS">>}

TASK_TRANSITIONS ==
    {<<"ASSIGNED", "IN_PROGRESS">>,
     <<"IN_PROGRESS", "SUBMITTED">>,
     <<"SUBMITTED", "APPROVED">>,
     <<"SUBMITTED", "REVISION_REQUIRED">>,
     <<"REVISION_REQUIRED", "IN_PROGRESS">>,
     <<"REVISION_REQUIRED", "SUBMITTED">>}

SUBMISSION_TRANSITIONS ==
    ({"PENDING"} \X {"UNDER_REVIEW", "APPROVED", "REVISION_REQUIRED", "REJECTED"})
        \cup ({"UNDER_REVIEW"} \X {"APPROVED", "REVISION_REQUIRED", "REJECTED"})

EARNING_DISPUTE_TRANSITIONS ==
    ({"OPEN"} \X {"UNDER_REVIEW", "RESOLVED", "REJECTED"})
        \cup ({"UNDER_REVIEW"} \X {"RESOLVED", "REJECTED"})

canTransition(map, from, to) == <<from, to>> \in map

\* The page status that a page's tasks ask for; statuses is the set of the
\* statuses its tasks have.
derivePageStatus(statuses) ==
    CASE statuses = {} -> NoStatus
      [] statuses = {"APPROVED"} -> "COMPLETED"
      [] statuses = {"ASSIGNED"} -> "ASSIGNED"
      [] "SUBMITTED" \in statuses /\ statuses \subseteq {"SUBMITTED", "APPROVED"} -> "REVIEWING"
      [] OTHER -> "IN_PROGRESS"

\* What syncPageStatusFromTasks writes over the page status `current`:
\* NoStatus when it writes nothing.
syncTarget(current, derived) ==
    IF derived # current /\ canTransition(PAGE_TRANSITIONS, current, derived)
    THEN derived
    ELSE NoStatus
=============================================================================
