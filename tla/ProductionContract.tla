------------------------- MODULE ProductionContract -------------------------
(***************************************************************************)
(* What the production of one chapter promises, without its handlers,      *)
(* pages and submissions: every status moves along its map, no task is     *)
(* open while the chapter is under review, and a task is paid for in the   *)
(* very step that approves it.                                             *)
(***************************************************************************)
EXTENDS Naturals, Transitions

CONSTANT Tasks

VARIABLES
    chapter,   \* the chapter's status
    task,      \* [Tasks -> the task's status, or Absent before it is assigned]
    paid       \* [Tasks -> how often it has been paid for]

contract == <<chapter, task, paid>>

AllApproved == \A t \in Tasks : task[t] \in {Absent, "APPROVED"}

InProduction == chapter \in {"DRAFT", "IN_PROGRESS"}

Init ==
    /\ chapter \in {"DRAFT", "IN_PROGRESS"}
    /\ task = [t \in Tasks |-> Absent]
    /\ paid = [t \in Tasks |-> 0]

Assign(t) ==
    /\ InProduction
    /\ task[t] = Absent
    /\ task' = [task EXCEPT ![t] = "ASSIGNED"]
    /\ UNCHANGED <<chapter, paid>>

Work(t) ==
    /\ \E to \in {"IN_PROGRESS", "SUBMITTED", "REVISION_REQUIRED"} :
         /\ canTransition(TASK_TRANSITIONS, task[t], to)
         /\ task' = [task EXCEPT ![t] = to]
    /\ UNCHANGED <<chapter, paid>>

Approve(t) ==
    /\ task[t] = "SUBMITTED"
    /\ task' = [task EXCEPT ![t] = "APPROVED"]
    /\ paid' = [paid EXCEPT ![t] = @ + 1]
    /\ UNCHANGED chapter

Move ==
    /\ \E to \in ChapterStatus \ {"PUBLISHED"} :
         /\ canTransition(CHAPTER_TRANSITIONS, chapter, to)
         /\ to # "IN_PROGRESS" => AllApproved
         /\ chapter' = to
    /\ UNCHANGED <<task, paid>>

Next == Move \/ \E t \in Tasks : Assign(t) \/ Work(t) \/ Approve(t)

Spec == Init /\ [][Next]_contract
=============================================================================
