----------------------------- MODULE ChapterLife -----------------------------
(***************************************************************************)
(* The life of one chapter, without handlers, pages, regions, submissions  *)
(* and requests: its production as ProductionContract has it until the     *)
(* board approves it, then its entry in the publication schedule, until it *)
(* is out.  Nothing of the production moves once the board has approved,   *)
(* and a chapter comes out with its work approved, each task paid once, on *)
(* its day or after it, in one step with its entry.                        *)
(***************************************************************************)
EXTENDS ProductionContract

CONSTANT MaxDay

VARIABLES
    schedule,   \* the status of the entry, or Absent before there is one
    release,    \* the day of the entry
    today       \* the day

life == <<contract, schedule, release, today>>

\* Every task is done, and paid for once.
Settled ==
    \A t \in Tasks : IF task[t] = Absent THEN paid[t] = 0 ELSE task[t] = "APPROVED" /\ paid[t] = 1

LifeInit ==
    /\ Init
    /\ schedule = Absent
    /\ release = 0
    /\ today = 0

Produce ==
    /\ chapter \notin {"BOARD_APPROVED", "PUBLISHED"}
    /\ Next
    /\ UNCHANGED <<schedule, release, today>>

Schedule(day) ==
    /\ chapter = "BOARD_APPROVED"
    /\ schedule \in {Absent, "CANCELLED"}
    /\ schedule' = "SCHEDULED"
    /\ release' = day
    /\ UNCHANGED <<contract, today>>

Cancel ==
    /\ schedule = "SCHEDULED"
    /\ schedule' = "CANCELLED"
    /\ UNCHANGED <<contract, release, today>>

Publish ==
    /\ chapter = "BOARD_APPROVED"
    /\ Settled
    /\ schedule = "SCHEDULED"
    /\ release <= today
    /\ chapter' = "PUBLISHED"
    /\ schedule' = "PUBLISHED"
    /\ UNCHANGED <<task, paid, release, today>>

Midnight ==
    /\ today' = today + 1
    /\ UNCHANGED <<contract, schedule, release>>

LifeNext == Produce \/ (\E day \in 0 .. MaxDay : Schedule(day)) \/ Cancel \/ Publish \/ Midnight

LifeSpec == LifeInit /\ [][LifeNext]_life
=============================================================================
