------------------------------- MODULE Ballot -------------------------------
(***************************************************************************)
(* What the board's votes promise, without requests, counting and ranks:   *)
(* a period is open until every member of the board has voted, from then   *)
(* on its votes are final, and only a closed period with a low average     *)
(* puts its series at risk.                                                *)
(***************************************************************************)
EXTENDS Integers, FiniteSetsExt

CONSTANTS Series, Members, Scores, FirstDay, MaxDay

VARIABLES
    period,         \* the status of the period of a series
    vote,           \* the scores its members have given, 0 before they have
    seriesStatus,
    active,         \* the members of the board
    today

ballot == <<period, vote, seriesStatus, active, today>>

Voted(s, m) == vote[s][m] # 0

BallotInit ==
    /\ period = [s \in Series |-> "NO PERIOD"]
    /\ vote = [s \in Series |-> [m \in Members |-> 0]]
    /\ seriesStatus = [s \in Series |-> "ACTIVE"]
    /\ active \subseteq Members
    /\ today = 0

Open(s) ==
    /\ period[s] = "NO PERIOD"
    /\ period' = [period EXCEPT ![s] = "OPEN"]
    /\ UNCHANGED <<vote, seriesStatus, active, today>>

Cast(s, m, score) ==
    /\ period[s] = "OPEN"
    /\ FirstDay <= today
    /\ vote' = [vote EXCEPT ![s][m] = score]
    /\ UNCHANGED <<period, seriesStatus, active, today>>

Close(s) ==
    /\ period[s] = "OPEN"
    /\ active # {} /\ \A m \in active : Voted(s, m)
    /\ period' = [period EXCEPT ![s] = "CLOSED"]
    /\ UNCHANGED <<vote, seriesStatus, active, today>>

\* Below 2.5 on average: BR-MONEY-007.
IsLow(s) == 2 * MapThenSumSet(LAMBDA m : vote[s][m], active) < 5 * Cardinality(active)

\* Whatever the board has decided about the series before.
Mark(s) ==
    /\ period[s] = "CLOSED"
    /\ IsLow(s)
    /\ seriesStatus' = [seriesStatus EXCEPT ![s] = "AT_RISK"]
    /\ UNCHANGED <<period, vote, active, today>>

Decide(s, status) ==
    /\ seriesStatus[s] \in {"ACTIVE", "AT_RISK", "HIATUS"}
    /\ seriesStatus' = [seriesStatus EXCEPT ![s] = status]
    /\ UNCHANGED <<period, vote, active, today>>

Midnight ==
    /\ today < MaxDay
    /\ today' = today + 1
    /\ UNCHANGED <<period, vote, seriesStatus, active>>

BallotNext ==
    \/ \E s \in Series :
          \/ Open(s) \/ Close(s) \/ Mark(s)
          \/ \E m \in active, score \in Scores : Cast(s, m, score)
          \/ \E status \in {"ACTIVE", "HIATUS", "CANCELLED"} : Decide(s, status)
    \/ Midnight

BallotSpec == BallotInit /\ [][BallotNext]_ballot
=============================================================================
