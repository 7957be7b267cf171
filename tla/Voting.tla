------------------------------- MODULE Voting -------------------------------
(***************************************************************************)
(* The board's votes on the series (rankings/) and its decisions about     *)
(* them (decisions/).  One period type and one window of days, FirstDay .. *)
(* LastDay, is modelled: it is what finalizePeriod ranks together, and     *)
(* uq_vote_period leaves each series one period in it.                     *)
(*                                                                         *)
(* As in ProductionDb a slot holds a request in flight, its pc names its   *)
(* next statement.  Nothing in rankings.service.ts is a transaction, so    *)
(* each statement commits by itself.                                       *)
(***************************************************************************)
EXTENDS Integers, FiniteSetsExt

CONSTANTS
    Series,             \* series ids
    Members,            \* users with the role EDITORIAL_BOARD
    Slots,              \* slots for requests in flight
    Scores,             \* bound: the scores a member may give, of 1 .. 5
    Decisions,          \* bound: the decisions the board takes
    FirstDay, LastDay,  \* period_start_date, period_end_date
    MaxDay,             \* bound: the last day of the calendar
    Faults              \* whether a request may die between two statements

ASSUME BoardAssumption ==
    /\ Series \subseteq Nat /\ IsFiniteSet(Series)
    /\ IsFiniteSet(Members)
    /\ Scores \subseteq 1 .. 5
    /\ Decisions \subseteq {"CONTINUE", "CHANGE_FREQUENCY", "CANCEL", "HIATUS"}
ASSUME WindowAssumption ==
    FirstDay \in Nat /\ LastDay \in Nat /\ MaxDay \in Nat /\ FirstDay <= LastDay
ASSUME FaultsAssumption == Faults \in BOOLEAN

VARIABLES
    period,         \* [Series -> Vote_Period.status, or NoPeriod]
    vote,           \* [Series -> [Members -> Vote.score, or NoVote]]
    ranking,        \* [Series -> the Ranking row of its period, or NoRanking]
    seriesStatus,   \* [Series -> Series.series_status]
    decision,       \* [Series -> the last Decision.decision_type, or NoDecision]
    active,         \* the members with is_activated = 1
    today,          \* todayDateOnly()
    slot            \* [Slots -> the request in the slot]

tables == <<period, vote, ranking, seriesStatus, decision>>
votingVars == <<tables, active, today, slot>>

SeriesStatus == {"ACTIVE", "AT_RISK", "HIATUS", "CANCELLED", "COMPLETED"}
RiskLevel == {"LOW", "MEDIUM", "HIGH"}
DecisionType == {"CONTINUE", "CHANGE_FREQUENCY", "CANCEL", "HIATUS"}
NoPeriod == "NO PERIOD"
NoVote == 0
NoRanking == [rank |-> 0, risk |-> "LOW"]
NoDecision == "NO DECISION"
NoScore == [sum |-> 0, count |-> 0]

\* A request: its arguments, and the locals of finalizePeriod (the rows still to be
\* ranked, their AVG(score), and currentRanking.risk, HIGH unless a row says otherwise).
Idle == [pc |-> "idle", series |-> 0, member |-> NoVote, score |-> NoVote, decision |-> NoDecision,
         rows |-> {}, totals |-> <<>>, index |-> 0, previous |-> NoScore, position |-> 0,
         risk |-> "HIGH"]

Steps == {"idle", "open_insert", "vote_upsert", "vote_progress", "finalize_close",
          "finalize_select", "finalize_rank", "decide_commit"}

VotingTypeOK ==
    /\ period \in [Series -> {NoPeriod, "OPEN", "CLOSED"}]
    /\ vote \in [Series -> [Members -> Scores \cup {NoVote}]]
    /\ ranking \in [Series -> [rank : Nat, risk : RiskLevel]]
    /\ seriesStatus \in [Series -> SeriesStatus]
    /\ decision \in [Series -> DecisionType \cup {NoDecision}]
    /\ active \subseteq Members
    /\ today \in 0 .. MaxDay
    /\ \A c \in Slots :
          /\ DOMAIN slot[c] = DOMAIN Idle
          /\ slot[c].pc \in Steps
          /\ slot[c].rows \subseteq Series

\* The accounts of the board do not change while it votes.
VotingInit ==
    /\ period = [s \in Series |-> NoPeriod]
    /\ vote = [s \in Series |-> [m \in Members |-> NoVote]]
    /\ ranking = [s \in Series |-> NoRanking]
    /\ seriesStatus = [s \in Series |-> "ACTIVE"]
    /\ decision = [s \in Series |-> NoDecision]
    /\ active \in SUBSET Members
    /\ today = 0
    /\ slot = [c \in Slots |-> Idle]

-----------------------------------------------------------------------------
At(c, step) == slot[c].pc = step
Enter(c, request) == At(c, "idle") /\ slot' = [slot EXCEPT ![c] = request]
Goto(c, step) == slot' = [slot EXCEPT ![c].pc = step]
Finish(c) == slot' = [slot EXCEPT ![c] = Idle]

-----------------------------------------------------------------------------
(* Opening a period. *)

\* openPeriod: the window does not begin in the past, the series has no such period.
OpenRead(c, s) ==
    /\ FirstDay >= today
    /\ period[s] = NoPeriod
    /\ Enter(c, [Idle EXCEPT !.pc = "open_insert", !.series = s])
    /\ UNCHANGED tables

\* openPeriod: INSERT INTO Vote_Period; UNIQUE uq_vote_period.
OpenInsert(c) ==
    /\ At(c, "open_insert")
    /\ period' = [period EXCEPT ![slot[c].series] = IF @ = NoPeriod THEN "OPEN" ELSE @]
    /\ Finish(c)
    /\ UNCHANGED <<vote, ranking, seriesStatus, decision>>

-----------------------------------------------------------------------------
(* Voting. *)

VotersOf(s) == {m \in active : vote[s][m] # NoVote}

\* getBoardVoteProgress
required == Cardinality(active)
received(s) == Cardinality(VotersOf(s))

\* Mutant of VoteRead: only the window is tested.
VoteReadByDay(c, s, m, score) ==
    /\ m \in active
    /\ period[s] # NoPeriod
    /\ today \in FirstDay .. LastDay
    /\ Enter(c, [Idle EXCEPT !.pc = "vote_upsert", !.series = s, !.member = m, !.score = score])
    /\ UNCHANGED tables

\* castVote: the period is open, today in its window.
VoteRead(c, s, m, score) ==
    /\ m \in active
    /\ period[s] = "OPEN"
    /\ today \in FirstDay .. LastDay
    /\ Enter(c, [Idle EXCEPT !.pc = "vote_upsert", !.series = s, !.member = m, !.score = score])
    /\ UNCHANGED tables

\* castVote: INSERT INTO Vote ... ON DUPLICATE KEY UPDATE score
VoteUpsert(c) ==
    /\ At(c, "vote_upsert")
    /\ vote' = [vote EXCEPT ![slot[c].series][slot[c].member] = slot[c].score]
    /\ Goto(c, "vote_progress")
    /\ UNCHANGED <<period, ranking, seriesStatus, decision>>

\* Mutant of VoteProgress: more votes than members are awaited.
VoteProgressStrict(c) ==
    /\ At(c, "vote_progress")
    /\ IF required > 0 /\ received(slot[c].series) > required
       THEN Goto(c, "finalize_close")
       ELSE Finish(c)
    /\ UNCHANGED tables

\* castVote: the last vote closes the period.
VoteProgress(c) ==
    /\ At(c, "vote_progress")
    /\ IF required > 0 /\ received(slot[c].series) >= required
       THEN Goto(c, "finalize_close")
       ELSE Finish(c)
    /\ UNCHANGED tables

\* Mutant of CloseRead: the votes are not counted.
CloseReadUncounted(c, s) ==
    /\ required > 0
    /\ Enter(c, [Idle EXCEPT !.pc = "finalize_close", !.series = s])
    /\ UNCHANGED tables

\* closePeriod: an administrator closes a period on which everybody has voted.
CloseRead(c, s) ==
    /\ required > 0
    /\ received(s) >= required
    /\ Enter(c, [Idle EXCEPT !.pc = "finalize_close", !.series = s])
    /\ UNCHANGED tables

-----------------------------------------------------------------------------
(* Closing and ranking: finalizePeriod. *)

\* UPDATE Vote_Period SET status = 'CLOSED', if there is such a period.
FinalizeClose(c) ==
    /\ At(c, "finalize_close")
    /\ LET s == slot[c].series IN
       \/ /\ period[s] = NoPeriod
          /\ Finish(c)
          /\ UNCHANGED period
       \/ /\ period[s] # NoPeriod
          /\ period' = [period EXCEPT ![s] = "CLOSED"]
          /\ Goto(c, "finalize_select")
    /\ UNCHANGED <<vote, ranking, seriesStatus, decision>>

\* AVG(score), kept as a fraction.
Average(s) ==
    [sum |-> MapThenSumSet(LAMBDA m : vote[s][m], VotersOf(s)), count |-> Cardinality(VotersOf(s))]
Above(a, b) == a.sum * b.count > b.sum * a.count

\* SELECT the closed periods of the window, with their averages.
FinalizeSelect(c) ==
    /\ At(c, "finalize_select")
    /\ LET rows == {s \in Series : period[s] = "CLOSED" /\ VotersOf(s) # {}} IN
       slot' = [slot EXCEPT ![c].rows = rows,
                            ![c].totals = [s \in rows |-> Average(s)],
                            ![c].pc = "finalize_rank"]
    /\ UNCHANGED tables

\* Below 2.5, below 3.5.
riskLevelForScore(a) ==
    CASE 2 * a.sum < 5 * a.count -> "HIGH"
      [] 5 * a.count <= 2 * a.sum /\ 2 * a.sum < 7 * a.count -> "MEDIUM"
      [] OTHER -> "LOW"

\* ORDER BY total DESC, series_id ASC
FirstRow(rows, totals) ==
    CHOOSE s \in rows : \A t \in rows \ {s} :
        \/ Above(totals[s], totals[t])
        \/ ~Above(totals[t], totals[s]) /\ s < t

\* Mutant of rankPosition: ties leave no gap behind them.
denseRankPosition(q, s) ==
    IF q.index > 0 /\ ~Above(q.previous, q.totals[s]) THEN q.position ELSE q.position + 1

\* Rows with the same total share a position, the next one counts them all.
rankPosition(q, s) ==
    IF q.index > 0 /\ ~Above(q.previous, q.totals[s]) THEN q.position ELSE q.index + 1

\* currentRanking.risk: the one of the period that is being closed.
currentRisk(q, s, level) == IF s = q.series THEN level ELSE q.risk

\* One turn of the loop: INSERT INTO Ranking ... ON DUPLICATE KEY UPDATE
FinalizeRank(c) ==
    /\ At(c, "finalize_rank")
    /\ slot[c].rows # {}
    /\ LET q == slot[c]
           s == FirstRow(q.rows, q.totals)
           position == rankPosition(q, s)
           level == riskLevelForScore(q.totals[s])
       IN /\ ranking' = [ranking EXCEPT ![s] = [rank |-> position, risk |-> level]]
          /\ slot' = [slot EXCEPT ![c].rows = @ \ {s},
                                  ![c].index = @ + 1,
                                  ![c].previous = q.totals[s],
                                  ![c].position = position,
                                  ![c].risk = currentRisk(q, s, level)]
    /\ UNCHANGED <<period, vote, seriesStatus, decision>>

\* Mutants of FinalizeMark: a medium risk is marked instead; the other spelling.
FinalizeMarkMedium(c) ==
    /\ At(c, "finalize_rank")
    /\ slot[c].rows = {}
    /\ seriesStatus' = [seriesStatus EXCEPT ![slot[c].series] =
                            IF slot[c].risk = "MEDIUM" THEN "AT_RISK" ELSE @]
    /\ Finish(c)
    /\ UNCHANGED <<period, vote, ranking, decision>>
FinalizeMarkMisspelt(c) ==
    /\ At(c, "finalize_rank")
    /\ slot[c].rows = {}
    /\ seriesStatus' = [seriesStatus EXCEPT ![slot[c].series] =
                            IF slot[c].risk = "HIGH" THEN "ATRISK" ELSE @]
    /\ Finish(c)
    /\ UNCHANGED <<period, vote, ranking, decision>>

\* markSeriesAtRiskAndNotify: UPDATE Series SET series_status = 'AT_RISK'
FinalizeMark(c) ==
    /\ At(c, "finalize_rank")
    /\ slot[c].rows = {}
    /\ seriesStatus' = [seriesStatus EXCEPT ![slot[c].series] =
                            IF slot[c].risk = "HIGH" THEN "AT_RISK" ELSE @]
    /\ Finish(c)
    /\ UNCHANGED <<period, vote, ranking, decision>>

-----------------------------------------------------------------------------
(* Decisions. *)

nextStatus == [d \in DecisionType |-> CASE d = "CANCEL" -> "CANCELLED"
                                        [] d = "HIATUS" -> "HIATUS"
                                        [] OTHER -> "ACTIVE"]

\* decide: the series is not terminated.
DecideRead(c, s, d) ==
    /\ seriesStatus[s] \notin {"CANCELLED", "COMPLETED"}
    /\ Enter(c, [Idle EXCEPT !.pc = "decide_commit", !.series = s, !.decision = d])
    /\ UNCHANGED tables

\* decide: one transaction, INSERT INTO Decision and UPDATE Series.
DecideCommit(c) ==
    /\ At(c, "decide_commit")
    /\ LET s == slot[c].series
           d == slot[c].decision
       IN /\ decision' = [decision EXCEPT ![s] = d]
          /\ seriesStatus' = [seriesStatus EXCEPT ![s] = nextStatus[d]]
    /\ Finish(c)
    /\ UNCHANGED <<period, vote, ranking>>

-----------------------------------------------------------------------------
Call(c) ==
    \E s \in Series :
        \/ OpenRead(c, s)
        \/ \E m \in Members, score \in Scores : VoteRead(c, s, m, score)
        \/ CloseRead(c, s)
        \/ \E d \in Decisions : DecideRead(c, s, d)

Progress(c) ==
    \/ OpenInsert(c)
    \/ VoteUpsert(c) \/ VoteProgress(c)
    \/ FinalizeClose(c) \/ FinalizeSelect(c) \/ FinalizeRank(c) \/ FinalizeMark(c)
    \/ DecideCommit(c)

\* The process dies, or loses its connection: what has been committed stays.
Fail(c) ==
    /\ Faults
    /\ ~At(c, "idle")
    /\ Finish(c)
    /\ UNCHANGED tables

\* Midnight.
NextDay ==
    /\ today < MaxDay
    /\ today' = today + 1
    /\ UNCHANGED <<tables, slot>>

VotingNext ==
    \/ \E c \in Slots : (Call(c) \/ Progress(c) \/ Fail(c)) /\ UNCHANGED <<active, today>>
    \/ NextDay /\ UNCHANGED active

VotingSpec == VotingInit /\ [][VotingNext]_votingVars

\* The event loop resumes every handler whose statement has returned.
FairVotingSpec == VotingSpec /\ \A c \in Slots : WF_votingVars(Progress(c) /\ UNCHANGED <<active, today>>)

-----------------------------------------------------------------------------
(* What holds however the requests interleave. *)

Quiet == \A c \in Slots : At(c, "idle")

\* A period is closed with the votes of the whole board (castVote and closePeriod
\* compare the numbers, finalizePeriod does not compare them again).
ClosedIsComplete ==
    \A s \in Series : period[s] = "CLOSED" =>
        active # {} /\ \A m \in active : vote[s][m] # NoVote

\* No period is closed before its first day: closing needs a vote, a vote the day.
NothingIsClosedEarly == \A s \in Series : period[s] = "CLOSED" => today >= FirstDay

\* For a single series, while nothing dies: once all requests have returned, a series ranked with a high risk
\* is AT_RISK until the board decides about it, even if a vote that came too late has
\* been ranked by a second closing at the same time.
HighRiskIsMarked ==
    Quiet => \A s \in Series :
        ranking[s].risk = "HIGH" /\ decision[s] = NoDecision => seriesStatus[s] = "AT_RISK"

\* With fair handlers and no deaths the last vote closes the period, even if two
\* members hand in the last two votes at once.
FullBallotCloses ==
    \A s \in Series :
        period[s] = "OPEN" /\ active # {} /\ VotersOf(s) = active ~> period[s] = "CLOSED"

-----------------------------------------------------------------------------
(* What holds while the requests run one after the other. *)

ClosedPeriods == {s \in Series : period[s] = "CLOSED"}

\* The ranks follow the votes: when a closing has written its last rank, each series of
\* the window stands behind the series with a higher average, shares its rank with those
\* of the same average, and has the risk level of BR-MONEY-007; so the next closing also
\* repairs the ranks that a request left half written when it died.
RankingsFollowVotes ==
    \A c \in Slots : At(c, "finalize_rank") /\ slot[c].rows = {} =>
        \A s \in ClosedPeriods :
            LET a == Average(s) IN
            /\ ranking[s].rank = 1 + Cardinality({t \in ClosedPeriods : Above(Average(t), a)})
            /\ ranking[s].risk = "HIGH" <=> a.sum * 2 < a.count * 5
            /\ ranking[s].risk = "LOW" <=> a.sum * 2 >= a.count * 7

\* With one request at a time handlers, deaths and midnight together implement the board's
\* ballot: only members vote, on open periods; a period closes with all votes, which are
\* final; and a series is put at risk by nothing but the low average of its closed period.
Board == INSTANCE Ballot
ImplementsBallot == Board!BallotSpec

\* The votes of a closed period are final.
ClosedVotesStand ==
    [][\A s \in Series : period[s] = "CLOSED" => vote'[s] = vote[s] /\ period'[s] = "CLOSED"]_votingVars

-----------------------------------------------------------------------------
(* What the repository says of the program and the program does not do. *)

\* "A terminated series (cancelled/completed) is final" (decisions.service.ts, decide).
TerminatedIsFinal ==
    [][\A s \in Series : seriesStatus[s] = "CANCELLED" => seriesStatus'[s] = "CANCELLED"]_votingVars
=============================================================================
