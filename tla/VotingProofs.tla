---------------------------- MODULE VotingProofs ----------------------------
(***************************************************************************)
(* Proofs about Voting, for any board, any series, any number of requests  *)
(* in flight, with or without failures; from "One request at a time" on,   *)
(* the sections name what else they assume.                                *)
(***************************************************************************)
EXTENDS Voting, NumberLemmas

\* The whole board has voted on the series.
Whole(s) == active # {} /\ \A m \in active : vote[s][m] # NoVote

\* The rows, and the shape of the requests.
Shaped ==
    /\ DOMAIN period = Series
    /\ vote \in [Series -> [Members -> Scores \cup {NoVote}]]
    /\ active \subseteq Members
    /\ today \in Nat
    /\ DOMAIN slot = Slots
    /\ \A c \in Slots : DOMAIN slot[c] = DOMAIN Idle

\* What the request in a slot has learnt before its next statement.
Knows(q) ==
    /\ q.pc # "idle" => q.series \in Series
    /\ q.pc = "vote_upsert" => q.member \in Members /\ q.score \in Scores /\ FirstDay <= today
    /\ q.pc = "finalize_close" => Whole(q.series)

\* A vote has been cast on a day of the window, or after it.
VotesAreTimely ==
    \A s \in Series, m \in Members : vote[s][m] # NoVote => FirstDay <= today

VotingInv ==
    /\ Shaped
    /\ \A c \in Slots : Knows(slot[c])
    /\ VotesAreTimely
    /\ ClosedIsComplete

-----------------------------------------------------------------------------
\* getBoardVoteProgress compares two numbers: if as many members have voted as the
\* board has, every one of them has.
LEMMA EveryMemberCounted ==
    ASSUME active \subseteq Members, NEW s \in Series, required > 0, received(s) >= required
    PROVE  Whole(s)
  <1>1. IsFiniteSet(active)
    BY FS_Subset, BoardAssumption
  <1>2. VotersOf(s) \subseteq active
    BY DEF VotersOf
  <1>3. VotersOf(s) = active
    <2>1. Cardinality(VotersOf(s)) <= Cardinality(active)
      BY <1>1, <1>2, FS_Subset
    <2>2. Cardinality(VotersOf(s)) \in Nat /\ Cardinality(active) \in Nat
      BY <1>1, <1>2, FS_Subset, FS_CardinalityType
    <2>3. Cardinality(VotersOf(s)) = Cardinality(active)
      BY <2>1, <2>2 DEF required, received
    <2> QED  BY <1>1, <1>2, <2>3, FS_Subset
  <1>4. active # {}
    BY FS_EmptySet DEF required
  <1> QED  BY <1>3, <1>4 DEF Whole, VotersOf

\* No score that a member can give is the mark for a missing vote.
LEMMA ScoresAreVotes == NoVote \notin Scores
  BY BoardAssumption DEF NoVote

\* Nothing holds before the first request.
LEMMA InitVotingInv == VotingInit => VotingInv
  <1> SUFFICES ASSUME VotingInit PROVE VotingInv
    OBVIOUS
  <1>1. Shaped
    BY DEF VotingInit, Shaped
  <1>2. \A c \in Slots : Knows(slot[c])
    BY DEF VotingInit, Knows, Idle
  <1>3. VotesAreTimely /\ ClosedIsComplete
    BY DEF VotingInit, VotesAreTimely, ClosedIsComplete, NoPeriod
  <1> QED  BY <1>1, <1>2, <1>3 DEF VotingInv

\* A step of one slot that takes no vote away, adds none before its time and closes no
\* period that lacks a vote, and after which that slot still knows what it must.
LEMMA SlotStep ==
    ASSUME VotingInv, NEW c \in Slots, NEW request,
           slot' = [slot EXCEPT ![c] = request], DOMAIN request = DOMAIN Idle, Knows(request),
           DOMAIN period' = Series,
           vote' \in [Series -> [Members -> Scores \cup {NoVote}]],
           UNCHANGED <<active, today>>,
           \A s \in Series, m \in Members : vote[s][m] # NoVote => vote'[s][m] # NoVote,
           \A s \in Series, m \in Members :
               vote'[s][m] # NoVote => vote[s][m] # NoVote \/ FirstDay <= today,
           \A s \in Series : period'[s] = "CLOSED" => period[s] = "CLOSED" \/ Whole(s)
    PROVE  VotingInv'
  <1>1. Shaped'
    BY DEF VotingInv, Shaped
  <1>2. ASSUME NEW s \in Series, Whole(s) PROVE Whole(s)'
    BY <1>2 DEF VotingInv, Shaped, Whole
  <1>3. ASSUME NEW d \in Slots PROVE Knows(slot[d])'
    <2>1. slot'[d] = IF d = c THEN request ELSE slot[d]
      BY DEF VotingInv, Shaped
    <2>2. Knows(slot'[d])
      BY <2>1 DEF VotingInv
    <2> QED  BY <1>2, <2>2 DEF Knows
  <1>4. VotesAreTimely'
    BY DEF VotingInv, VotesAreTimely
  <1>5. ClosedIsComplete'
    <2> SUFFICES ASSUME NEW s \in Series, period'[s] = "CLOSED" PROVE Whole(s)'
      BY DEF ClosedIsComplete, Whole
    <2>1. Whole(s)
      BY DEF VotingInv, ClosedIsComplete, Whole
    <2> QED  BY <1>2, <2>1
  <1> QED  BY <1>1, <1>3, <1>4, <1>5 DEF VotingInv

\* Most statements write neither a vote nor the status of a period.
LEMMA QuietStep ==
    ASSUME VotingInv, NEW c \in Slots, NEW request,
           slot' = [slot EXCEPT ![c] = request], DOMAIN request = DOMAIN Idle, Knows(request),
           UNCHANGED <<period, vote, active, today>>
    PROVE  VotingInv'
  BY SlotStep DEF VotingInv, Shaped

\* A handler that returns, or dies, leaves an empty slot.
LEMMA FinishQuiet ==
    ASSUME VotingInv, NEW c \in Slots, Finish(c), UNCHANGED <<period, vote, active, today>>
    PROVE  VotingInv'
  <1>1. Knows(Idle)
    BY DEF Knows, Idle
  <1> QED  BY <1>1, QuietStep DEF Finish

\* A handler that goes on to a statement that needs no more than it knows.
LEMMA GotoQuiet ==
    ASSUME VotingInv, NEW c \in Slots, ~At(c, "idle"),
           NEW step \in {"finalize_select", "finalize_rank", "finalize_close", "vote_progress"},
           Goto(c, step), step = "finalize_close" => Whole(slot[c].series),
           UNCHANGED <<period, vote, active, today>>
    PROVE  VotingInv'
  <1> DEFINE request == [slot[c] EXCEPT !.pc = step]
  <1>1. slot' = [slot EXCEPT ![c] = request]
    BY DEF Goto
  <1>2. DOMAIN request = DOMAIN Idle
    BY DEF VotingInv, Shaped
  <1>3. request.pc = step /\ request.series = slot[c].series
    BY DEF VotingInv, Shaped, Idle
  <1>4. slot[c].series \in Series
    BY DEF VotingInv, Knows, At
  <1>5. Knows(request)
    BY <1>3, <1>4 DEF Knows
  <1> HIDE DEF request
  <1> QED  BY <1>1, <1>2, <1>5, QuietStep

\* Calls only remember what they have read.
LEMMA CallKeeps ==
    ASSUME VotingInv, NEW c \in Slots, Call(c), UNCHANGED <<active, today>>
    PROVE  VotingInv'
  <1>1. ASSUME NEW s \in Series, OpenRead(c, s) PROVE VotingInv'
    <2> DEFINE request == [Idle EXCEPT !.pc = "open_insert", !.series = s]
    <2>1. DOMAIN request = DOMAIN Idle /\ Knows(request)
      BY DEF Idle, Knows
    <2> QED  BY <1>1, <2>1, QuietStep DEF OpenRead, Enter, tables
  <1>2. ASSUME NEW s \in Series, NEW m \in Members, NEW score \in Scores, VoteRead(c, s, m, score)
        PROVE  VotingInv'
    <2> DEFINE request == [Idle EXCEPT !.pc = "vote_upsert", !.series = s, !.member = m,
                                       !.score = score]
    <2>1. FirstDay <= today
      BY <1>2, WindowAssumption DEF VoteRead, VotingInv, Shaped
    <2>2. DOMAIN request = DOMAIN Idle /\ Knows(request)
      BY <2>1 DEF Idle, Knows
    <2> QED  BY <1>2, <2>2, QuietStep DEF VoteRead, Enter, tables
  <1>3. ASSUME NEW s \in Series, CloseRead(c, s) PROVE VotingInv'
    <2> DEFINE request == [Idle EXCEPT !.pc = "finalize_close", !.series = s]
    <2>1. Whole(s)
      BY <1>3, EveryMemberCounted DEF CloseRead, VotingInv, Shaped
    <2>2. DOMAIN request = DOMAIN Idle /\ Knows(request)
      BY <2>1 DEF Idle, Knows
    <2> QED  BY <1>3, <2>2, QuietStep DEF CloseRead, Enter, tables
  <1>4. ASSUME NEW s \in Series, NEW d \in Decisions, DecideRead(c, s, d) PROVE VotingInv'
    <2> DEFINE request == [Idle EXCEPT !.pc = "decide_commit", !.series = s, !.decision = d]
    <2>1. DOMAIN request = DOMAIN Idle /\ Knows(request)
      BY DEF Idle, Knows
    <2> QED  BY <1>4, <2>1, QuietStep DEF DecideRead, Enter, tables
  <1> QED  BY <1>1, <1>2, <1>3, <1>4 DEF Call

\* A new period is open, and no period is closed by opening another.
LEMMA OpenInsertKeeps ==
    ASSUME VotingInv, NEW c \in Slots, OpenInsert(c), UNCHANGED <<active, today>>
    PROVE  VotingInv'
  <1>1. DOMAIN period' = Series /\ vote' = vote
    BY DEF OpenInsert, VotingInv, Shaped
  <1>2. \A s \in Series : period'[s] = "CLOSED" => period[s] = "CLOSED"
    BY DEF OpenInsert, VotingInv, Shaped
  <1>3. Knows(Idle) /\ slot' = [slot EXCEPT ![c] = Idle]
    BY DEF OpenInsert, Finish, Knows, Idle
  <1> QED  BY <1>1, <1>2, <1>3, SlotStep DEF VotingInv, Shaped

\* A vote is written on its day, or after it, and never taken away.
LEMMA VoteUpsertKeeps ==
    ASSUME VotingInv, NEW c \in Slots, VoteUpsert(c), UNCHANGED <<active, today>>
    PROVE  VotingInv'
  <1> DEFINE request == [slot[c] EXCEPT !.pc = "vote_progress"]
  <1>1. /\ slot[c].series \in Series
        /\ slot[c].member \in Members
        /\ slot[c].score \in Scores
        /\ FirstDay <= today
    BY DEF VoteUpsert, At, VotingInv, Knows
  <1>2. vote' = [vote EXCEPT ![slot[c].series][slot[c].member] = slot[c].score]
    BY DEF VoteUpsert
  <1>3. vote' \in [Series -> [Members -> Scores \cup {NoVote}]]
    BY <1>1, <1>2 DEF VotingInv, Shaped
  <1>4. \A s \in Series, m \in Members : vote[s][m] # NoVote => vote'[s][m] # NoVote
    BY <1>1, <1>2, ScoresAreVotes DEF VotingInv, Shaped
  <1>5. slot' = [slot EXCEPT ![c] = request]
    BY DEF VoteUpsert, Goto
  <1>6. DOMAIN request = DOMAIN Idle /\ Knows(request)
    BY <1>1 DEF VotingInv, Shaped, Knows, Idle
  <1>7. UNCHANGED period /\ DOMAIN period = Series
    BY DEF VoteUpsert, VotingInv, Shaped
  <1> HIDE DEF request
  <1> QED  BY <1>1, <1>3, <1>4, <1>5, <1>6, <1>7, SlotStep

\* A period is closed only by a request that has counted the votes.
LEMMA FinalizeCloseKeeps ==
    ASSUME VotingInv, NEW c \in Slots, FinalizeClose(c), UNCHANGED <<active, today>>
    PROVE  VotingInv'
  <1>1. Whole(slot[c].series) /\ slot[c].series \in Series
    BY DEF FinalizeClose, At, VotingInv, Knows
  <1>2. CASE Finish(c) /\ UNCHANGED period
    BY <1>2, FinishQuiet DEF FinalizeClose
  <1>3. CASE /\ period' = [period EXCEPT ![slot[c].series] = "CLOSED"]
             /\ Goto(c, "finalize_select")
    <2> DEFINE request == [slot[c] EXCEPT !.pc = "finalize_select"]
    <2>1. slot' = [slot EXCEPT ![c] = request]
      BY <1>3 DEF Goto
    <2>2. DOMAIN request = DOMAIN Idle /\ Knows(request)
      BY <1>1 DEF VotingInv, Shaped, Knows, Idle
    <2>3. /\ DOMAIN period' = Series
          /\ \A s \in Series : period'[s] = "CLOSED" => period[s] = "CLOSED" \/ Whole(s)
      BY <1>1, <1>3 DEF VotingInv, Shaped
    <2>4. UNCHANGED vote /\ vote \in [Series -> [Members -> Scores \cup {NoVote}]]
      BY DEF FinalizeClose, VotingInv, Shaped
    <2> HIDE DEF request
    <2> QED  BY <2>1, <2>2, <2>3, <2>4, SlotStep
  <1> QED  BY <1>2, <1>3 DEF FinalizeClose

\* Ranking reads the votes and the periods and writes neither.
LEMMA RankingKeeps ==
    ASSUME VotingInv, NEW c \in Slots, UNCHANGED <<active, today>>,
           FinalizeSelect(c) \/ FinalizeRank(c) \/ FinalizeMark(c)
    PROVE  VotingInv'
  <1>1. CASE FinalizeMark(c)
    BY <1>1, FinishQuiet DEF FinalizeMark
  <1>2. CASE FinalizeSelect(c) \/ FinalizeRank(c)
    <2>1. PICK request : /\ slot' = [slot EXCEPT ![c] = request]
                         /\ DOMAIN request = DOMAIN slot[c]
                         /\ request.series = slot[c].series
                         /\ request.pc = "finalize_rank"
      <3>1. slot[c].pc \in {"finalize_select", "finalize_rank"}
        BY <1>2 DEF FinalizeSelect, FinalizeRank, At
      <3>2. CASE FinalizeSelect(c)
        <4> DEFINE chosen == {s \in Series : period[s] = "CLOSED" /\ VotersOf(s) # {}}
                   request == [slot[c] EXCEPT !.rows = chosen,
                                              !.totals = [s \in chosen |-> Average(s)],
                                              !.pc = "finalize_rank"]
        <4>1. slot' = [slot EXCEPT ![c] = request]
          BY <3>2 DEF FinalizeSelect, VotingInv, Shaped
        <4>2. /\ DOMAIN request = DOMAIN slot[c]
              /\ request.series = slot[c].series
              /\ request.pc = "finalize_rank"
          BY DEF VotingInv, Shaped, Idle
        <4> QED  BY <4>1, <4>2
      <3>3. CASE FinalizeRank(c)
        <4> DEFINE q == slot[c]
                   s == FirstRow(q.rows, q.totals)
                   position == rankPosition(q, s)
                   level == riskLevelForScore(q.totals[s])
                   request == [q EXCEPT !.rows = @ \ {s},
                                        !.index = @ + 1,
                                        !.previous = q.totals[s],
                                        !.position = position,
                                        !.risk = currentRisk(q, s, level)]
        <4>1. slot' = [slot EXCEPT ![c] = request]
          BY <3>3 DEF FinalizeRank, VotingInv, Shaped
        <4>2. /\ DOMAIN request = DOMAIN slot[c]
              /\ request.series = slot[c].series
              /\ request.pc = "finalize_rank"
          BY <3>3 DEF VotingInv, Shaped, Idle, FinalizeRank, At
        <4> QED  BY <4>1, <4>2
      <3> QED  BY <1>2, <3>2, <3>3
    <2>2. slot[c].series \in Series
      BY <1>2 DEF FinalizeSelect, FinalizeRank, At, VotingInv, Knows
    <2>3. DOMAIN request = DOMAIN Idle /\ Knows(request)
      BY <2>1, <2>2 DEF VotingInv, Shaped, Knows
    <2>4. UNCHANGED <<period, vote>>
      BY <1>2 DEF FinalizeSelect, FinalizeRank, tables
    <2> QED  BY <2>1, <2>3, <2>4, QuietStep
  <1> QED  BY <1>1, <1>2

\* Every statement of every handler.
LEMMA ProgressKeeps ==
    ASSUME VotingInv, NEW c \in Slots, Progress(c), UNCHANGED <<active, today>>
    PROVE  VotingInv'
  <1>1. CASE VoteProgress(c)
    <2>1. CASE /\ required > 0 /\ received(slot[c].series) >= required
               /\ Goto(c, "finalize_close")
      <3>1. slot[c].series \in Series
        BY <1>1 DEF VoteProgress, At, VotingInv, Knows
      <3>2. Whole(slot[c].series)
        BY <2>1, <3>1, EveryMemberCounted DEF VotingInv, Shaped
      <3> QED  BY <1>1, <2>1, <3>2, GotoQuiet DEF VoteProgress, At, tables
    <2>2. CASE Finish(c)
      BY <1>1, <2>2, FinishQuiet DEF VoteProgress, tables
    <2> QED  BY <1>1, <2>1, <2>2 DEF VoteProgress
  <1>2. CASE DecideCommit(c)
    BY <1>2, FinishQuiet DEF DecideCommit
  <1> QED
    BY <1>1, <1>2, OpenInsertKeeps, VoteUpsertKeeps, FinalizeCloseKeeps, RankingKeeps DEF Progress

\* Midnight makes no vote untimely.
LEMMA NextDayKeeps ==
    ASSUME VotingInv, NextDay, UNCHANGED active
    PROVE  VotingInv'
  <1>1. today \in Nat /\ today' = today + 1 /\ UNCHANGED <<period, vote, slot>>
    BY DEF NextDay, tables, VotingInv, Shaped
  <1>2. FirstDay <= today => FirstDay <= today'
    BY <1>1, WindowAssumption
  <1>3. Shaped'
    BY <1>1 DEF VotingInv, Shaped
  <1>4. \A c \in Slots : Knows(slot[c])'
    BY <1>1, <1>2 DEF VotingInv, Knows, Whole
  <1>5. VotesAreTimely' /\ ClosedIsComplete'
    BY <1>1, <1>2 DEF VotingInv, VotesAreTimely, ClosedIsComplete
  <1> QED  BY <1>3, <1>4, <1>5 DEF VotingInv

\* What each request knows, when votes are cast and when periods are closed: together
\* inductive, for any board and any number of requests.
THEOREM VotingInvariant == VotingSpec => []VotingInv
  <1>1. VotingInv /\ [VotingNext]_votingVars => VotingInv'
    <2> SUFFICES ASSUME VotingInv, [VotingNext]_votingVars PROVE VotingInv'
      OBVIOUS
    <2>1. CASE UNCHANGED votingVars
      BY <2>1 DEF votingVars, tables, VotingInv, Shaped, Knows, Whole, VotesAreTimely,
                  ClosedIsComplete
    <2>2. ASSUME NEW c \in Slots, Call(c) \/ Progress(c) \/ Fail(c), UNCHANGED <<active, today>>
          PROVE  VotingInv'
      BY <2>2, CallKeeps, ProgressKeeps, FinishQuiet DEF Fail, tables
    <2>3. CASE NextDay /\ UNCHANGED active
      BY <2>3, NextDayKeeps
    <2> QED  BY <2>1, <2>2, <2>3 DEF VotingNext
  <1> QED  BY <1>1, InitVotingInv, PTL DEF VotingSpec

\* However votes and closings race and wherever a request dies: a closed period has the
\* vote of every member of the board, and the board is not empty.
THEOREM ClosedStaysComplete == VotingSpec => []ClosedIsComplete
  <1>1. VotingInv => ClosedIsComplete
    BY DEF VotingInv
  <1> QED  BY <1>1, VotingInvariant, PTL

\* No period is closed before the first day of its window.
THEOREM NeverClosedEarly == VotingSpec => []NothingIsClosedEarly
  <1>1. VotingInv => NothingIsClosedEarly
    <2> SUFFICES ASSUME VotingInv, NEW s \in Series, period[s] = "CLOSED" PROVE FirstDay <= today
      BY WindowAssumption DEF NothingIsClosedEarly, VotingInv, Shaped
    <2>1. PICK m \in active : vote[s][m] # NoVote
      BY DEF VotingInv, ClosedIsComplete
    <2> QED  BY <2>1 DEF VotingInv, Shaped, VotesAreTimely
  <1> QED  BY <1>1, VotingInvariant, PTL

-----------------------------------------------------------------------------
(* Types. *)

\* The locals of a request that its next statement writes.
Typed(q) ==
    /\ q.pc \in Steps
    /\ q.rows \subseteq Series
    /\ q.index \in Nat /\ q.position \in Nat
    /\ q.risk \in RiskLevel
    /\ q.pc = "decide_commit" => q.decision \in Decisions

VotingTypes == VotingTypeOK /\ \A c \in Slots : Typed(slot[c])

\* A step of one slot keeps the types if it writes rows and locals of theirs.
LEMMA TypedStep ==
    ASSUME VotingInv, VotingTypes, NEW c \in Slots, NEW request,
           slot' = [slot EXCEPT ![c] = request], DOMAIN request = DOMAIN Idle, Typed(request),
           period' \in [Series -> {NoPeriod, "OPEN", "CLOSED"}],
           vote' \in [Series -> [Members -> Scores \cup {NoVote}]],
           ranking' \in [Series -> [rank : Nat, risk : RiskLevel]],
           seriesStatus' \in [Series -> SeriesStatus],
           decision' \in [Series -> DecisionType \cup {NoDecision}],
           UNCHANGED <<active, today>>
    PROVE  VotingTypes'
  <1>1. \A d \in Slots : slot'[d] = IF d = c THEN request ELSE slot[d]
    BY DEF VotingInv, Shaped
  <1>2. \A d \in Slots : Typed(slot[d])' /\ DOMAIN slot'[d] = DOMAIN Idle
    BY <1>1 DEF VotingTypes, VotingInv, Shaped, Typed
  <1> QED  BY <1>2 DEF VotingTypes, VotingTypeOK, Typed

\* A step of one slot that writes no row.
LEMMA TypedRead ==
    ASSUME VotingInv, VotingTypes, NEW c \in Slots, NEW request,
           slot' = [slot EXCEPT ![c] = request], DOMAIN request = DOMAIN Idle, Typed(request),
           UNCHANGED tables, UNCHANGED <<active, today>>
    PROVE  VotingTypes'
  <1>1. UNCHANGED <<period, vote, ranking, seriesStatus, decision>>
    BY DEF tables
  <1> QED  BY <1>1, TypedStep DEF VotingTypes, VotingTypeOK

\* An idle slot is typed.
LEMMA IdleTyped == Typed(Idle)
  <1> QED  BY DEF Typed, Idle, Steps, RiskLevel

\* The locals of a request that goes on to another statement.
LEMMA GotoTyped ==
    ASSUME VotingInv, VotingTypes, NEW c \in Slots, NEW step \in Steps \ {"decide_commit"}
    PROVE  /\ DOMAIN [slot[c] EXCEPT !.pc = step] = DOMAIN Idle
           /\ Typed([slot[c] EXCEPT !.pc = step])
  <1>1. DOMAIN slot[c] = DOMAIN Idle /\ Typed(slot[c])
    BY DEF VotingInv, Shaped, VotingTypes
  <1> QED  BY <1>1 DEF Typed, Idle

\* A call remembers what it was given.
LEMMA CallTyped ==
    ASSUME VotingInv, VotingTypes, NEW c \in Slots, Call(c), UNCHANGED <<active, today>>
    PROVE  VotingTypes'
  <1> USE DEF Enter, Typed, Idle, Steps, RiskLevel
  <1>1. ASSUME NEW s \in Series, OpenRead(c, s) \/ CloseRead(c, s) PROVE VotingTypes'
    <2>1. CASE OpenRead(c, s)
      <3>1. Typed([Idle EXCEPT !.pc = "open_insert", !.series = s])
        OBVIOUS
      <3> QED  BY <2>1, <3>1, TypedRead DEF OpenRead
    <2>2. CASE CloseRead(c, s)
      <3>1. Typed([Idle EXCEPT !.pc = "finalize_close", !.series = s])
        OBVIOUS
      <3> QED  BY <2>2, <3>1, TypedRead DEF CloseRead
    <2> QED  BY <1>1, <2>1, <2>2
  <1>2. ASSUME NEW s \in Series, NEW m \in Members, NEW score \in Scores, VoteRead(c, s, m, score)
        PROVE  VotingTypes'
    <2>1. Typed([Idle EXCEPT !.pc = "vote_upsert", !.series = s, !.member = m, !.score = score])
      OBVIOUS
    <2> QED  BY <1>2, <2>1, TypedRead DEF VoteRead
  <1>3. ASSUME NEW s \in Series, NEW d \in Decisions, DecideRead(c, s, d) PROVE VotingTypes'
    <2>1. Typed([Idle EXCEPT !.pc = "decide_commit", !.series = s, !.decision = d])
      OBVIOUS
    <2> QED  BY <1>3, <2>1, TypedRead DEF DecideRead
  <1> QED  BY <1>1, <1>2, <1>3 DEF Call

\* What one turn of the ranking loop leaves behind.
LEMMA RankTurn ==
    ASSUME VotingInv, VotingTypes, NEW c \in Slots, FinalizeRank(c)
    PROVE  \E s, position, level :
             /\ s = FirstRow(slot[c].rows, slot[c].totals)
             /\ position \in Nat /\ level \in RiskLevel
             /\ ranking' = [ranking EXCEPT ![s] = [rank |-> position, risk |-> level]]
             /\ slot' = [slot EXCEPT ![c] = slot'[c]]
             /\ DOMAIN slot'[c] = DOMAIN Idle
             /\ slot'[c].pc = "finalize_rank" /\ slot'[c].series = slot[c].series
             /\ slot'[c].rows = slot[c].rows \ {s}
             /\ slot'[c].index = slot[c].index + 1
             /\ slot'[c].position = position
             /\ slot'[c].risk = currentRisk(slot[c], s, level)
             /\ slot'[c].totals = slot[c].totals /\ slot'[c].previous = slot[c].totals[s]
             /\ position = rankPosition(slot[c], s) /\ level = riskLevelForScore(slot[c].totals[s])
  <1> DEFINE q == slot[c]
             s == FirstRow(q.rows, q.totals)
             position == rankPosition(q, s)
             level == riskLevelForScore(q.totals[s])
             request == [q EXCEPT !.rows = @ \ {s}, !.index = @ + 1, !.previous = q.totals[s],
                                  !.position = position, !.risk = currentRisk(q, s, level)]
  <1>1. slot' = [slot EXCEPT ![c] = request]
    BY DEF FinalizeRank, VotingInv, Shaped
  <1>2. slot'[c] = request /\ slot' = [slot EXCEPT ![c] = slot'[c]]
    BY <1>1 DEF VotingInv, Shaped
  <1>3. position \in Nat
    BY DEF rankPosition, VotingTypes, Typed
  <1>4. level \in RiskLevel
    BY DEF riskLevelForScore, RiskLevel
  <1>5. /\ DOMAIN request = DOMAIN Idle /\ request.pc = "finalize_rank" /\ request.series = q.series
        /\ request.rows = q.rows \ {s} /\ request.index = q.index + 1 /\ request.position = position
        /\ request.risk = currentRisk(q, s, level)
        /\ request.totals = q.totals /\ request.previous = q.totals[s]
    BY DEF VotingInv, Shaped, Idle, FinalizeRank, At
  <1>6. ranking' = [ranking EXCEPT ![s] = [rank |-> position, risk |-> level]]
    BY DEF FinalizeRank
  <1>8. position = rankPosition(slot[c], s) /\ level = riskLevelForScore(slot[c].totals[s])
    OBVIOUS
  <1> HIDE DEF request, position, level, s
  <1>7. s = FirstRow(slot[c].rows, slot[c].totals)
    BY DEF s
  <1> QED  BY <1>2, <1>3, <1>4, <1>5, <1>6, <1>7, <1>8

\* Every statement writes what its columns hold.
LEMMA ProgressTyped ==
    ASSUME VotingInv, VotingTypes, NEW c \in Slots, Progress(c), UNCHANGED <<active, today>>
    PROVE  VotingTypes'
  <1>0. /\ period \in [Series -> {NoPeriod, "OPEN", "CLOSED"}]
        /\ vote \in [Series -> [Members -> Scores \cup {NoVote}]]
        /\ ranking \in [Series -> [rank : Nat, risk : RiskLevel]]
        /\ seriesStatus \in [Series -> SeriesStatus]
        /\ decision \in [Series -> DecisionType \cup {NoDecision}]
    BY DEF VotingTypes, VotingTypeOK
  <1>1. CASE OpenInsert(c)
    <2>1. period' \in [Series -> {NoPeriod, "OPEN", "CLOSED"}]
      BY <1>0, <1>1 DEF OpenInsert
    <2> QED  BY <1>0, <1>1, <2>1, IdleTyped, TypedStep DEF OpenInsert, Finish
  <1>2. CASE VoteUpsert(c)
    <2>1. slot[c].series \in Series /\ slot[c].member \in Members /\ slot[c].score \in Scores
      BY <1>2 DEF VoteUpsert, At, VotingInv, Knows
    <2>2. vote' \in [Series -> [Members -> Scores \cup {NoVote}]]
      BY <1>0, <1>2, <2>1 DEF VoteUpsert
    <2>3. "vote_progress" \in Steps \ {"decide_commit"}
      BY DEF Steps
    <2> QED  BY <1>0, <1>2, <2>2, <2>3, GotoTyped, TypedStep DEF VoteUpsert, Goto
  <1>3. CASE VoteProgress(c)
    <2>1. "finalize_close" \in Steps \ {"decide_commit"}
      BY DEF Steps
    <2> QED  BY <1>3, <2>1, IdleTyped, GotoTyped, TypedRead DEF VoteProgress, Goto, Finish
  <1>4. CASE FinalizeClose(c)
    <2>1. period' \in [Series -> {NoPeriod, "OPEN", "CLOSED"}]
      BY <1>0, <1>4 DEF FinalizeClose
    <2>2. "finalize_select" \in Steps \ {"decide_commit"}
      BY DEF Steps
    <2> QED  BY <1>0, <1>4, <2>1, <2>2, IdleTyped, GotoTyped, TypedStep DEF FinalizeClose, Goto, Finish
  <1>5. CASE FinalizeSelect(c)
    <2> DEFINE chosen == {s \in Series : period[s] = "CLOSED" /\ VotersOf(s) # {}}
               request == [slot[c] EXCEPT !.rows = chosen, !.totals = [s \in chosen |-> Average(s)],
                                          !.pc = "finalize_rank"]
    <2>1. slot' = [slot EXCEPT ![c] = request]
      BY <1>5 DEF FinalizeSelect, VotingInv, Shaped
    <2>2. DOMAIN request = DOMAIN Idle /\ Typed(request)
      BY DEF VotingInv, Shaped, VotingTypes, Typed, Idle, Steps
    <2> HIDE DEF request
    <2> QED  BY <1>5, <2>1, <2>2, TypedRead DEF FinalizeSelect
  <1>6. CASE FinalizeRank(c)
    <2>1. PICK s, position, level :
             /\ position \in Nat /\ level \in RiskLevel
             /\ ranking' = [ranking EXCEPT ![s] = [rank |-> position, risk |-> level]]
             /\ slot' = [slot EXCEPT ![c] = slot'[c]]
             /\ DOMAIN slot'[c] = DOMAIN Idle
             /\ slot'[c].pc = "finalize_rank"
             /\ slot'[c].rows = slot[c].rows \ {s}
             /\ slot'[c].index = slot[c].index + 1
             /\ slot'[c].position = position
             /\ slot'[c].risk = currentRisk(slot[c], s, level)
      BY <1>6, RankTurn
    <2>2. Typed(slot'[c])
      BY <2>1 DEF VotingTypes, Typed, currentRisk, Steps
    <2>3. ranking' \in [Series -> [rank : Nat, risk : RiskLevel]]
      BY <1>0, <2>1
    <2> QED  BY <1>0, <1>6, <2>1, <2>2, <2>3, TypedStep DEF FinalizeRank
  <1>7. CASE FinalizeMark(c)
    <2>1. seriesStatus' \in [Series -> SeriesStatus]
      BY <1>0, <1>7 DEF FinalizeMark, SeriesStatus
    <2> QED  BY <1>0, <1>7, <2>1, IdleTyped, TypedStep DEF FinalizeMark, Finish
  <1>8. CASE DecideCommit(c)
    <2>1. slot[c].decision \in DecisionType
      BY <1>8, BoardAssumption DEF DecideCommit, At, VotingTypes, Typed, DecisionType
    <2>2. nextStatus[slot[c].decision] \in SeriesStatus
      BY <2>1 DEF nextStatus, SeriesStatus
    <2>3. /\ seriesStatus' \in [Series -> SeriesStatus]
          /\ decision' \in [Series -> DecisionType \cup {NoDecision}]
      BY <1>0, <1>8, <2>1, <2>2 DEF DecideCommit
    <2> QED  BY <1>0, <1>8, <2>3, IdleTyped, TypedStep DEF DecideCommit, Finish
  <1> QED  BY <1>1, <1>2, <1>3, <1>4, <1>5, <1>6, <1>7, <1>8 DEF Progress

\* Every row and every local keeps its type.
THEOREM VotingTypesHold == VotingSpec => []VotingTypes
  <1>1. VotingInit => VotingTypes
    <2> SUFFICES ASSUME VotingInit PROVE VotingTypes
      OBVIOUS
    <2>1. VotingTypeOK
      BY WindowAssumption DEF VotingInit, VotingTypeOK, NoRanking, RiskLevel, SeriesStatus, Idle, Steps
    <2>2. \A c \in Slots : Typed(slot[c])
      BY IdleTyped DEF VotingInit
    <2> QED  BY <2>1, <2>2 DEF VotingTypes
  <1>2. VotingInv /\ VotingTypes /\ [VotingNext]_votingVars => VotingTypes'
    <2> SUFFICES ASSUME VotingInv, VotingTypes, [VotingNext]_votingVars PROVE VotingTypes'
      OBVIOUS
    <2>1. CASE UNCHANGED votingVars
      BY <2>1 DEF votingVars, tables, VotingTypes, VotingTypeOK, Typed
    <2>2. ASSUME NEW c \in Slots, Call(c) \/ Progress(c) \/ Fail(c), UNCHANGED <<active, today>>
          PROVE  VotingTypes'
      BY <2>2, CallTyped, ProgressTyped, IdleTyped, TypedRead DEF Fail, Finish
    <2>3. CASE NextDay /\ UNCHANGED active
      BY <2>3, WindowAssumption DEF NextDay, tables, VotingTypes, VotingTypeOK, Typed
    <2> QED  BY <2>1, <2>2, <2>3 DEF VotingNext
  <1> QED  BY <1>1, <1>2, VotingInvariant, PTL DEF VotingSpec

\* ... and so the tables do.
THEOREM VotingTypesCorrect == VotingSpec => []VotingTypeOK
  <1>1. VotingTypes => VotingTypeOK
    BY DEF VotingTypes
  <1> QED  BY <1>1, VotingTypesHold, PTL

-----------------------------------------------------------------------------
(* One request at a time. *)

OneVoter == \A c, d \in Slots : c = d

\* A vote that has been admitted finds its period as castVote has read it.
Admitted == \A c \in Slots : At(c, "vote_upsert") => period[slot[c].series] = "OPEN"

\* Nothing but a call leads to the statement that writes a vote.
LEMMA AdmittedStep ==
    ASSUME VotingInv, OneVoter, Admitted, [VotingNext]_votingVars
    PROVE  Admitted'
  <1>1. CASE UNCHANGED votingVars
    BY <1>1 DEF votingVars, tables, Admitted, At
  <1>2. CASE NextDay
    BY <1>2 DEF NextDay, tables, Admitted, At
  <1>3. ASSUME NEW c \in Slots, Call(c) \/ Progress(c) \/ Fail(c) PROVE Admitted'
    <2>1. DOMAIN slot = Slots /\ DOMAIN slot[c] = DOMAIN Idle /\ \A d \in Slots : d = c
      BY DEF VotingInv, Shaped, OneVoter
    <2> SUFFICES ASSUME slot'[c].pc = "vote_upsert" PROVE period'[slot'[c].series] = "OPEN"
      BY <2>1 DEF Admitted, At
    <2>2. CASE Call(c)
      <3>1. PICK s \in Series : \/ OpenRead(c, s)
                                \/ \E m \in Members, score \in Scores : VoteRead(c, s, m, score)
                                \/ CloseRead(c, s)
                                \/ \E d \in Decisions : DecideRead(c, s, d)
        BY <2>2 DEF Call
      <3>2. ASSUME NEW m \in Members, NEW score \in Scores, VoteRead(c, s, m, score)
            PROVE  period'[slot'[c].series] = "OPEN"
        <4>1. slot'[c].series = s
          BY <2>1, <3>2 DEF VoteRead, Enter, Idle
        <4> QED  BY <3>2, <4>1 DEF VoteRead, tables
      <3>3. CASE OpenRead(c, s) \/ CloseRead(c, s)
        BY <2>1, <3>3 DEF OpenRead, CloseRead, Enter, Idle
      <3>4. ASSUME NEW d \in Decisions, DecideRead(c, s, d) PROVE FALSE
        BY <2>1, <3>4 DEF DecideRead, Enter, Idle
      <3> QED  BY <3>1, <3>2, <3>3, <3>4
    <2>3. CASE Progress(c)
      <3>1. CASE OpenInsert(c) \/ FinalizeMark(c) \/ DecideCommit(c)
        BY <2>1, <3>1 DEF OpenInsert, FinalizeMark, DecideCommit, Finish, Idle
      <3>2. CASE VoteUpsert(c) \/ VoteProgress(c) \/ FinalizeClose(c)
        BY <2>1, <3>2 DEF VoteUpsert, VoteProgress, FinalizeClose, Goto, Finish, Idle
      <3>3. CASE FinalizeSelect(c)
        BY <2>1, <3>3 DEF FinalizeSelect, Idle
      <3>4. CASE FinalizeRank(c)
        BY <2>1, <3>4 DEF FinalizeRank, At, Idle
      <3> QED  BY <2>3, <3>1, <3>2, <3>3, <3>4 DEF Progress
    <2>4. CASE Fail(c)
      BY <2>1, <2>4 DEF Fail, Finish, Idle
    <2> QED  BY <1>3, <2>2, <2>3, <2>4
  <1> QED  BY <1>1, <1>2, <1>3 DEF VotingNext

\* What one step does to a closed period and its votes.
LEMMA ClosedStands ==
    ASSUME VotingInv, VotingTypes, Admitted, VotingNext, NEW s \in Series, period[s] = "CLOSED"
    PROVE  vote'[s] = vote[s] /\ period'[s] = "CLOSED"
  <1>0. period \in [Series -> {NoPeriod, "OPEN", "CLOSED"}]
    BY DEF VotingTypes, VotingTypeOK
  <1>1. CASE NextDay
    BY <1>1 DEF NextDay, tables
  <1>2. ASSUME NEW c \in Slots, Call(c) \/ Fail(c) PROVE vote'[s] = vote[s] /\ period'[s] = "CLOSED"
    BY <1>2 DEF Call, OpenRead, VoteRead, CloseRead, DecideRead, Fail, tables
  <1>3. ASSUME NEW c \in Slots, Progress(c) PROVE vote'[s] = vote[s] /\ period'[s] = "CLOSED"
    <2>1. CASE VoteUpsert(c)
      <3>1. slot[c].series # s
        BY <2>1 DEF VoteUpsert, At, Admitted
      <3> QED  BY <2>1, <3>1 DEF VoteUpsert, VotingInv, Shaped
    <2>2. CASE OpenInsert(c)
      BY <1>0, <2>2 DEF OpenInsert, NoPeriod
    <2>3. CASE FinalizeClose(c)
      BY <1>0, <2>3 DEF FinalizeClose
    <2>4. CASE VoteProgress(c) \/ FinalizeSelect(c) \/ FinalizeRank(c) \/ FinalizeMark(c) \/ DecideCommit(c)
      BY <2>4 DEF VoteProgress, FinalizeSelect, FinalizeRank, FinalizeMark, DecideCommit, tables
    <2> QED  BY <1>3, <2>1, <2>2, <2>3, <2>4 DEF Progress
  <1> QED  BY <1>1, <1>2, <1>3 DEF VotingNext

\* With one request at a time the votes of a closed period are final: castVote finds the
\* period still open when it writes, and no statement opens a period again.
THEOREM ClosedVotesStay == VotingSpec => (OneVoter => ClosedVotesStand)
  <1>1. VotingInit => Admitted
    BY DEF VotingInit, Admitted, At, Idle
  <1>2. VotingInv /\ (OneVoter => Admitted) /\ [VotingNext]_votingVars => (OneVoter => Admitted)'
    BY AdmittedStep DEF OneVoter
  <1>3. VotingInv /\ VotingTypes /\ (OneVoter => Admitted) /\ [VotingNext]_votingVars
        => (OneVoter =>
             [\A s \in Series : period[s] = "CLOSED" => vote'[s] = vote[s] /\ period'[s] = "CLOSED"]_votingVars)
    BY ClosedStands
  <1>4. OneVoter => OneVoter'
    BY DEF OneVoter
  <1> QED
    BY <1>1, <1>2, <1>3, <1>4, VotingInvariant, VotingTypesHold, PTL DEF VotingSpec, ClosedVotesStand

-----------------------------------------------------------------------------
(* A single series, and no deaths. *)

OneSeries == \A s, t \in Series : s = t

\* The request in the slot is about to mark its series.
Marking(c) == At(c, "finalize_rank") /\ slot[c].rows = {} /\ slot[c].risk = "HIGH"

\* A high risk is marked, decided about, or about to be marked by the request that wrote it.
Marked ==
    \A s \in Series : ranking[s].risk = "HIGH" /\ decision[s] = NoDecision =>
        seriesStatus[s] = "AT_RISK" \/ \E c \in Slots : Marking(c)

\* A step that writes neither the ranks nor the status of a series, by a request that
\* is not about to mark one.
LEMMA MarkedElsewhere ==
    ASSUME VotingInv, Marked, NEW c \in Slots, NEW request, ~Marking(c),
           slot' = [slot EXCEPT ![c] = request], UNCHANGED <<ranking, seriesStatus, decision>>
    PROVE  Marked'
  <1>1. ASSUME NEW d \in Slots, Marking(d) PROVE Marking(d)'
    BY <1>1 DEF Marking, At, VotingInv, Shaped
  <1> QED  BY <1>1 DEF Marked

\* The turn that ranks the only series leaves the request about to mark it, if the risk
\* is high.
LEMMA RankedThenMarked ==
    ASSUME VotingInv, VotingTypes, OneSeries, NEW c \in Slots, FinalizeRank(c)
    PROVE  Marked'
  <1>1. PICK s, position, level :
             /\ s = FirstRow(slot[c].rows, slot[c].totals)
             /\ position \in Nat /\ level \in RiskLevel
             /\ ranking' = [ranking EXCEPT ![s] = [rank |-> position, risk |-> level]]
             /\ slot' = [slot EXCEPT ![c] = slot'[c]]
             /\ slot'[c].pc = "finalize_rank"
             /\ slot'[c].rows = slot[c].rows \ {s}
             /\ slot'[c].risk = currentRisk(slot[c], s, level)
    BY RankTurn
  <1>2. slot[c].rows \subseteq Series /\ slot[c].rows # {} /\ slot[c].series \in Series
    BY DEF FinalizeRank, At, VotingTypes, Typed, VotingInv, Knows
  <1>3. PICK t \in slot[c].rows : slot[c].rows = {t} /\ Series = {t}
    BY <1>2 DEF OneSeries
  <1>4. s = t
    BY <1>1, <1>3 DEF FirstRow
  <1>5. slot'[c].rows = {} /\ slot'[c].risk = level
    BY <1>1, <1>2, <1>3, <1>4 DEF currentRisk
  <1>6. ranking'[t].risk = level
    BY <1>1, <1>3, <1>4 DEF VotingTypes, VotingTypeOK
  <1>7. level = "HIGH" => Marking(c)'
    BY <1>1, <1>5 DEF Marking, At
  <1> QED  BY <1>3, <1>6, <1>7 DEF Marked

\* Every step of a board that votes on one series.
LEMMA MarkedStep ==
    ASSUME VotingInv, VotingTypes, OneSeries, ~Faults, Marked, [VotingNext]_votingVars
    PROVE  Marked'
  <1>0. DOMAIN slot = Slots /\ \A c \in Slots : DOMAIN slot[c] = DOMAIN Idle
    BY DEF VotingInv, Shaped
  <1>1. CASE UNCHANGED votingVars
    BY <1>1 DEF votingVars, tables, Marked, Marking, At
  <1>2. CASE NextDay
    BY <1>2 DEF NextDay, tables, Marked, Marking, At
  <1>3. ASSUME NEW c \in Slots, Call(c) PROVE Marked'
    BY <1>3, MarkedElsewhere DEF Call, OpenRead, VoteRead, CloseRead, DecideRead, Enter, Marking, At, tables
  <1>4. ASSUME NEW c \in Slots, Progress(c) PROVE Marked'
    <2>1. CASE FinalizeRank(c)
      BY <2>1, RankedThenMarked
    <2>2. CASE FinalizeMark(c)
      <3>1. slot[c].series \in Series /\ seriesStatus \in [Series -> SeriesStatus]
        BY <2>2 DEF FinalizeMark, At, VotingInv, Knows, VotingTypes, VotingTypeOK
      <3>2. CASE slot[c].risk = "HIGH"
        <4>1. \A s \in Series : seriesStatus'[s] = "AT_RISK"
          BY <2>2, <3>1, <3>2 DEF FinalizeMark, OneSeries
        <4> QED  BY <4>1 DEF Marked
      <3>3. CASE slot[c].risk # "HIGH"
        <4>1. seriesStatus' = seriesStatus
          BY <2>2, <3>1, <3>3 DEF FinalizeMark
        <4>2. ~Marking(c) /\ slot' = [slot EXCEPT ![c] = Idle]
          BY <2>2, <3>3 DEF FinalizeMark, Finish, Marking
        <4> QED  BY <2>2, <4>1, <4>2, MarkedElsewhere DEF FinalizeMark
      <3> QED  BY <3>2, <3>3
    <2>3. CASE DecideCommit(c)
      <3>1. slot[c].series \in Series /\ slot[c].decision \in Decisions
        BY <2>3 DEF DecideCommit, At, VotingInv, Knows, VotingTypes, Typed
      <3>2. slot[c].decision # NoDecision
        BY <3>1, BoardAssumption DEF NoDecision
      <3>3. \A s \in Series : decision'[s] # NoDecision
        BY <2>3, <3>1, <3>2 DEF DecideCommit, OneSeries, VotingTypes, VotingTypeOK
      <3> QED  BY <3>3 DEF Marked
    <2>4. CASE OpenInsert(c) \/ VoteUpsert(c) \/ VoteProgress(c) \/ FinalizeClose(c) \/ FinalizeSelect(c)
      <3>1. ~Marking(c)
        BY <2>4 DEF OpenInsert, VoteUpsert, VoteProgress, FinalizeClose, FinalizeSelect, Marking, At
      <3>2. UNCHANGED <<ranking, seriesStatus, decision>>
        BY <2>4 DEF OpenInsert, VoteUpsert, VoteProgress, FinalizeClose, FinalizeSelect, tables
      <3>3. \E request : slot' = [slot EXCEPT ![c] = request]
        <4>1. CASE FinalizeSelect(c)
          <5>1. PICK rows, totals : slot' = [slot EXCEPT ![c] = [slot[c] EXCEPT !.rows = rows,
                                        !.totals = totals, !.pc = "finalize_rank"]]
            BY <1>0, <4>1 DEF FinalizeSelect
          <5> QED  BY <5>1
        <4>2. CASE ~FinalizeSelect(c)
          BY <2>4, <4>2 DEF OpenInsert, VoteUpsert, VoteProgress, FinalizeClose, Goto, Finish
        <4> QED  BY <4>1, <4>2
      <3> QED  BY <3>1, <3>2, <3>3, MarkedElsewhere
    <2> QED  BY <1>4, <2>1, <2>2, <2>3, <2>4 DEF Progress
  <1>5. ASSUME NEW c \in Slots, Fail(c) PROVE FALSE
    BY <1>5 DEF Fail
  <1> QED  BY <1>1, <1>2, <1>3, <1>4, <1>5 DEF VotingNext

\* Of a single series whose requests do not die no high risk stays unmarked, however many
\* votes and closings race: the request that writes it is the one that marks it.
THEOREM HighRiskGetsMarked == VotingSpec => [](OneSeries /\ ~Faults => HighRiskIsMarked)
  <1>1. VotingInit => Marked
    BY DEF VotingInit, Marked, NoRanking
  <1>2. VotingInv /\ VotingTypes /\ (OneSeries /\ ~Faults => Marked) /\ [VotingNext]_votingVars
        => (OneSeries /\ ~Faults => Marked)'
    BY MarkedStep DEF OneSeries
  <1>3. Marked => HighRiskIsMarked
    BY DEF Marked, Marking, HighRiskIsMarked, Quiet, At
  <1> QED
    BY <1>1, <1>2, <1>3, VotingInvariant, VotingTypesHold, PTL DEF VotingSpec

-----------------------------------------------------------------------------
(* The ranking loop, one request at a time.  A closed period has the vote  *)
(* of every member, so that averages compare as the sums do.               *)

Total(s) == SumOfMap(vote[s], VotersOf(s))
Higher(s) == {t \in ClosedPeriods : Total(t) > Total(s)}

\* What the loop has ranked.
RankedBy(q) == ClosedPeriods \ q.rows

\* What a request knows of the rows it ranks: those that are done have their rank and risk
\* and are none lower than those to come; the one before is the lowest so far.
RowsAreAsRead(q) == q.rows \subseteq ClosedPeriods /\ q.totals = [s \in ClosedPeriods |-> Average(s)]
BestComeFirst(q) == \A s \in RankedBy(q), t \in q.rows : Total(s) >= Total(t)
LowestIsLast(q) ==
    q.index > 0 => \E last \in RankedBy(q) :
        /\ q.previous = Average(last) /\ q.position = ranking[last].rank
        /\ \A s \in RankedBy(q) : Total(s) >= Total(last)
HaveTheirRank(q) ==
    \A s \in RankedBy(q) :
        /\ ranking[s].rank = 1 + Cardinality(Higher(s))
        /\ ranking[s].risk = riskLevelForScore(Average(s))

RankingTold(q) ==
    /\ q.pc # "finalize_rank" => q.index = 0
    /\ q.pc = "finalize_rank" =>
         /\ RowsAreAsRead(q)
         /\ q.index = Cardinality(RankedBy(q))
         /\ BestComeFirst(q) /\ LowestIsLast(q) /\ HaveTheirRank(q)

RankingInv == \A c \in Slots : RankingTold(slot[c])

\* The average of a closed period: the sum of its scores, over the size of the board.
LEMMA AverageOfClosed ==
    ASSUME VotingInv, NEW s \in ClosedPeriods
    PROVE  /\ VotersOf(s) = active /\ active # {}
           /\ Average(s) = [sum |-> Total(s), count |-> Cardinality(active)]
           /\ Total(s) \in Int /\ Cardinality(active) \in Nat /\ Cardinality(active) > 0
  <1>1. s \in Series /\ active # {} /\ \A m \in active : vote[s][m] # NoVote
    BY DEF VotingInv, ClosedIsComplete, ClosedPeriods
  <1>2. VotersOf(s) = active
    BY <1>1 DEF VotersOf
  <1>3. IsFiniteSet(active) /\ active \subseteq Members
    BY FS_Subset, BoardAssumption DEF VotingInv, Shaped
  <1>4. Cardinality(active) \in Nat /\ Cardinality(active) > 0
    <2>1. Cardinality(active) \in Nat /\ Cardinality(active) # 0
      BY <1>1, <1>3, FS_CardinalityType, FS_EmptySet
    <2> QED  BY <2>1
  <1>5. Numbers(vote[s], active)
    <2>1. \A m \in Members : vote[s][m] \in Scores \cup {NoVote}
      BY <1>1 DEF VotingInv, Shaped
    <2>2. Scores \cup {NoVote} \subseteq Int
      BY BoardAssumption DEF NoVote
    <2> QED  BY <1>3, <2>1, <2>2 DEF Numbers
  <1>6. Total(s) \in Int
    BY <1>2, <1>3, <1>5, MapSumIsNumber DEF Total
  <1>7. Average(s) = [sum |-> Total(s), count |-> Cardinality(VotersOf(s))]
    BY DEF Average, Total, SumOfMap, MapThenSumSet, MapThenFoldSet
  <1> QED  BY <1>1, <1>2, <1>4, <1>6, <1>7

\* ... so that averages compare as the sums do.
LEMMA HigherAverage ==
    ASSUME VotingInv, NEW s \in ClosedPeriods, NEW t \in ClosedPeriods
    PROVE  Above(Average(s), Average(t)) <=> Total(s) > Total(t)
  <1>1. /\ Average(s) = [sum |-> Total(s), count |-> Cardinality(active)]
        /\ Average(t) = [sum |-> Total(t), count |-> Cardinality(active)]
    BY AverageOfClosed
  <1>2. /\ Total(s) \in Int /\ Total(t) \in Int
        /\ Cardinality(active) \in Nat /\ Cardinality(active) > 0
    BY AverageOfClosed
  <1>3. Above(Average(s), Average(t)) <=> Total(s) * Cardinality(active) > Total(t) * Cardinality(active)
    BY <1>1 DEF Above
  <1> QED  BY <1>2, <1>3, SameDivisor

\* There is a first row: one with fewest rows before it has none before it.
LEMMA FirstRowExists ==
    ASSUME VotingInv, NEW rows \in SUBSET ClosedPeriods, rows # {}, NEW totals,
           totals = [s \in ClosedPeriods |-> Average(s)]
    PROVE  /\ FirstRow(rows, totals) \in rows
           /\ \A t \in rows : Total(FirstRow(rows, totals)) >= Total(t)
  <1> DEFINE Comes(s, t) == Total(s) > Total(t) \/ (Total(s) = Total(t) /\ s < t)
             Before(s) == {t \in rows : Comes(t, s)}
             Counts == {Cardinality(Before(s)) : s \in rows}
  <1>1. IsFiniteSet(rows) /\ rows \subseteq Series
    BY FS_Subset, BoardAssumption DEF ClosedPeriods
  <1>2. \A s \in rows : Total(s) \in Int /\ s \in Nat
    BY <1>1, AverageOfClosed, BoardAssumption
  <1>3. Counts \in SUBSET Nat /\ Counts # {}
    <2>1. \A s \in rows : Before(s) \subseteq rows
      OBVIOUS
    <2>2. \A s \in rows : Cardinality(Before(s)) \in Nat
      BY <1>1, <2>1, FS_Subset, FS_CardinalityType
    <2> QED  BY <2>2
  <1>4. PICK n \in Counts : \A m \in Nat : m < n => m \notin Counts
    <2> HIDE DEF Counts
    <2> QED  BY <1>3, LeastOne
  <1>5. PICK s \in rows : n = Cardinality(Before(s))
    BY <1>4
  <1>6. Before(s) = {}
    <2>1. SUFFICES ASSUME NEW t \in Before(s) PROVE FALSE
      OBVIOUS
    <2>2. t \in rows /\ Comes(t, s)
      OBVIOUS
    <2>3. Before(t) \subseteq Before(s) /\ t \notin Before(t)
      <3>1. ASSUME NEW u \in rows, Comes(u, t) PROVE Comes(u, s)
        BY <1>2, <2>2, <3>1
      <3>2. ~Comes(t, t)
        BY <1>2, <2>2
      <3> QED  BY <3>1, <3>2
    <2>4. IsFiniteSet(Before(s))
      BY <1>1, FS_Subset
    <2>5. Cardinality(Before(t)) < Cardinality(Before(s))
      <3> HIDE DEF Before
      <3>1. Before(t) # Before(s)
        BY <2>1, <2>3
      <3>2. Cardinality(Before(t)) <= Cardinality(Before(s)) /\ Cardinality(Before(t)) # Cardinality(Before(s))
        BY <2>3, <2>4, <3>1, FS_Subset
      <3>3. Cardinality(Before(t)) \in Nat /\ Cardinality(Before(s)) \in Nat
        BY <2>3, <2>4, FS_Subset, FS_CardinalityType
      <3> QED  BY <3>2, <3>3
    <2>6. Cardinality(Before(t)) \in Counts /\ Cardinality(Before(t)) \in Nat
      BY <1>3, <2>2
    <2> HIDE DEF Counts, Before
    <2> QED  BY <1>4, <1>5, <2>5, <2>6
  <1>7. \A t \in rows \ {s} : Comes(s, t)
    <2> SUFFICES ASSUME NEW t \in rows \ {s} PROVE Comes(s, t)
      OBVIOUS
    <2>1. ~Comes(t, s)
      BY <1>6
    <2> QED  BY <1>2, <2>1
  <1> DEFINE First(x) == \A t \in rows \ {x} : \/ Above(totals[x], totals[t])
                                               \/ ~Above(totals[t], totals[x]) /\ x < t
  <1>8. \A x \in rows : totals[x] = Average(x) /\ x \in ClosedPeriods
    OBVIOUS
  <1>9. First(s)
    <2> SUFFICES ASSUME NEW t \in rows \ {s}
                 PROVE  Above(totals[s], totals[t]) \/ (~Above(totals[t], totals[s]) /\ s < t)
      OBVIOUS
    <2>1. /\ Above(totals[s], totals[t]) <=> Total(s) > Total(t)
          /\ Above(totals[t], totals[s]) <=> Total(t) > Total(s)
      BY <1>8, HigherAverage
    <2> QED  BY <1>2, <1>7, <2>1
  <1>10. FirstRow(rows, totals) \in rows /\ First(FirstRow(rows, totals))
    <2>1. FirstRow(rows, totals) = CHOOSE x \in rows : First(x)
      BY DEF FirstRow
    <2> HIDE DEF First
    <2> QED  BY <1>9, <2>1
  <1>11. ASSUME NEW x \in rows, First(x), NEW t \in rows PROVE Total(x) >= Total(t)
    <2>1. CASE t = x
      BY <1>2, <2>1
    <2>2. CASE t # x
      <3>1. Above(totals[x], totals[t]) \/ ~Above(totals[t], totals[x])
        BY <1>11, <2>2
      <3>2. Total(x) > Total(t) \/ ~(Total(t) > Total(x))
        BY <1>8, <3>1, HigherAverage
      <3> QED  BY <1>2, <3>2
    <2> QED  BY <2>1, <2>2
  <1> QED
    <2> HIDE DEF First
    <2> QED  BY <1>10, <1>11

\* Sums and averages change with the votes only.
LEMMA SameVotes ==
    ASSUME UNCHANGED <<vote, active>>, NEW s
    PROVE  Average(s)' = Average(s) /\ Total(s)' = Total(s)
  <1>1. VotersOf(s)' = VotersOf(s)
    BY DEF VotersOf
  <1>2. Total(s)' = Total(s)
    BY <1>1 DEF Total
  <1>3. Average(s) = [sum |-> Total(s), count |-> Cardinality(VotersOf(s))]
    BY DEF Average, Total, SumOfMap, MapThenSumSet, MapThenFoldSet
  <1>4. Average(s)' = [sum |-> Total(s)', count |-> Cardinality(VotersOf(s)')]
    BY DEF Average, Total, SumOfMap, MapThenSumSet, MapThenFoldSet
  <1> QED  BY <1>1, <1>2, <1>3, <1>4

\* ... and so does the order of the closed periods.
LEMMA SameOrder ==
    ASSUME UNCHANGED <<period, vote, active>>
    PROVE  ClosedPeriods' = ClosedPeriods /\ \A s : Higher(s)' = Higher(s)
  <1>1. ClosedPeriods' = ClosedPeriods
    BY DEF ClosedPeriods
  <1>2. ASSUME NEW s PROVE Higher(s)' = Higher(s)
    <2>1. \A t : Total(t)' = Total(t)
      BY SameVotes
    <2> QED  BY <1>1, <2>1 DEF Higher
  <1> QED  BY <1>1, <1>2

\* A request that waits for nothing to be ranked knows nothing.
LEMMA NotRanking ==
    ASSUME NEW c \in Slots, slot'[c].pc # "finalize_rank", slot'[c].index = 0
    PROVE  RankingTold(slot[c])'
  <1> QED  BY DEF RankingTold

\* A step that leaves votes, periods and ranks, and the request.
LEMMA RankingStays ==
    ASSUME UNCHANGED <<period, vote, ranking, active, slot>>, RankingInv
    PROVE  RankingInv'
  <1>1. ClosedPeriods' = ClosedPeriods /\ \A s : Higher(s)' = Higher(s)
    BY SameOrder
  <1>2. \A s : Average(s)' = Average(s) /\ Total(s)' = Total(s)
    BY SameVotes
  <1>3. ASSUME NEW c \in Slots PROVE RankingTold(slot[c])'
    <2>1. RankedBy(slot[c])' = RankedBy(slot[c]) /\ slot'[c] = slot[c]
      BY <1>1 DEF RankedBy
    <2>2. RankingTold(slot[c])
      BY DEF RankingInv
    <2>3. RowsAreAsRead(slot[c]) => RowsAreAsRead(slot[c])'
      BY <1>1, <1>2, <2>1 DEF RowsAreAsRead
    <2>4. BestComeFirst(slot[c]) => BestComeFirst(slot[c])'
      BY <1>2, <2>1 DEF BestComeFirst
    <2>5. LowestIsLast(slot[c]) => LowestIsLast(slot[c])'
      BY <1>2, <2>1 DEF LowestIsLast
    <2>6. HaveTheirRank(slot[c]) => HaveTheirRank(slot[c])'
      BY <1>1, <1>2, <2>1 DEF HaveTheirRank
    <2> QED  BY <2>1, <2>2, <2>3, <2>4, <2>5, <2>6 DEF RankingTold
  <1> QED  BY <1>3 DEF RankingInv

\* The rows that are selected are the closed periods, none of them ranked.
LEMMA SelectTold ==
    ASSUME VotingInv, NEW c \in Slots, RankingTold(slot[c]), FinalizeSelect(c), UNCHANGED active
    PROVE  RankingTold(slot[c])'
  <1>1. {s \in Series : period[s] = "CLOSED" /\ VotersOf(s) # {}} = ClosedPeriods
    BY AverageOfClosed DEF ClosedPeriods
  <1>2. slot' = [slot EXCEPT ![c] = [slot[c] EXCEPT !.rows = ClosedPeriods,
                    !.totals = [s \in ClosedPeriods |-> Average(s)], !.pc = "finalize_rank"]]
    BY <1>1 DEF FinalizeSelect, VotingInv, Shaped
  <1>3. /\ slot'[c].rows = ClosedPeriods /\ slot'[c].pc = "finalize_rank"
        /\ slot'[c].totals = [s \in ClosedPeriods |-> Average(s)]
        /\ slot'[c].index = slot[c].index
    BY <1>2 DEF VotingInv, Shaped, Idle
  <1>4. slot'[c].index = 0
    BY <1>3 DEF FinalizeSelect, At, RankingTold
  <1>5. UNCHANGED <<period, vote, active>>
    BY DEF FinalizeSelect, tables
  <1>6. ClosedPeriods' = ClosedPeriods /\ \A s : Average(s)' = Average(s)
    BY <1>5, SameVotes, SameOrder
  <1>7. RankedBy(slot[c])' = {}
    BY <1>3, <1>6 DEF RankedBy
  <1>8. RowsAreAsRead(slot[c])'
    BY <1>3, <1>6 DEF RowsAreAsRead
  <1>9. BestComeFirst(slot[c])' /\ LowestIsLast(slot[c])' /\ HaveTheirRank(slot[c])'
    BY <1>4, <1>7 DEF BestComeFirst, LowestIsLast, HaveTheirRank
  <1> QED  BY <1>3, <1>4, <1>7, <1>8, <1>9, FS_EmptySet DEF RankingTold

\* The row that comes next takes the rank that its votes give it.
LEMMA PositionIsRank ==
    ASSUME VotingInv, NEW q, RowsAreAsRead(q), q.index = Cardinality(RankedBy(q)), BestComeFirst(q),
           LowestIsLast(q), HaveTheirRank(q), NEW s \in q.rows, \A t \in q.rows : Total(s) >= Total(t)
    PROVE  rankPosition(q, s) = 1 + Cardinality(Higher(s))
  <1>1. /\ q.rows \subseteq ClosedPeriods /\ s \in ClosedPeriods /\ q.totals[s] = Average(s)
        /\ RankedBy(q) \subseteq ClosedPeriods
    BY DEF RowsAreAsRead, RankedBy
  <1>2. \A t \in ClosedPeriods : Total(t) \in Int
    BY AverageOfClosed
  <1>3. IsFiniteSet(RankedBy(q)) /\ Cardinality(RankedBy(q)) \in Nat
    BY FS_Subset, FS_CardinalityType, BoardAssumption DEF RankedBy, ClosedPeriods
  <1>4. CASE q.index > 0 /\ ~Above(q.previous, q.totals[s])
    <2>1. PICK last \in RankedBy(q) : q.previous = Average(last) /\ q.position = ranking[last].rank
      BY <1>4 DEF LowestIsLast
    <2>2. ~(Total(last) > Total(s)) /\ Total(last) >= Total(s)
      BY <1>1, <1>4, <2>1, HigherAverage DEF BestComeFirst
    <2>3. Total(last) = Total(s)
      BY <1>1, <1>2, <2>2
    <2>4. Higher(last) = Higher(s)
      BY <2>3 DEF Higher
    <2> QED  BY <1>4, <2>1, <2>4 DEF rankPosition, HaveTheirRank
  <1>5. CASE ~(q.index > 0 /\ ~Above(q.previous, q.totals[s]))
    <2>1. ASSUME NEW t \in RankedBy(q) PROVE Total(t) > Total(s)
      <3>1. q.index > 0
        <4>1. Cardinality(RankedBy(q)) # 0
          BY <1>3, FS_EmptySet
        <4> QED  BY <1>3, <4>1
      <3>2. PICK last \in RankedBy(q) : /\ q.previous = Average(last)
                                        /\ \A x \in RankedBy(q) : Total(x) >= Total(last)
        BY <3>1 DEF LowestIsLast
      <3>3. Above(Average(last), Average(s))
        BY <1>1, <1>5, <3>1, <3>2
      <3>4. Total(last) > Total(s) /\ Total(t) >= Total(last)
        BY <1>1, <3>2, <3>3, HigherAverage
      <3> QED  BY <1>1, <1>2, <3>4
    <2>2. ASSUME NEW t \in ClosedPeriods, Total(t) > Total(s) PROVE t \in RankedBy(q)
      <3>1. t \notin q.rows
        BY <1>1, <1>2, <2>2
      <3> QED  BY <3>1 DEF RankedBy
    <2>3. Higher(s) = RankedBy(q)
      BY <1>1, <2>1, <2>2 DEF Higher
    <2>4. rankPosition(q, s) = q.index + 1
      BY <1>5 DEF rankPosition
    <2> QED  BY <1>3, <2>3, <2>4
  <1> QED  BY <1>4, <1>5

\* A turn of the loop ranks one more row.
LEMMA TurnTold ==
    ASSUME VotingInv, VotingTypes, NEW c \in Slots, RankingTold(slot[c]), FinalizeRank(c), UNCHANGED active
    PROVE  RankingTold(slot[c])'
  <1> DEFINE q == slot[c]
  <1>1. PICK s, position, level :
             /\ s = FirstRow(slot[c].rows, slot[c].totals)
             /\ position = rankPosition(slot[c], s) /\ level = riskLevelForScore(slot[c].totals[s])
             /\ ranking' = [ranking EXCEPT ![s] = [rank |-> position, risk |-> level]]
             /\ slot'[c].pc = "finalize_rank"
             /\ slot'[c].rows = slot[c].rows \ {s} /\ slot'[c].totals = slot[c].totals
             /\ slot'[c].index = slot[c].index + 1
             /\ slot'[c].previous = slot[c].totals[s] /\ slot'[c].position = position
    BY RankTurn
  <1>2. /\ RowsAreAsRead(q) /\ q.index = Cardinality(RankedBy(q))
        /\ BestComeFirst(q) /\ LowestIsLast(q) /\ HaveTheirRank(q) /\ q.rows # {}
    BY DEF FinalizeRank, At, RankingTold
  <1>3. s \in q.rows /\ \A t \in q.rows : Total(s) >= Total(t)
    BY <1>1, <1>2, FirstRowExists DEF RowsAreAsRead
  <1>4. s \in ClosedPeriods /\ s \in Series /\ q.totals[s] = Average(s) /\ s \notin RankedBy(q)
    BY <1>2, <1>3 DEF RowsAreAsRead, RankedBy, ClosedPeriods
  <1>5. position = 1 + Cardinality(Higher(s))
    BY <1>1, <1>2, <1>3, PositionIsRank
  <1>6. UNCHANGED <<period, vote, active>>
    BY DEF FinalizeRank
  <1>7. /\ ClosedPeriods' = ClosedPeriods
        /\ \A x : Higher(x)' = Higher(x) /\ Average(x)' = Average(x) /\ Total(x)' = Total(x)
    BY <1>6, SameVotes, SameOrder
  <1>8. RankedBy(q)' = RankedBy(q) \cup {s}
    BY <1>1, <1>4, <1>7 DEF RankedBy
  <1>9. q'.index = Cardinality(RankedBy(q)')
    <2>1. IsFiniteSet(RankedBy(q))
      BY FS_Subset, BoardAssumption DEF RankedBy, ClosedPeriods
    <2>2. Cardinality(RankedBy(q) \cup {s}) = Cardinality(RankedBy(q)) + 1
      <3> HIDE DEF q
      <3> QED  BY <1>4, <2>1, FS_AddElement
    <2>3. slot[c].index = Cardinality(RankedBy(q))
      BY <1>2
    <2>4. slot'[c].index = Cardinality(RankedBy(q)')
      BY <1>1, <1>8, <2>2, <2>3
    <2> QED  BY <2>4
  <1>10. RowsAreAsRead(q)'
    BY <1>1, <1>2, <1>7 DEF RowsAreAsRead
  <1>11. /\ ranking'[s].rank = position /\ ranking'[s].risk = level
         /\ \A x \in RankedBy(q) : ranking'[x] = ranking[x]
    BY <1>1, <1>4 DEF VotingTypes, VotingTypeOK, RankedBy, ClosedPeriods
  <1>12. HaveTheirRank(q)'
    BY <1>1, <1>2, <1>4, <1>5, <1>7, <1>8, <1>11 DEF HaveTheirRank
  <1>13. BestComeFirst(q)'
    BY <1>1, <1>2, <1>3, <1>7, <1>8 DEF BestComeFirst
  <1>14. LowestIsLast(q)'
    <2>1. \A x \in RankedBy(q)' : Total(x)' >= Total(s)'
      BY <1>2, <1>3, <1>7, <1>8 DEF BestComeFirst
    <2>2. s \in RankedBy(q)' /\ q'.previous = Average(s)' /\ q'.position = ranking'[s].rank
      BY <1>1, <1>4, <1>7, <1>8, <1>11
    <2> QED  BY <2>1, <2>2 DEF LowestIsLast
  <1> QED  BY <1>1, <1>9, <1>10, <1>12, <1>13, <1>14 DEF RankingTold

\* A request that is not at a turn of the loop, or leaves it.
LEMMA OffLoopTold ==
    ASSUME VotingInv, NEW c \in Slots, RankingTold(slot[c]),
           \/ Call(c) \/ Fail(c)
           \/ OpenInsert(c) \/ VoteUpsert(c) \/ VoteProgress(c) \/ FinalizeClose(c) \/ FinalizeMark(c)
           \/ DecideCommit(c)
    PROVE  RankingTold(slot[c])'
  <1>0. DOMAIN slot = Slots /\ DOMAIN slot[c] = DOMAIN Idle
    BY DEF VotingInv, Shaped
  <1>1. CASE Finish(c)
    <2>1. slot'[c].pc = "idle" /\ slot'[c].index = 0
      BY <1>0, <1>1 DEF Finish, Idle
    <2> QED  BY <2>1, NotRanking
  <1>2. ASSUME NEW step \in {"vote_progress", "finalize_close", "finalize_select"}, Goto(c, step),
               ~At(c, "finalize_rank")
        PROVE  RankingTold(slot[c])'
    <2>1. slot'[c].pc = step /\ slot'[c].index = 0
      BY <1>0, <1>2 DEF Goto, Idle, At, RankingTold
    <2> QED  BY <2>1, NotRanking
  <1>3. CASE Call(c)
    <2>1. ASSUME NEW s \in Series, OpenRead(c, s)
          PROVE  slot'[c].pc # "finalize_rank" /\ slot'[c].index = 0
      BY <1>0, <2>1 DEF OpenRead, Enter, Idle
    <2>2. ASSUME NEW s \in Series, NEW m \in Members, NEW score \in Scores, VoteRead(c, s, m, score)
          PROVE  slot'[c].pc # "finalize_rank" /\ slot'[c].index = 0
      BY <1>0, <2>2 DEF VoteRead, Enter, Idle
    <2>3. ASSUME NEW s \in Series, CloseRead(c, s)
          PROVE  slot'[c].pc # "finalize_rank" /\ slot'[c].index = 0
      BY <1>0, <2>3 DEF CloseRead, Enter, Idle
    <2>4. ASSUME NEW s \in Series, NEW d \in Decisions, DecideRead(c, s, d)
          PROVE  slot'[c].pc # "finalize_rank" /\ slot'[c].index = 0
      BY <1>0, <2>4 DEF DecideRead, Enter, Idle
    <2>5. slot'[c].pc # "finalize_rank" /\ slot'[c].index = 0
      BY <1>3, <2>1, <2>2, <2>3, <2>4 DEF Call
    <2> QED  BY <2>5, NotRanking
  <1> QED
    BY <1>1, <1>2, <1>3 DEF Fail, OpenInsert, VoteUpsert, VoteProgress, FinalizeClose, FinalizeMark,
       DecideCommit, At

\* Every step, one request at a time.
LEMMA NextRanking ==
    ASSUME VotingInv, VotingTypes, OneVoter, RankingInv, [VotingNext]_votingVars
    PROVE  RankingInv'
  <1>1. CASE UNCHANGED votingVars \/ (NextDay /\ UNCHANGED active)
    BY <1>1, RankingStays DEF votingVars, NextDay, tables
  <1>2. ASSUME NEW c \in Slots, Call(c) \/ Progress(c) \/ Fail(c), UNCHANGED active PROVE RankingInv'
    <2>1. RankingTold(slot[c])
      BY DEF RankingInv
    <2>2. RankingTold(slot[c])'
      BY <1>2, <2>1, SelectTold, TurnTold, OffLoopTold DEF Progress
    <2> QED  BY <2>2 DEF RankingInv, OneVoter
  <1> QED  BY <1>1, <1>2 DEF VotingNext

\* When every row is ranked, the ranks are those of the votes.
LEMMA AllAreRanked ==
    ASSUME VotingInv, RankingInv
    PROVE  RankingsFollowVotes
  <1> SUFFICES ASSUME NEW c \in Slots, At(c, "finalize_rank"), slot[c].rows = {}, NEW s \in ClosedPeriods
               PROVE  LET a == Average(s) IN
                      /\ ranking[s].rank = 1 + Cardinality({t \in ClosedPeriods : Above(Average(t), a)})
                      /\ ranking[s].risk = "HIGH" <=> a.sum * 2 < a.count * 5
                      /\ ranking[s].risk = "LOW" <=> a.sum * 2 >= a.count * 7
    BY DEF RankingsFollowVotes
  <1>1. /\ ranking[s].rank = 1 + Cardinality(Higher(s))
        /\ ranking[s].risk = riskLevelForScore(Average(s))
    BY DEF RankingInv, RankingTold, HaveTheirRank, RankedBy, At
  <1>2. Higher(s) = {t \in ClosedPeriods : Above(Average(t), Average(s))}
    BY HigherAverage DEF Higher
  <1>3. Average(s).sum \in Int /\ Average(s).count \in Nat
    BY AverageOfClosed
  <1> DEFINE a == Average(s)
  <1>4. /\ riskLevelForScore(a) = "HIGH" <=> a.sum * 2 < a.count * 5
        /\ riskLevelForScore(a) = "LOW" <=> a.sum * 2 >= a.count * 7
    <2> HIDE DEF a
    <2> SUFFICES ASSUME a.sum \in Int, a.count \in Nat
                 PROVE  /\ riskLevelForScore(a) = "HIGH" <=> a.sum * 2 < a.count * 5
                        /\ riskLevelForScore(a) = "LOW" <=> a.sum * 2 >= a.count * 7
      BY <1>3 DEF a
    <2> QED  BY DEF riskLevelForScore
  <1> QED  BY <1>1, <1>2, <1>4

\* One request at a time, whatever dies: what the loop has ranked is ranked by the votes.
THEOREM RankingInvariant == VotingSpec => [](OneVoter => RankingInv)
  <1>1. VotingInit => RankingInv
    BY DEF VotingInit, RankingInv, RankingTold, Idle
  <1>2. VotingInv /\ VotingTypes /\ (OneVoter => RankingInv) /\ [VotingNext]_votingVars
            => (OneVoter => RankingInv)'
    BY NextRanking DEF OneVoter
  <1> QED  BY <1>1, <1>2, VotingInvariant, VotingTypesHold, PTL DEF VotingSpec

\* Every closing leaves the ranks and the risks that the votes of the window ask for,
\* whatever an earlier one that died has left behind.
THEOREM RanksAreTheVotes == VotingSpec => [](OneVoter => RankingsFollowVotes)
  <1>1. VotingInv /\ (OneVoter => RankingInv) => (OneVoter => RankingsFollowVotes)
    BY AllAreRanked
  <1> QED  BY <1>1, VotingInvariant, RankingInvariant, PTL

-----------------------------------------------------------------------------
(* The ballot: one request at a time, Voting implements it.                *)

\* What a request knows of the ballot before its next statement: a vote is a member's, on
\* an open period; what is ranked is closed; a series that has been ranked has its risk
\* from its votes; a decision is about a series that is not terminated.
BallotTold(q) ==
    /\ q.pc = "vote_upsert" => q.member \in active /\ period[q.series] = "OPEN"
    /\ q.pc \in {"finalize_select", "finalize_rank"} => q.series \in ClosedPeriods
    /\ q.pc = "finalize_rank" /\ q.series \notin q.rows => q.risk = riskLevelForScore(Average(q.series))
    /\ q.pc = "decide_commit" => seriesStatus[q.series] \notin {"CANCELLED", "COMPLETED"}

BallotInv == \A c \in Slots : BallotTold(slot[c])

\* Before the other statements a request knows nothing of the ballot.
LEMMA OffBallot ==
    ASSUME NEW c \in Slots, slot'[c].pc \in {"idle", "open_insert", "vote_progress", "finalize_close"}
    PROVE  BallotTold(slot[c])'
  <1> QED  BY DEF BallotTold

\* A request that comes has read the row it is about.
LEMMA CallBallot ==
    ASSUME VotingInv, NEW c \in Slots, Call(c), UNCHANGED active
    PROVE  BallotTold(slot[c])'
  <1>0. DOMAIN slot = Slots
    BY DEF VotingInv, Shaped
  <1>1. ASSUME NEW s \in Series, OpenRead(c, s) \/ CloseRead(c, s) PROVE BallotTold(slot[c])'
    <2>1. slot'[c].pc \in {"open_insert", "finalize_close"}
      BY <1>0, <1>1 DEF OpenRead, CloseRead, Enter, Idle
    <2> QED  BY <2>1, OffBallot
  <1>2. ASSUME NEW s \in Series, NEW m \in Members, NEW score \in Scores, VoteRead(c, s, m, score)
        PROVE  BallotTold(slot[c])'
    <2>1. slot'[c].pc = "vote_upsert" /\ slot'[c].member = m /\ slot'[c].series = s
      BY <1>0, <1>2 DEF VoteRead, Enter, Idle
    <2>2. m \in active' /\ period'[s] = "OPEN"
      BY <1>2 DEF VoteRead, tables
    <2> QED  BY <2>1, <2>2 DEF BallotTold
  <1>3. ASSUME NEW s \in Series, NEW d \in Decisions, DecideRead(c, s, d) PROVE BallotTold(slot[c])'
    <2>1. slot'[c].pc = "decide_commit" /\ slot'[c].series = s
      BY <1>0, <1>3 DEF DecideRead, Enter, Idle
    <2>2. seriesStatus'[s] \notin {"CANCELLED", "COMPLETED"}
      BY <1>3 DEF DecideRead, tables
    <2> QED  BY <2>1, <2>2 DEF BallotTold
  <1> QED  BY <1>1, <1>2, <1>3 DEF Call

\* The period that a request closes is closed when it is ranked, and not ranked before.
LEMMA ClosingBallot ==
    ASSUME VotingInv, VotingTypes, NEW c \in Slots, BallotTold(slot[c]), UNCHANGED active,
           FinalizeClose(c) \/ FinalizeSelect(c)
    PROVE  BallotTold(slot[c])'
  <1> DEFINE s == slot[c].series
  <1>0. DOMAIN slot = Slots /\ DOMAIN slot[c] = DOMAIN Idle /\ DOMAIN period = Series
    BY DEF VotingInv, Shaped
  <1>1. CASE FinalizeClose(c) /\ period[s] = NoPeriod
    <2>1. slot'[c].pc = "idle"
      BY <1>0, <1>1 DEF FinalizeClose, Finish, Idle
    <2> QED  BY <2>1, OffBallot
  <1>2. CASE FinalizeClose(c) /\ period[s] # NoPeriod
    <2>1. s \in Series
      BY <1>2 DEF FinalizeClose, At, VotingInv, Knows
    <2>2. slot'[c].pc = "finalize_select" /\ slot'[c].series = s
      BY <1>0, <1>2 DEF FinalizeClose, Goto, Idle
    <2>3. s \in ClosedPeriods'
      BY <1>0, <1>2, <2>1 DEF FinalizeClose, ClosedPeriods
    <2> QED  BY <2>2, <2>3 DEF BallotTold
  <1>3. CASE FinalizeSelect(c)
    <2>1. s \in ClosedPeriods /\ ClosedPeriods' = ClosedPeriods
      BY <1>3 DEF FinalizeSelect, At, BallotTold, tables, ClosedPeriods
    <2>2. slot'[c].series = s /\ slot'[c].pc = "finalize_rank"
      BY <1>0, <1>3 DEF FinalizeSelect, Idle
    <2>3. slot'[c].rows = {t \in Series : period[t] = "CLOSED" /\ VotersOf(t) # {}}
      BY <1>0, <1>3 DEF FinalizeSelect, Idle
    <2>4. s \in slot'[c].rows
      BY <2>1, <2>3, AverageOfClosed DEF ClosedPeriods
    <2> QED  BY <2>1, <2>2, <2>4 DEF BallotTold
  <1> QED  BY <1>1, <1>2, <1>3

\* The risk that a closing remembers is the one of its own series.
LEMMA TurnBallot ==
    ASSUME VotingInv, VotingTypes, NEW c \in Slots, RankingTold(slot[c]), BallotTold(slot[c]),
           FinalizeRank(c), UNCHANGED active
    PROVE  BallotTold(slot[c])'
  <1>1. PICK s, level :
             /\ s = FirstRow(slot[c].rows, slot[c].totals)
             /\ slot'[c].pc = "finalize_rank" /\ slot'[c].series = slot[c].series
             /\ slot'[c].rows = slot[c].rows \ {s}
             /\ slot'[c].risk = currentRisk(slot[c], s, level)
             /\ level = riskLevelForScore(slot[c].totals[s])
    BY RankTurn
  <1>2. RowsAreAsRead(slot[c]) /\ slot[c].rows # {} /\ At(c, "finalize_rank")
    BY DEF FinalizeRank, At, RankingTold
  <1>3. s \in slot[c].rows
    BY <1>1, <1>2, FirstRowExists DEF RowsAreAsRead
  <1>4. s \in ClosedPeriods /\ slot[c].totals[s] = Average(s)
    BY <1>2, <1>3 DEF RowsAreAsRead
  <1>5. UNCHANGED <<period, vote, active>>
    BY DEF FinalizeRank
  <1>6. ClosedPeriods' = ClosedPeriods /\ \A t : Average(t)' = Average(t)
    BY <1>5, SameVotes, SameOrder
  <1>7. slot[c].series \in ClosedPeriods
    BY <1>2 DEF BallotTold, At
  <1>8. ASSUME slot[c].series \notin slot'[c].rows
        PROVE  slot'[c].risk = riskLevelForScore(Average(slot[c].series))
    <2>1. CASE slot[c].series = s
      BY <1>1, <1>4, <2>1 DEF currentRisk
    <2>2. CASE slot[c].series # s
      BY <1>1, <1>2, <1>8, <2>2 DEF currentRisk, BallotTold, At
    <2> QED  BY <2>1, <2>2
  <1> QED  BY <1>1, <1>6, <1>7, <1>8 DEF BallotTold

\* Every step, one request at a time.
LEMMA NextBallot ==
    ASSUME VotingInv, VotingTypes, OneVoter, RankingInv, BallotInv, [VotingNext]_votingVars
    PROVE  BallotInv'
  <1>1. CASE UNCHANGED votingVars \/ (NextDay /\ UNCHANGED active)
    <2>1. UNCHANGED <<period, vote, seriesStatus, active, slot>>
      BY <1>1 DEF votingVars, NextDay, tables
    <2>2. ClosedPeriods' = ClosedPeriods /\ \A s : Average(s)' = Average(s)
      BY <2>1, SameVotes, SameOrder
    <2> QED  BY <2>1, <2>2 DEF BallotInv, BallotTold
  <1>2. ASSUME NEW c \in Slots, Call(c) \/ Progress(c) \/ Fail(c), UNCHANGED active PROVE BallotInv'
    <2>0. BallotTold(slot[c]) /\ RankingTold(slot[c]) /\ DOMAIN slot = Slots /\ DOMAIN slot[c] = DOMAIN Idle
      BY DEF BallotInv, RankingInv, VotingInv, Shaped
    <2>1. ASSUME \/ OpenInsert(c) \/ VoteUpsert(c) \/ VoteProgress(c) \/ FinalizeMark(c)
                 \/ DecideCommit(c) \/ Fail(c)
          PROVE  BallotTold(slot[c])'
      <3>1. slot'[c].pc \in {"idle", "vote_progress", "finalize_close"}
        BY <2>0, <2>1 DEF OpenInsert, VoteUpsert, VoteProgress, FinalizeMark, DecideCommit, Fail, Finish,
           Goto, Idle
      <3> QED  BY <3>1, OffBallot
    <2>2. BallotTold(slot[c])'
      BY <1>2, <2>0, <2>1, CallBallot, ClosingBallot, TurnBallot DEF Progress
    <2> QED  BY <2>2 DEF BallotInv, OneVoter
  <1> QED  BY <1>1, <1>2 DEF VotingNext

\* A period that the code finds in category HIGH has a low average.
LEMMA HighIsLow ==
    ASSUME VotingInv, NEW s \in ClosedPeriods, riskLevelForScore(Average(s)) = "HIGH"
    PROVE  Board!IsLow(s)
  <1>1. /\ VotersOf(s) = active
        /\ Average(s) = [sum |-> Total(s), count |-> Cardinality(active)]
        /\ Total(s) \in Int /\ Cardinality(active) \in Nat
    BY AverageOfClosed
  <1>2. 2 * Total(s) < 5 * Cardinality(active)
    BY <1>1 DEF riskLevelForScore
  <1>3. Cardinality(active) = Board!Cardinality(active)
    BY DEF Cardinality, Board!Cardinality
  <1>4. Board!IsLow(s) <=> 2 * Total(s) < 5 * Board!Cardinality(active)
    BY <1>1 DEF Board!IsLow, Board!MapThenSumSet, Board!MapThenFoldSet, Total, SumOfMap, MapThenSumSet,
       MapThenFoldSet
  <1> QED  BY <1>2, <1>3, <1>4

\* A statement of a handler, for the ballot.
LEMMA ProgressVotes ==
    ASSUME VotingInv, VotingTypes, BallotInv, NEW c \in Slots, Progress(c), UNCHANGED <<active, today>>
    PROVE  [Board!BallotNext]_Board!ballot
  <1> DEFINE s == slot[c].series
  <1> USE DEF Board!ballot
  <1>0. /\ period \in [Series -> {NoPeriod, "OPEN", "CLOSED"}] /\ seriesStatus \in [Series -> SeriesStatus]
        /\ BallotTold(slot[c]) /\ Knows(slot[c])
    BY DEF VotingTypes, VotingTypeOK, BallotInv, VotingInv
  <1>1. CASE OpenInsert(c)
    <2>1. s \in Series
      BY <1>0, <1>1 DEF OpenInsert, At, Knows
    <2>2. CASE period[s] = NoPeriod
      <3>1. Board!Open(s)
        BY <1>1, <2>2 DEF OpenInsert, Board!Open, NoPeriod
      <3> QED  BY <2>1, <3>1 DEF Board!BallotNext
    <2>3. CASE period[s] # NoPeriod
      <3>1. period' = period
        BY <1>0, <1>1, <2>3 DEF OpenInsert
      <3> QED  BY <1>1, <3>1 DEF OpenInsert
    <2> QED  BY <2>2, <2>3
  <1>2. CASE VoteUpsert(c)
    <2>1. /\ s \in Series /\ slot[c].member \in active /\ slot[c].score \in Scores
          /\ period[s] = "OPEN" /\ FirstDay <= today
      BY <1>0, <1>2 DEF VoteUpsert, At, Knows, BallotTold
    <2>2. Board!Cast(s, slot[c].member, slot[c].score)
      BY <1>2, <2>1 DEF VoteUpsert, Board!Cast
    <2> QED  BY <2>1, <2>2 DEF Board!BallotNext
  <1>3. CASE FinalizeClose(c)
    <2>1. s \in Series /\ Whole(s)
      BY <1>0, <1>3 DEF FinalizeClose, At, Knows
    <2>2. CASE period[s] = "OPEN"
      <3>1. Board!Close(s)
        BY <1>3, <2>1, <2>2 DEF FinalizeClose, NoPeriod, Whole, NoVote, Board!Close, Board!Voted
      <3> QED  BY <2>1, <3>1 DEF Board!BallotNext
    <2>3. CASE period[s] # "OPEN"
      <3>1. period' = period
        BY <1>0, <1>3, <2>1, <2>3 DEF FinalizeClose
      <3> QED  BY <1>3, <3>1 DEF FinalizeClose
    <2> QED  BY <2>2, <2>3
  <1>4. CASE FinalizeMark(c)
    <2>1. s \in ClosedPeriods /\ slot[c].risk = riskLevelForScore(Average(s))
      BY <1>0, <1>4 DEF FinalizeMark, At, BallotTold
    <2>2. CASE slot[c].risk = "HIGH"
      <3>1. Board!IsLow(s)
        BY <2>1, <2>2, HighIsLow
      <3>2. Board!Mark(s)
        BY <1>4, <2>1, <2>2, <3>1 DEF FinalizeMark, Board!Mark, ClosedPeriods
      <3> QED  BY <2>1, <3>2 DEF Board!BallotNext, ClosedPeriods
    <2>3. CASE slot[c].risk # "HIGH"
      <3>1. seriesStatus' = seriesStatus
        BY <1>0, <1>4, <2>3 DEF FinalizeMark
      <3> QED  BY <1>4, <3>1 DEF FinalizeMark
    <2> QED  BY <2>2, <2>3
  <1>5. CASE DecideCommit(c)
    <2>1. s \in Series /\ seriesStatus[s] \in {"ACTIVE", "AT_RISK", "HIATUS"}
      BY <1>0, <1>5 DEF DecideCommit, At, Knows, BallotTold, SeriesStatus
    <2>2. slot[c].decision \in DecisionType
      BY <1>5, BoardAssumption DEF DecideCommit, At, VotingTypes, Typed, DecisionType
    <2>3. nextStatus[slot[c].decision] \in {"ACTIVE", "HIATUS", "CANCELLED"}
      BY <2>2 DEF nextStatus
    <2>4. Board!Decide(s, nextStatus[slot[c].decision])
      BY <1>5, <2>1 DEF DecideCommit, Board!Decide
    <2> QED  BY <2>1, <2>3, <2>4 DEF Board!BallotNext
  <1>6. CASE VoteProgress(c) \/ FinalizeSelect(c) \/ FinalizeRank(c)
    BY <1>6 DEF VoteProgress, FinalizeSelect, FinalizeRank, tables
  <1> QED  BY <1>1, <1>2, <1>3, <1>4, <1>5, <1>6 DEF Progress

\* With one request at a time Voting implements the ballot, wherever a request dies: only
\* members vote, on open periods; a period closes with all votes, which are final; and a
\* series is put at risk by nothing but the low average of its closed period.
THEOREM HandlersHoldTheBallot == VotingSpec => (OneVoter => ImplementsBallot)
  <1>1. VotingInit => BallotInv
    BY DEF VotingInit, BallotInv, BallotTold, Idle
  <1>2. VotingInv /\ VotingTypes /\ (OneVoter => RankingInv) /\ (OneVoter => BallotInv) /\ [VotingNext]_votingVars
            => (OneVoter => BallotInv)'
    BY NextBallot DEF OneVoter
  <1>3. VotingInit => Board!BallotInit
    BY DEF VotingInit, Board!BallotInit, NoPeriod, NoVote
  <1>4. VotingInv /\ VotingTypes /\ (OneVoter => BallotInv) /\ [VotingNext]_votingVars
            => (OneVoter => [Board!BallotNext]_Board!ballot)
    <2> SUFFICES ASSUME VotingInv, VotingTypes, BallotInv, [VotingNext]_votingVars
                 PROVE  [Board!BallotNext]_Board!ballot
      OBVIOUS
    <2>1. CASE UNCHANGED votingVars
      BY <2>1 DEF votingVars, tables, Board!ballot
    <2>2. CASE NextDay /\ UNCHANGED active
      BY <2>2 DEF NextDay, tables, Board!BallotNext, Board!Midnight
    <2>3. ASSUME NEW c \in Slots, Call(c) \/ Fail(c), UNCHANGED <<active, today>>
          PROVE  UNCHANGED Board!ballot
      BY <2>3 DEF Call, OpenRead, VoteRead, CloseRead, DecideRead, Fail, tables, Board!ballot
    <2> QED  BY <2>1, <2>2, <2>3, ProgressVotes DEF VotingNext
  <1>5. OneVoter => OneVoter'
    BY DEF OneVoter
  <1> QED
    BY <1>1, <1>2, <1>3, <1>4, <1>5, VotingInvariant, VotingTypesHold, RankingInvariant, PTL
       DEF VotingSpec, ImplementsBallot, Board!BallotSpec
=============================================================================
