SPECIFICATION VotingSpec
CONSTANTS
    c1 = c1
    c2 = c2
    m1 = m1
    m2 = m2
    Series = {1, 2, 3}
    Members <- TwoMembers
    Slots <- OneSlot
    Scores = {2, 3, 4}
    Decisions = {"CANCEL"}
    FirstDay = 1
    LastDay = 1
    MaxDay = 1
    Faults = TRUE
SYMMETRY Symmetry
INVARIANTS VotingTypeOK RankingsFollowVotes
PROPERTY ImplementsBallot
\* A board without members has nothing to do once the periods are open.
CHECK_DEADLOCK FALSE
