SPECIFICATION VotingSpec
CONSTANTS
    c1 = c1
    c2 = c2
    m1 = m1
    m2 = m2
    Series = {1}
    Members <- TwoMembers
    Slots <- OneSlot
    Scores = {2, 4}
    Decisions = {"CONTINUE", "CANCEL"}
    FirstDay = 1
    LastDay = 1
    MaxDay = 2
    Faults = FALSE
PROPERTY TerminatedIsFinal
\* The window passes, all series are cancelled, nothing is left to do.
CHECK_DEADLOCK FALSE
