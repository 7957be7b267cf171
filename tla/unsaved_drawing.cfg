SPECIFICATION DrawingSpec
CONSTANTS
    c1 = c1
    c2 = c2
    Slots = {c1, c2}
    Limit = 2
    MaxEdits = 1
    MaxSessions = 1
    MaxSaves = 1
    MaxArrays = 12
    DrawingScenes <- OneSave
INVARIANT UnsavedIsGuarded
\* The one opening and the one save can be used up.
CHECK_DEADLOCK FALSE
