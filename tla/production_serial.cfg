SPECIFICATION Spec
CONSTANTS
    r1 = r1
    r2 = r2
    g1 = g1
    g2 = g2
    a1 = a1
    a2 = a2
    Mangaka = Mangaka
    None = None
    Reqs <- OneSlot
    Regions <- TwoRegions
    Assistants <- OneAssistant
    MaxPages = 2
    MaxTasks = 2
    MaxVersions = 3
    MaxSubmissions = 2
    Ops <- AllOps
    Faults = FALSE
    Drawn = FALSE
SYMMETRY Symmetry
INVARIANTS TypeOK OneTaskPerRegion PaidOnce ReviewQueueMatchesTasks PageFollowsTasks ReviewedChapterIsReady
PROPERTIES ReviewedWorkStandsStill ImplementsContract
