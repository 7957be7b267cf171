SPECIFICATION FairSpec
CONSTANTS
    r1 = r1
    r2 = r2
    g1 = g1
    g2 = g2
    a1 = a1
    a2 = a2
    Mangaka = Mangaka
    None = None
    Reqs <- TwoSlots
    Regions <- OneRegion
    Assistants <- OneAssistant
    MaxPages = 1
    MaxTasks = 1
    MaxVersions = 3
    MaxSubmissions = 2
    Ops <- LiveOps
    Faults = FALSE
    Drawn = TRUE
PROPERTIES RequestsReturn SavedVersionIsShown
