SPECIFICATION ScreensSpec
CONSTANTS
    r1 = r1
    g1 = g1
    g2 = g2
    a1 = a1
    b1 = b1
    Mangaka = Mangaka
    None = None
    Reqs <- OneSlot
    Regions <- OneRegion
    Assistants <- OneAssistant
    Boards <- OneBoard
    MaxPages = 1
    MaxTasks = 1
    MaxVersions = 3
    MaxSubmissions = 2
    InOrder = TRUE
    MaxDay = 1
    Ops <- PageOps
    Faults = FALSE
    Drawn = TRUE
PROPERTIES PublishedPagesAreCompleted
