SPECIFICATION ScreensSpec
CONSTANTS
    r1 = r1
    g1 = g1
    g2 = g2
    a1 = a1
    b1 = b1
    Mangaka = Mangaka
    None = None
    Reqs <- OneSlot
    Regions <- TwoRegions
    Assistants <- OneAssistant
    Boards <- OneBoard
    MaxPages = 1
    MaxTasks = 2
    MaxVersions = 3
    MaxSubmissions = 2
    MaxDay = 1
    Ops <- PageOps
    Faults = TRUE
    Drawn = TRUE
    InOrder = TRUE
SYMMETRY Symmetry
INVARIANTS ScheduleFollowsChapter NothingIsReleasedEarly PagesOfferWhatIsAccepted
PROPERTIES ApprovedAsShown ImplementsLife
