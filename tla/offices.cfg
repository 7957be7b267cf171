SPECIFICATION OfficesSpec
CONSTANTS
    c1 = c1
    c2 = c2
    m1 = m1
    m2 = m2
    m3 = m3
    s1 = s1
    s2 = s2
    p1 = p1
    p2 = p2
    t1 = t1
    t2 = t2
    a1 = a1
    u1 = u1
    u2 = u2
    u3 = u3
    k1 = k1
    Slots = {c1, c2}
    Series = {s1, s2}
    Members = {m1, m2, m3}
    Weeks = {0, 3}
    MaxImports = 2
    ReaderScenes <- ReaderCast
    Paid = {p1, p2}
    Amounts = {1, 2}
    Admins = {a1}
    MaxDisputes = 2
    DisputeScenes <- DisputeCast
    Users = {u1, u2, u3}
    Clerks = {k1}
    MaxProposals = 1
    MaxChapters = 2
    OfficeScenes <- OfficeCast
    Tabs = {t1, t2}
    MAX_ATTEMPTS = 2
    MaxCodes = 2
    MaxPasswords = 2
    SignInScenes <- SignInCast
    Limit = 2
    MaxEdits = 3
    MaxSessions = 2
    MaxSaves = 2
    MaxArrays = 20
    DrawingScenes <- DrawingCast
SYMMETRY Symmetry
INVARIANTS OfficesTypeOK RowsHaveLiveImport WeeksAreImportedOnce PendingIsOffered EarningsAddUp DisputedOnce RolesFitWork SeriesFollowsProposal SeriesHasOneEditor ChaptersAreNumbered PasswordFollowsPassword CodesAreSpent UndoRestores DesksOfferWhatIsAccepted
PROPERTIES DeletionIsUnanimous
\* The bounds on edits, codes, passwords and openings can be used up.
CHECK_DEADLOCK FALSE
