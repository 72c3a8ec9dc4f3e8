SPECIFICATION SafetySpec
CONSTANTS
    Files <- TwoFiles
    Deps <- TwoDeps
    Headers = {}
    Build = {}
    Queries <- OnlyTop
    Rejects = FALSE
    External = {}
    Watched = {}
    InactiveRegions = FALSE
    MaxInbox = 3
    MaxSteps = 6
    Texts = {t1, t2}
    NoText = NoText
    NoReport = NoReport
    top = top
    leaf = leaf
    hdr = hdr
INVARIANTS
    SavedRefreshes
CHECK_DEADLOCK FALSE
