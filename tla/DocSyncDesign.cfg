SPECIFICATION SafetySpec
CONSTANTS
    Files <- TwoFiles
    Deps <- TwoDeps
    Headers = {}
    Build <- TwoFiles
    Queries <- OnlyTop
    Rejects = FALSE
    External <- OnlyLeaf
    Watched <- TwoFiles
    InactiveRegions = TRUE
    MaxInbox = 3
    MaxSteps = 6
    Texts = {t1, t2}
    NoText = NoText
    NoReport = NoReport
    top = top
    leaf = leaf
    hdr = hdr
INVARIANTS
    DesignShownAfterSave
PROPERTIES
    DesignKeptUntilEdited
CHECK_DEADLOCK FALSE
