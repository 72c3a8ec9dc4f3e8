SPECIFICATION Spec
CONSTANTS
    Files <- IncludeFiles
    Deps <- IncludeDeps
    Headers <- OnlyHdr
    Build = {}
    Queries <- OnlyTop
    Rejects = TRUE
    External <- IncludeFiles
    Watched <- IncludeFiles
    InactiveRegions = FALSE
    MaxInbox = 3
    MaxSteps = 6
    Texts = {t1, t2}
    NoText = NoText
    NoReport = NoReport
    top = top
    leaf = leaf
    hdr = hdr
INVARIANTS
    EditorOwnsOpen
    DiagnosticsCatchUp
    WatchedRefreshes
    SavedUnlessAsked
PROPERTIES
    EditsReachDiagnostics
CHECK_DEADLOCK FALSE
