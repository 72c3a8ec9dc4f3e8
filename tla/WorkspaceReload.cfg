SPECIFICATION Spec
CONSTANTS
    Builds <- OneBuild
    Sources <- TwoSources
    Needs <- NeedsSource
    Tops <- OneTop
    Flags <- OneFlag
    BadFlags <- OneFlag
    Fragile <- Everything
    None = None
    Missing = Missing
    Broken = Broken
    Written <- AnyWorkspace
    Commands = {"open", "close", "setBuildFile", "setTopLevel", "autoConfigure", "addDefine"}
    MaxInbox = 2
    MaxSteps = 3
    buildA = buildA
    src = src
    top = top
    bad = bad
INVARIANTS
    ShownIsCurrent
    CurrentUnlessPending
PROPERTIES
    SelectionSurvives
    ReloadEventuallyApplies
CHECK_DEADLOCK FALSE
