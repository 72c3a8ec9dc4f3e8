SPECIFICATION Spec
CONSTANTS
    Files <- TwoFiles
    Needs <- Includes
    Clean = Clean
    Bad = {w1}
    Gone = Gone
    Untitled = Untitled
    BuildFile = BuildFile
    Paths <- TwoPaths
    DefaultPath = toolA
    None = None
    MaxSteps = 3
    topSv = topSv
    hdrSvh = hdrSvh
    toolA = toolA
    toolB = toolB
INVARIANTS
    SettingsArePickedUp
CHECK_DEADLOCK FALSE
