SPECIFICATION Spec
CONSTANTS
    Files <- ThreeFiles
    HeaderFiles <- TwoHeaders
    Rank <- Order
    Names <- SomeNames
    Contents <- Texts
    Absent <- OnlyFar
    Scopes <- AllFiles
    Builds <- OnlySource
    SearchDirs <- Library
    Missing = Missing
    None = None
    MaxSteps = 3
INVARIANTS
    MapsAreExact
    AnswersAreCurrent
CHECK_DEADLOCK FALSE
