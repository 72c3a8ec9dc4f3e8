SPECIFICATION Spec
CONSTANTS
    Modules <- Mods
    Interfaces <- Buses
    Packages <- Pkgs
    Doc <- DocOf
    Texts <- TextsOf
    Body <- BodyOf
    Original <- AtFirst
    Top = None
    Indices <- Items
    Rank <- Order
    Activated <- Chosen
    Depth = 8
    MaxSteps = 5
    None = None
INVARIANTS
    PickedIsShown
    AnalysesBoundToActive
    SearchAgreesWithTree
    LocationsFollowEdits
CHECK_DEADLOCK FALSE
