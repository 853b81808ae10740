SPECIFICATION Spec
CONSTANTS
    None = None
    Torn = Torn
    Plants <- MCPlants
    Layers <- MCLayers
    Words <- MCWords
    Inputs <- MCInputs
    Manifests <- MCManifests
    Args <- MCArgs
    Tools <- MCTools
    Owners <- MCOwners
    MaxDeliveries = 1
    MaxKills = 1
INVARIANTS
    TypeOK
    EveryFileAccounted
    NamesReadBack
    FiguresAddUp
    MissReportMatches
PROPERTIES
    EventuallyPublished
