SPECIFICATION Spec
CONSTANTS
    None = None
    Torn = Torn
    Layers <- MCLayers
    AlgorithmOf <- MCAlgorithmOf
    Order <- MCOrder
    Versions <- MCVersions
    MaxEdits = 1
    MaxKills = 1
INVARIANTS
    TypeOK
    NoAnswerKey
    BuiltIsExact
    CheckedIsInSync
    TruthMatchesCorpus
    HoldoutCorresponds
PROPERTIES
    CheckWritesNothing
    EventuallyInSync
