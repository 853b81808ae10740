SPECIFICATION FairSpec
CONSTANTS
    f = f
    s = s
    p = p
    q = q
    Tools = {f, s}
    Projects = {p, q}
    Plans <- ByToolOrProject
    FileTools = {f}
    LateTools = {f}
    Undecodable = {s}
    Nothing = Nothing
    Garbage = Garbage
    Torn = Torn
    MaxSessions = 2
    MaxKills = 1
INVARIANTS
    TypeOK
    ManifestTruthful
    ManifestComplete
    FreshRunHonest
PROPERTIES
    EventuallyEnds
CHECK_DEADLOCK FALSE
