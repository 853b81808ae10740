SPECIFICATION Spec
CONSTANTS
    f = f
    s = s
    p = p
    q = q
    Tools = {f, s}
    Projects = {p, q}
    Plans <- PrintingOnly
    FileTools = {f}
    LateTools = {}
    Undecodable = {}
    Nothing = Nothing
    Garbage = Garbage
    Torn = Torn
    MaxSessions = 2
    MaxKills = 0
INVARIANTS
    FailedIsAbsent
CHECK_DEADLOCK FALSE
