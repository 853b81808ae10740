SPECIFICATION Spec
CONSTANTS
    f = f
    s = s
    p = p
    q = q
    Tools = {f, s}
    Projects = {p, q}
    Plans <- PrintingOnly
    FileTools = {f}
    LateTools = {}
    Undecodable = {s}
    Nothing = Nothing
    Garbage = Garbage
    Torn = Torn
    MaxSessions = 1
    MaxKills = 0
PROPERTIES
    RunOneNeverRaises
CHECK_DEADLOCK FALSE
