SPECIFICATION Spec
CONSTANTS
    None = None
    Segments = {"a", "b", "d", "e", "x", "tmp"}
    Documents <- MCDocuments
    Meaning <- MCMeaning
    Misread <- MCMisread
    Planted <- MCPlanted
    ProjectFiles <- MCFiles
INVARIANTS
    DifferentFamilyNeverCredited
CHECK_DEADLOCK FALSE
