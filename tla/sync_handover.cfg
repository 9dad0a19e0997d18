SPECIFICATION Spec
CONSTANTS
    Client = {c1, c2}
    Path = {1, 2}
    None = None
    NoTree = NoTree
    MaxEdits = 3
    MaxFaults = 3
    MaxEvents = 1
    Overlap = FALSE
    EditAnytime = FALSE
    StopAt = {"pull", "create", "write", "cache", "push", "upload", "loop"}
    Faults = {"diff", "quota"}
INVARIANTS
    EditsSurvive
SYMMETRY AnyClient
