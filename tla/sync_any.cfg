SPECIFICATION Spec
CONSTANTS
    Client = {c1, c2}
    Path = {1}
    None = None
    NoTree = NoTree
    MaxEdits = 2
    MaxFaults = 1
    MaxEvents = 1
    Overlap = TRUE
    EditAnytime = TRUE
    StopAt = {"pull", "create", "write", "cache", "keep", "push", "fill", "upload", "loop"}
    Faults = {"copy", "diff", "tree", "quota"}
INVARIANTS
    TypeOK
    CasIntegrity
    Recoverable
    LostInKnownWays
    FirstPushKeepsPulled
    
SYMMETRY AnyClient
