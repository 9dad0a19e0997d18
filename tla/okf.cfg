SPECIFICATION Spec
CONSTANTS
    Proc = {p1, p2}
    Path = {b, i}
    Reserved = {i}
    SubPath = {b, i}
    None = None
    MaxOps = 4
    MaxDeaths = 1
    MaxOdd = 1
INVARIANTS
    NothingVanishes
    LogMatches
    ConceptsValid
CHECK_DEADLOCK FALSE
SYMMETRY AnyProc
