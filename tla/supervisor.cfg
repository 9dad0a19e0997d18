CONSTANTS
    Request = {q1, q2}
    MaxCrashes = 2
    MaxFailures = 1
    MaxPid = 5
    NoPid = NoPid
SPECIFICATION FairSpec
INVARIANTS
    OneYgg
PROPERTIES
    RestartEnds
    ComesBack
