SPECIFICATION FairSpec
CONSTANTS
    Path = {p1, p2}
    Requester = {r1, r2, r3}
    NoHolder = NoHolder
    NoPath = NoPath
    TTL = 2
    RenewingClients = {r3}
    MaxTime = 5
INVARIANTS
    LeaseBacked
    MutualExclusion
PROPERTIES
    LeaseKept
    ImplementsLeaseLock
    AbandonedReclaimed
