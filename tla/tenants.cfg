SPECIFICATION Spec
CONSTANTS
    c1 = c1
    c2 = c2
    d1 = d1
    k1 = k1
    k2 = k2
    m1 = m1
    r1 = r1
    r2 = r2
    x1 = x1
    x2 = x2
    Domain = {d1, d2}
    DomainKey = {k1, k2}
    Machine = {m1}
    MachineKey = {x1, x2}
    Client = {c1, c2}
    DomainOf <- MCDomainOf
    MachineOf <- MCMachineOf
    DomainKeyOf <- MCDomainKeyOf
    MachineKeyOf <- MCMachineKeyOf
    Request = {r1, r2, r3}
    Cli = {r3}
    None = None
    NoKey = NoKey
    Torn = Torn
    MaxCrashes = 1
INVARIANTS
    OneKeyPerMachine
    ReportedKeyLasts
PROPERTIES
    LockedOutOnce
SYMMETRY AnyRequest
