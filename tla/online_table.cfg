CONSTANTS
    m1 = m1
    m2 = m2
    s1 = s1
    s2 = s2
    s3 = s3
    Machine = {m1, m2}
    Session = {s1, s2, s3}
    Owner <- MCOwner
    Punctual = {s1, s2}
    Interval = 1
    OfflineAfter = 2
    MaxLate = 1
    Nobody = Nobody
SPECIFICATION Spec
SYMMETRY AnySession
INVARIANTS
    TypeOK
    ConnectedIsListed
    ViewsRight
