CONSTANTS
    m1 = m1
    m2 = m2
    s1 = s1
    s2 = s2
    s3 = s3
    Machine = {m1, m2}
    Session = {s1, s2, s3}
    Owner <- MCOwner
    Punctual = {s1, s2, s3}
    Interval = 1
    OfflineAfter = 2
    MaxLate = 0
    Nobody = Nobody
SPECIFICATION FairSpec
PROPERTY LeaveIsHeard
