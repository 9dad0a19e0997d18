SPECIFICATION FairSpec
CONSTANTS
    s1 = s1
    s2 = s2
    b1 = b1
    b2 = b2
    Session = {s1, s2}
    Blob = {b1, b2, b3, b4}
    Missing = Missing
    Chunks <- MCChunks
    Size <- MCSize
    FirstPlan = "pro"
    QuotaOf <- MCQuotaOf
    MayUpload <- MCMixedBlobs
    MaxPuts = 4
    MaxPlans = 1
    MaxCrashes = 1
INVARIANTS
    TypeOK
    SoleIntact
    AckedPresent
    StoredIntact
    StorageWithinQuota
PROPERTIES
    UploadEnds
