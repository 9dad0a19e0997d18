SPECIFICATION FairSpec
CONSTANTS
    c1 = c1
    c2 = c2
    s1 = s1
    s2 = s2
    Client = {c1, c2}
    Shard = {s1, s2}
    ShardOf <- MCShardOf
    Limits = {0, 2}
    MaxCaptures = 1
INVARIANTS
    CommittedIsKept
    RecallComplete
PROPERTIES
    Answered
