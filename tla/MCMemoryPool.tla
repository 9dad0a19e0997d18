----------------------------- MODULE MCMemoryPool -----------------------------
\* Values for the run of MemoryPool: two clients whose names are hashed to
\* different shards.
EXTENDS MemoryPool

CONSTANTS c1, c2, s1, s2

MCShardOf == [c \in Client |-> IF c = c1 THEN s1 ELSE s2]
=============================================================================
