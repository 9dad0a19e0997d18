----------------------------- MODULE MCTenantAuth -----------------------------
\* Values for the run of TenantAuth: two clients of one domain that give the same
\* machine id and have different machine keys; one of them has an old domain key.
EXTENDS TenantAuth, TLC

CONSTANTS c1, c2, d1, k1, k2, m1, r1, r2, x1, x2

MCDomainOf == [c \in Client |-> d1]
MCMachineOf == [c \in Client |-> m1]
MCDomainKeyOf == [c \in Client |-> IF c = c1 THEN k1 ELSE k2]
MCMachineKeyOf == [c \in Client |-> IF c = c1 THEN x1 ELSE x2]

\* The two requests to the server may be exchanged.
AnyRequest == Permutations({r1, r2})
=============================================================================
