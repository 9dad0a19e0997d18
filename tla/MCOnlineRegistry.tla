--------------------------- MODULE MCOnlineRegistry ---------------------------
(* Instances of OnlineRegistry: machine m1 connects as s1 and s2, m2 as s3. *)
EXTENDS OnlineRegistry, TLC

CONSTANTS m1, m2, s1, s2, s3

MCOwner == [s \in Session |-> IF s = s3 THEN m2 ELSE m1]

\* The sessions of m1 are interchangeable.
AnySession == Permutations({s1, s2})
=============================================================================
