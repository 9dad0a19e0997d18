------------------------------ MODULE LeaseLock ------------------------------
(***************************************************************************)
(* What the lock service promises, with no clock, no table and no sweeper: *)
(* every path has at most one owner, an owner may lose a path at any       *)
(* moment (it gave it back, or its lease ran out, possibly together with   *)
(* others), and a path is taken only by its owner or while nobody owns it. *)
(***************************************************************************)
CONSTANTS Path, Requester, NoHolder

VARIABLE owner

Init == owner = [p \in Path |-> NoHolder]

\* A requester becomes the owner of a path that nobody owns.
Take(p, r) ==
    /\ owner[p] = NoHolder
    /\ owner' = [owner EXCEPT ![p] = r]

\* The owners of the paths in S lose them.
Lose(S) == owner' = [p \in Path |-> IF p \in S THEN NoHolder ELSE owner[p]]

Next ==
    \/ \E p \in Path, r \in Requester : Take(p, r)
    \/ \E S \in SUBSET Path : Lose(S)

Spec == Init /\ [][Next]_owner
=============================================================================
