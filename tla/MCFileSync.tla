------------------------------ MODULE MCFileSync ------------------------------
(* Instances of FileSync for TLC. Clients are interchangeable. *)
EXTENDS FileSync, TLC

AnyClient == Permutations(Client)
=============================================================================
