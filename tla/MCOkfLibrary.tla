----------------------------- MODULE MCOkfLibrary -----------------------------
\* Symmetry for the run of OkfLibrary: the processes are interchangeable.
EXTENDS OkfLibrary, TLC

AnyProc == Permutations(Proc)
=============================================================================
