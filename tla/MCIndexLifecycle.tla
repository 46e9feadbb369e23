-------------------------- MODULE MCIndexLifecycle --------------------------
(* Small instances of IndexLifecycle for TLC.                              *)
EXTENDS IndexLifecycle, TLC

\* Packages and detached goroutines are interchangeable.
Symmetry == Permutations(Pkg) \cup Permutations(Task)
=============================================================================
