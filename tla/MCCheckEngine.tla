--------------------------- MODULE MCCheckEngine ---------------------------
(* Small instances of CheckEngine for TLC.                                 *)
EXTENDS CheckEngine, TLC

\* Recheck goroutines and request handlers are interchangeable.
Symmetry == Permutations(Slot) \cup Permutations(Getter)
============================================================================
