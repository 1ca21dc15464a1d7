--------------------------- MODULE MCObjectStore ---------------------------
(* Small instances of ObjectStore for TLC. *)
EXTENDS ObjectStore, TLC

Symmetry == Permutations(Thread) \cup Permutations(Artifact)
=============================================================================
