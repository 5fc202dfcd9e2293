--------------------------- MODULE MCStateStore ---------------------------
(* Symmetric instances of the durable store for TLC. *)
EXTENDS StateStore, TLC

Symmetry == Permutations(Key) \cup Permutations(Doc) \cup Permutations(Writer)
=============================================================================
