-------------------------- MODULE MCExecutionLoop --------------------------
(* Symmetric instances of the hypothesis-experiment loop for TLC. *)
EXTENDS ExecutionLoop, TLC

Symmetry == Permutations(Req) \cup Permutations(Trial)
=============================================================================
