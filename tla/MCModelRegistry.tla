-------------------------- MODULE MCModelRegistry --------------------------
(* Small instances of the model registry for TLC. *)
EXTENDS ModelRegistry, TLC

Symm == Permutations(Procs) \cup Permutations(Names)
=============================================================================
