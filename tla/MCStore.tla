------------------------------ MODULE MCStore ------------------------------
(* Small instances of the store for TLC. *)
EXTENDS Store, TLC

Symm == Permutations(Procs) \cup Permutations(Keys) \cup Permutations(Values)

(* With oversized values the values are not interchangeable. *)
FaultSymm == Permutations(Procs) \cup Permutations(Keys)
=============================================================================
