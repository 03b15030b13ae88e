--------------------------- MODULE MCNodeRegistry ---------------------------
(* Small instances of the node registry for TLC. *)
EXTENDS NodeRegistry, TLC

Symm == Permutations(Rpcs) \cup Permutations(Metas)
=============================================================================
