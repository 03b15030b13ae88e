----------------------------- MODULE MCRunway -----------------------------
(* Small instances of the worker pool for TLC. *)
EXTENDS Runway, TLC

CONSTANTS c1, c2, c3

Symm == Permutations(Calls)
=============================================================================
