---------------------------- MODULE MCHeartbeat ----------------------------
(* Small instances of the heartbeat system for TLC: one replica per agent. *)
EXTENDS Heartbeat, TLC

CONSTANTS a1, a2, r1, r2

OneEach == [a \in Agents |-> IF a = a1 THEN {r1} ELSE {r2}]

(* The initial records have the first ids; the others are interchangeable. *)
Symm == Permutations(Ids \ {FirstIds[a] : a \in Agents})
=============================================================================
