----------------------------- MODULE MCRouting -----------------------------
(* A small cluster for TLC.  Weights are in halves of 1.0. *)
EXTENDS Routing, TLC

CONSTANTS a1, a2, m1, m2, c1, c2, d1, d2

Ep(a, w) == [node |-> a, weight |-> w, healthy |-> TRUE]
Ill(a) == [node |-> a, weight |-> 2, healthy |-> FALSE]

(* Weights 1.5 and 1, and a list that must be filtered; weights that are *)
(* all zero, and a list of one.                                            *)
Weighted ==
    {(m1 :> <<Ep(a2, 3), Ep(a1, 2)>>) @@ (m2 :> <<Ill(a1)>>),
     (m1 :> <<Ep(a1, 0), Ep(a2, 0)>>) @@ (m2 :> <<Ill(a2), Ep(a2, 2)>>)}

(* A table by which agents refer requests to each other and to themselves. *)
Crossed == (m1 :> <<Ep(a2, 2)>>) @@ (m2 :> <<Ep(a1, 2)>>)

MCTables == Weighted \cup {Crossed}

(* Two clients at one balancer; deployments that race, with a call; a      *)
(* deployment, a call and a crash.                                         *)
MCWorlds ==
    {[deploys |-> {}, calls |-> {c1, c2}, entries |-> {a1}, polled |-> {a1},
      tables |-> Weighted, crashes |-> 0],
     [deploys |-> {d1, d2}, calls |-> {c1}, entries |-> {a1}, polled |-> Agents,
      tables |-> {Crossed}, crashes |-> 0],
     [deploys |-> {d1}, calls |-> {c1}, entries |-> {a1}, polled |-> Agents,
      tables |-> {Crossed}, crashes |-> 1]}
=============================================================================
