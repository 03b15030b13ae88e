------------------------------ MODULE MCLookup ------------------------------
(* A small instance of the lookups for TLC. *)
EXTENDS Lookup, TLC

CONSTANTS m1, m2, r1, r2, n1, n2, a, b, ns1, ns2

Namespace == [v \in Names |-> IF v = a THEN ns1 ELSE ns2]

Replica(m, s) == [model |-> m, status |-> s]
Node(R) == [status |-> "online", assigned |-> R]
World(ma, mb, ra, rb, na, nb) ==
    [models |-> (m1 :> ma @@ m2 :> mb), reps |-> (r1 :> ra @@ r2 :> rb), nodes |-> (n1 :> na @@ n2 :> nb)]

(* A model with two replicas on two nodes, and another; two models of one  *)
(* name with a replica each, on one node; a model whose replicas are all   *)
(* failed, or not known, beside a free id; one whose replica is gone.      *)
SomeWorlds ==
    {World(a, b, Replica(m1, "running"), Replica(m1, "failed"), Node({r1}), Node({r2})),
     World(a, a, Replica(m1, "running"), Replica(m2, "pending"), Node({r1, r2}), Absent),
     World(a, Absent, Replica(m1, "failed"), Replica(m1, "failed"), Node({r1}), Node({r2})),
     World(a, Absent, Replica(m1, "unknown"), Replica(m1, "running"), Node({r1, r2}), Node({})),
     World(Absent, a, Replica(m2, "running"), Absent, Node({r1}), Node({r2}))}
=============================================================================
