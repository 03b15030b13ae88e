------------------------------ MODULE MCClient ------------------------------
(* A small instance of the client and the model registry for TLC. *)
EXTENDS Client, TLC

CONSTANTS n1, ns2

Entry(name) == [ns |-> NoNs, name |-> name]
Manifest(sane, ns, list) == [sane |-> sane, ns |-> ns, models |-> list]

(* One that names a model twice, one for two namespaces, and three that    *)
(* are not valid.                                                          *)
SomeManifests ==
    {Manifest(TRUE, NoNs, <<Entry(n1), Entry(n1)>>),
     Manifest(TRUE, ns2, <<Entry(n1), [Entry(n1) EXCEPT !.ns = Default]>>),
     Manifest(TRUE, NoNs, <<Entry(n1), Entry(NoName)>>), Manifest(TRUE, NoNs, <<>>),
     Manifest(FALSE, NoNs, <<Entry(n1)>>)}

Symm == Permutations(Procs) \cup Permutations(Users)
=============================================================================
