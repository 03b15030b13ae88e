--------------------------- MODULE ModelRegistry ---------------------------
(***************************************************************************)
(* The model registry of the control plane                                 *)
(* (controller/registry/model_registry.go behind                           *)
(* api/grpc/registry/model_registry.go).  Each RPC runs in a goroutine of  *)
(* its own and is a sequence of store calls; a store call is atomic (Store *)
(* implements DurableKV), a handler is not.  RegisterModel checks that the *)
(* name is free with Keys and one Get per key, and only then Puts.         *)
(***************************************************************************)
EXTENDS Naturals, FiniteSets

CONSTANTS
    Procs,        \* RPC handlers in flight
    Ids,          \* model UUIDs; bounds the number of registrations
    Namespaces, Names,
    NoName,       \* the empty name
    Absent,       \* no record under a key
    Renames       \* whether clients call UpdateModel

ASSUME ModelConstants == NoName \notin Names /\ Absent \notin [ns : Namespaces, name : Names \cup {NoName}]
                         /\ Renames \in BOOLEAN
                         /\ Ids # {} /\ Namespaces # {} /\ Names # {}

Infos == [ns : Namespaces, name : Names \cup {NoName}]
Named == {r \in Infos : r.name # NoName}

VARIABLES
    models,   \* the store's "model:<id>" records
    pc,       \* each handler's step
    id,       \* the UUID its call generated
    info,     \* the record its call registers
    todo,     \* keys its uniqueness scan has still to read
    used,     \* UUIDs generated so far
    known,    \* history: ids that have been visible to clients
    updated,  \* history: ids UpdateModel has written since they were last deleted
    removed,  \* history: ids DeRegisterModel has deleted
    overlap   \* history: pairs of ids whose registrations overlapped in time

vars == <<models, pc, id, info, todo, used, known, updated, removed, overlap>>

Present == {i \in Ids : models[i] # Absent}

Init ==
    /\ models = [i \in Ids |-> Absent]
    /\ pc = [p \in Procs |-> "idle"]
    /\ id \in [Procs -> {CHOOSE i \in Ids : TRUE}]
    /\ info \in [Procs -> {CHOOSE r \in Named : TRUE}]
    /\ todo = [p \in Procs |-> {}]
    /\ used = {} /\ known = {} /\ updated = {} /\ removed = {} /\ overlap = {}

(* The RPC: an empty name is an InvalidArgument; the id in the request is  *)
(* ignored and a new UUID generated.                                       *)
RegisterModel(p) ==
    /\ pc[p] = "idle"
    /\ \E i \in Ids \ used, ns \in Namespaces, name \in Names \cup {NoName} :
          /\ name # NoName
          /\ id' = [id EXCEPT ![p] = i]
          /\ info' = [info EXCEPT ![p] = [ns |-> ns, name |-> name]]
          /\ used' = used \cup {i}
          /\ overlap' = overlap \cup {{i, id[q]} : q \in {r \in Procs : pc[r] # "idle"}}
    /\ pc' = [pc EXCEPT ![p] = "keys"]
    /\ UNCHANGED <<models, todo, known, updated, removed>>

(* GetModelByNamespaceAndName: a snapshot of the keys ... *)
ListKeys(p) ==
    /\ pc[p] = "keys"
    /\ todo' = [todo EXCEPT ![p] = Present]
    /\ pc' = [pc EXCEPT ![p] = "scan"]
    /\ UNCHANGED <<models, id, info, used, known, updated, removed, overlap>>

(* Mutation: the scan ends at the first record that does not match. *)
ScanFirst(p, i) ==
    /\ pc[p] = "scan" /\ i \in todo[p]
    /\ IF models[i] = info[p]
       THEN pc' = [pc EXCEPT ![p] = "idle"] /\ UNCHANGED todo
       ELSE todo' = [todo EXCEPT ![p] = {}] /\ UNCHANGED pc
    /\ UNCHANGED <<models, id, info, used, known, updated, removed, overlap>>

(* Mutation: a key deleted since the snapshot is retried. *)
ScanRetry(p, i) ==
    /\ pc[p] = "scan" /\ i \in todo[p]
    /\ IF models[i] = info[p]
       THEN pc' = [pc EXCEPT ![p] = "idle"] /\ UNCHANGED todo
       ELSE todo' = [todo EXCEPT ![p] = IF models[i] = Absent THEN @ ELSE @ \ {i}] /\ UNCHANGED pc
    /\ UNCHANGED <<models, id, info, used, known, updated, removed, overlap>>

(* ... then one Get per key, in the order of a Go map: a key deleted since *)
(* is skipped, a record with the same namespace and name ends the call     *)
(* with AlreadyExists.                                                     *)
Scan(p, i) ==
    /\ pc[p] = "scan" /\ i \in todo[p]
    /\ IF models[i] = info[p]
       THEN pc' = [pc EXCEPT ![p] = "idle"] /\ UNCHANGED todo
       ELSE todo' = [todo EXCEPT ![p] = @ \ {i}] /\ UNCHANGED pc
    /\ UNCHANGED <<models, id, info, used, known, updated, removed, overlap>>

(* The final Put, which may fail without effect. *)
PutModel(p) ==
    /\ pc[p] = "scan" /\ todo[p] = {}
    /\ pc' = [pc EXCEPT ![p] = "idle"]
    /\ \/ /\ models' = [models EXCEPT ![id[p]] = info[p]]
          /\ known' = known \cup {id[p]}
       \/ UNCHANGED <<models, known>>
    /\ UNCHANGED <<id, info, todo, used, updated, removed, overlap>>

(* Mutation: the Delete addresses another key than the record's. *)
DeRegisterNothing(i) ==
    /\ i \in known
    /\ removed' = removed \cup {i} /\ updated' = updated \ {i}
    /\ UNCHANGED <<models, pc, id, info, todo, used, known, overlap>>

(* One Delete; the id need not exist. *)
DeRegisterModel(i) ==
    /\ i \in known
    /\ models' = [models EXCEPT ![i] = Absent]
    /\ removed' = removed \cup {i} /\ updated' = updated \ {i}
    /\ UNCHANGED <<pc, id, info, todo, used, known, overlap>>

(* One Put of the record the request describes: neither the id's existence *)
(* nor the name is checked.                                                *)
UpdateModel(i, r) ==
    /\ Renames /\ i \in known
    /\ models' = [models EXCEPT ![i] = r]
    /\ updated' = updated \cup {i}
    /\ UNCHANGED <<pc, id, info, todo, used, known, removed, overlap>>

Register(p) == ListKeys(p) \/ (\E i \in Ids : Scan(p, i)) \/ PutModel(p)

Next ==
    \/ \E p \in Procs : RegisterModel(p) \/ Register(p)
    \/ \E i \in Ids : DeRegisterModel(i)
    \/ \E i \in Ids, r \in Infos : UpdateModel(i, r)

Spec == Init /\ [][Next]_vars

FairSpec == Spec /\ \A p \in Procs : WF_vars(Register(p))

-----------------------------------------------------------------------------
(* Every variable keeps its shape; only a non-empty name reaches the scan. *)
TypeOK ==
    /\ models \in [Ids -> Infos \cup {Absent}]
    /\ pc \in [Procs -> {"idle", "keys", "scan"}]
    /\ id \in [Procs -> Ids] /\ info \in [Procs -> Named]
    /\ todo \in [Procs -> SUBSET Ids]
    /\ used \subseteq Ids /\ known \subseteq used /\ updated \subseteq known
    /\ removed \subseteq known /\ overlap \subseteq SUBSET used

(* "It enforces that the model name is non-empty and unique within its     *)
(* namespace": no two stored models have the same namespace and name.      *)
UniqueNames == \A i, j \in Present : i # j => models[i] # models[j]

(* What the check-then-Put of RegisterModel does guarantee: two models may *)
(* share a name only if their registrations overlapped in time or one of   *)
(* them was renamed by UpdateModel; sequential registrations never clash,  *)
(* whatever is deregistered during the scan.                               *)
DuplicatesNeedOverlap ==
    \A i, j \in Present :
        i # j /\ models[i] = models[j]
            => {i, j} \in overlap \/ i \in updated \/ j \in updated

(* A deregistered model does not come back: no handler still in flight     *)
(* holds a record it will Put again under its id; only UpdateModel does.   *)
RemovedStaysRemoved == \A i \in removed : models[i] # Absent => i \in updated

(* "Replaces the stored model metadata for an existing model": a model     *)
(* that is not stored is only created by its registration.                 *)
OnlyRegistrationCreates ==
    [][\A i \in Ids : models[i] = Absent /\ models'[i] # Absent
          => \E p \in Procs : pc[p] = "scan" /\ pc'[p] = "idle" /\ id[p] = i]_vars

(* RegisterModel returns although keys come and go during its scan. *)
RegistrationsReturn == \A p \in Procs : pc[p] # "idle" ~> pc[p] = "idle"
=============================================================================
