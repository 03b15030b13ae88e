------------------------------- MODULE Lookup -------------------------------
(***************************************************************************)
(* The reading half of the control plane's API, as edgectl calls it: model *)
(* get, list, status and nodes, node get, list and endpoints, and the      *)
(* commands whose service the control plane does not offer.  A listing is  *)
(* a snapshot of the keys and one Get per key; a call makes up to three    *)
(* listings one after the other, while registrations, heartbeats and the   *)
(* replica manager (scheduler/replica/replica_manager.go) write.           *)
(*                                                                         *)
(* Calls only read, so one call at a time is enough.                       *)
(***************************************************************************)
EXTENDS Naturals, FiniteSets

CONSTANTS
    Models, Replicas, Nodes,  \* UUIDs
    Names, NoName,            \* names of models, and the empty one
    Namespaces, NoNs,         \* namespaces, and --namespace not given
    NsOf,                     \* the namespace a model of that name is in
    Worlds,                   \* what the store holds when the call is made
    Absent,
    MaxWrites                 \* bound: writes during a call

Statuses == {"pending", "running", "failed", "unknown"}
ReplicaInfo == [model : Models, status : Statuses]
NodeInfo == [status : {"online", "offline"}, assigned : SUBSET Replicas]
Updates == [id : Replicas, model : Models, status : Statuses]

ASSUME LookupConstants ==
    /\ NsOf \in [Names -> Namespaces] /\ NoNs \notin Namespaces /\ NoName \notin Names /\ MaxWrites \in Nat
    /\ Worlds \subseteq [models : [Models -> Names \cup {Absent}],
                         reps : [Replicas -> ReplicaInfo \cup {Absent}],
                         nodes : [Nodes -> NodeInfo \cup {Absent}]]
    /\ Absent \notin Names \cup ReplicaInfo \cup NodeInfo \cup Updates
    /\ Models \cap (Replicas \cup Nodes) = {} /\ Replicas \cap Nodes = {}
    /\ (Models \cup Replicas) \cap (Statuses \cup {"listed", "online", "offline"}) = {}
    /\ IsFiniteSet(Replicas)

VARIABLES
    models,   \* "model:<id>" records: the name
    reps,     \* "replica:<id>" records
    nodes,    \* "node:<id>" records
    fresh,    \* UUIDs no model has had
    copy,     \* the replica record the heartbeat loop is updating
    kind,     \* the call's method
    arg,      \* its argument
    step,     \* "idle", "keys", "read" or "done"
    stage,    \* the listing it is in: "models", "replicas" or "nodes"
    todo,     \* keys of that listing still to be read
    found,    \* the model a name stands for
    mine,     \* that model's replicas, as they were read
    out,      \* the ids it returns
    result,   \* a model's status, or an error
    writes,
    always,   \* history: what has been true since the call began
    ever,     \* history: what was true at some time since then
    deleted,  \* history: replicas removed and not created again
    raced     \* history: replicas removed while the loop held a copy

storeVars == <<models, reps, nodes, fresh, copy, writes, deleted, raced>>
callVars == <<kind, arg, step, stage, todo, found, mine, out, result>>
vars == <<storeVars, callVars, always, ever>>

Stored(f) == {k \in DOMAIN f : f[k] # Absent}

(* What the store says: names of models, models and statuses of replicas,  *)
(* statuses and replicas of nodes.                                         *)
ModelFacts == {<<m, models[m]>> : m \in Stored(models)}
ReplicaFacts == UNION {{<<r, reps[r].model>>, <<r, reps[r].status>>} : r \in Stored(reps)}
NodeFacts == UNION {{<<n, x>> : x \in nodes[n].assigned \cup {"listed", nodes[n].status}} : n \in Stored(nodes)}
Facts == ModelFacts \cup ReplicaFacts \cup NodeFacts

Init ==
    /\ \E w \in Worlds : models = w.models /\ reps = w.reps /\ nodes = w.nodes
                       /\ fresh = Models \ Stored(w.models)
    /\ copy = Absent /\ writes = 0 /\ deleted = {} /\ raced = {}
    /\ kind = "none" /\ arg = NoName /\ step = "idle" /\ stage = "models" /\ todo = {}
    /\ found = Absent /\ mine = {} /\ out = {} /\ result = "none"
    /\ always = {} /\ ever = {}

-----------------------------------------------------------------------------
(* The writers.  Every Put and Delete is one step of the store.            *)

Write == writes < MaxWrites /\ writes' = writes + 1

(* RegisterModel, once its scan has let the name pass (which a rename may  *)
(* have made stale), and UpdateModel, which does not look for the name.    *)
WriteModel(m, v) ==
    /\ Write /\ m \in fresh \cup Stored(models)
    /\ models' = [models EXCEPT ![m] = v] /\ fresh' = fresh \ {m}
    /\ UNCHANGED <<reps, nodes, copy, deleted, raced>>

(* DeRegisterModel; the replicas stay. *)
DeleteModel(m) ==
    /\ Write /\ models' = [models EXCEPT ![m] = Absent]
    /\ UNCHANGED <<reps, nodes, fresh, copy, deleted, raced>>

(* CreateReplica: whatever was stored under the id is replaced. *)
CreateReplica(r, m) ==
    /\ Write /\ reps' = [reps EXCEPT ![r] = [model |-> m, status |-> "pending"]]
    /\ deleted' = deleted \ {r}
    /\ UNCHANGED <<models, nodes, fresh, copy, raced>>

DeleteReplica(r) ==
    /\ Write /\ reps' = [reps EXCEPT ![r] = Absent]
    /\ deleted' = deleted \cup {r}
    /\ raced' = IF copy # Absent /\ copy.id = r THEN raced \cup {r} ELSE raced \ {r}
    /\ UNCHANGED <<models, nodes, fresh, copy>>

(* Mutation: a replica that is not stored is updated all the same. *)
GetReplicaAnyway(r, s) ==
    /\ copy = Absent
    /\ copy' = [id |-> r, model |-> IF reps[r] = Absent THEN CHOOSE m \in Models : TRUE ELSE reps[r].model, status |-> s]
    /\ UNCHANGED <<models, reps, nodes, fresh, writes, deleted, raced>>

(* The heartbeat loop, for a replica an agent reports: GetReplicaByID,     *)
(* which skips one that is not stored ...                                  *)
GetReplicaByID(r, s) ==
    /\ copy = Absent /\ reps[r] # Absent
    /\ copy' = [id |-> r, model |-> reps[r].model, status |-> s]
    /\ UNCHANGED <<models, reps, nodes, fresh, writes, deleted, raced>>

(* ... and UpdateReplicaInfo, which does not look whether it still is. *)
UpdateReplicaInfo ==
    /\ copy # Absent /\ Write
    /\ reps' = [reps EXCEPT ![copy.id] = [model |-> copy.model, status |-> copy.status]]
    /\ copy' = Absent
    /\ UNCHANGED <<models, nodes, fresh, deleted, raced>>

(* A node is removed, or its status written. *)
WriteNode(n, status) ==
    /\ Write /\ nodes[n] # Absent
    /\ nodes' = [nodes EXCEPT ![n] = IF status = Absent THEN Absent ELSE [@ EXCEPT !.status = status]]
    /\ UNCHANGED <<models, reps, fresh, copy, deleted, raced>>

-----------------------------------------------------------------------------
(* The calls.                                                              *)

(* The methods of the services the control plane's server registers. *)
ModelRegistryAPI_ServiceDesc ==
    {"RegisterModel", "DeRegisterModel", "UpdateModel", "GetModel", "ListModels", "GetModelStatus", "GetNodesByModelName"}
NodeRegistryAPI_ServiceDesc == {"RegisterNode", "DeRegisterNode", "UpdateNode", "GetNode", "ListNodes"}
ModelTransferService_ServiceDesc == {"DownloadModel", "UploadModel"}
DiscoveryAPI_ServiceDesc == {"GetNodes"}

RegisterServices ==
    ModelRegistryAPI_ServiceDesc \cup NodeRegistryAPI_ServiceDesc
        \cup ModelTransferService_ServiceDesc \cup DiscoveryAPI_ServiceDesc

NeedsArgument == {"GetModel", "GetNode", "GetModelStatus", "GetNodesByModelName"}

Return(r) == step' = "done" /\ result' = r

(* edgectl connects and calls a method: one that is not registered, or an  *)
(* empty id or name, is an error.                                          *)
Call(method, a) ==
    /\ step = "idle" /\ kind' = method /\ arg' = a
    /\ CASE method \notin RegisterServices -> Return("Unimplemented") /\ UNCHANGED stage
         [] method \in NeedsArgument /\ a = NoName -> Return("InvalidArgument") /\ UNCHANGED stage
         [] OTHER -> /\ step' = "keys" /\ UNCHANGED result
                     /\ stage' = IF method \in {"GetNode", "ListNodes", "GetNodes"} THEN "nodes" ELSE "models"
    /\ UNCHANGED <<todo, found, mine, out>>

(* The commands.  The names a status is asked for are in the resolved      *)
(* namespace (NsOf); a listing is filtered only if --namespace is given.   *)
modelGetCmd(m) == Call("GetModel", m)
modelListCmd(ns) == Call("ListModels", ns)
modelStatusCmd(name) == Call("GetModelStatus", name)
modelNodesCmd(name) == Call("GetNodesByModelName", name)
nodeGetCmd(n) == Call("GetNode", n)
nodeListCmd == Call("ListNodes", NoName)
nodeEndpointsCmd == Call("GetNodes", NoName)
deployCmd(m) == Call("DeployModel", m)

(* Without --target, the control plane is asked; an agent's answer is in   *)
(* module Routing.                                                         *)
inferCmd(m) == Call("Infer", m)

(* One Get. *)
GetModel ==
    /\ step = "keys" /\ kind = "GetModel"
    /\ IF models[arg] = Absent THEN Return("NotFound") /\ UNCHANGED out ELSE Return("ok") /\ out' = {arg}
    /\ UNCHANGED <<kind, arg, stage, todo, found, mine>>

GetNode ==
    /\ step = "keys" /\ kind = "GetNode"
    /\ IF nodes[arg] = Absent THEN Return("NotFound") /\ UNCHANGED out ELSE Return("ok") /\ out' = {arg}
    /\ UNCHANGED <<kind, arg, stage, todo, found, mine>>

(* The keys of the listing. *)
Keys ==
    /\ step = "keys" /\ kind \notin {"GetModel", "GetNode"}
    /\ todo' = Stored(CASE stage = "models" -> models [] stage = "replicas" -> reps [] OTHER -> nodes)
    /\ step' = "read"
    /\ UNCHANGED <<kind, arg, stage, found, mine, out, result>>

(* Mutation: a key deleted since ends the listing. *)
SkipRest(k, there) == todo' = IF there THEN todo \ {k} ELSE {}

(* A key deleted since is skipped. *)
Skip(k, there) == todo' = todo \ {k}

(* ListModels keeps every model, of which edgectl shows those of the       *)
(* namespace if one is given.                                              *)
ListModel(m) ==
    /\ step = "read" /\ kind = "ListModels" /\ m \in todo
    /\ Skip(m, models[m] # Absent)
    /\ out' = IF models[m] # Absent /\ (arg = NoNs \/ NsOf[models[m]] = arg) THEN out \cup {m} ELSE out
    /\ UNCHANGED <<kind, arg, step, stage, found, mine, result>>

(* GetModelByNamespaceAndName: the first record with the name. *)
FindModel(m) ==
    /\ step = "read" /\ stage = "models" /\ kind \in {"GetModelStatus", "GetNodesByModelName"} /\ m \in todo
    /\ IF models[m] = arg
       THEN found' = m /\ todo' = {} /\ stage' = "replicas" /\ step' = "keys"
       ELSE Skip(m, models[m] # Absent) /\ UNCHANGED <<found, stage, step>>
    /\ UNCHANGED <<kind, arg, mine, out, result>>

NotFound ==
    /\ step = "read" /\ stage = "models" /\ kind \in {"GetModelStatus", "GetNodesByModelName"} /\ todo = {}
    /\ Return("NotFound")
    /\ UNCHANGED <<kind, arg, stage, todo, found, mine, out>>

(* ListReplicasByModelID keeps the replicas of the model. *)
ReadReplica(r) ==
    /\ step = "read" /\ stage = "replicas" /\ r \in todo
    /\ Skip(r, reps[r] # Absent)
    /\ mine' = IF reps[r] # Absent /\ reps[r].model = found THEN mine \cup {<<r, reps[r].status>>} ELSE mine
    /\ UNCHANGED <<kind, arg, step, stage, found, out, result>>

Count(s) == Cardinality({x \in mine : x[2] = s})

(* Mutation: replicas of unknown status are left out of the total. *)
StatusOfKnown ==
    LET total == Cardinality(mine) - Count("unknown")
    IN  IF Cardinality(mine) = 0 THEN "pending" ELSE IF Count("running") = total THEN "running"
        ELSE IF Count("pending") = total THEN "pending" ELSE IF Count("failed") = total THEN "failed"
        ELSE IF Count("running") > 0 THEN "partial" ELSE "pending"

(* The status of a model from those of its replicas. *)
GetModelStatus ==
    LET total == Cardinality(mine)
    IN  IF total = 0 THEN "pending" ELSE IF Count("running") = total THEN "running"
        ELSE IF Count("pending") = total THEN "pending" ELSE IF Count("failed") = total THEN "failed"
        ELSE IF Count("running") > 0 THEN "partial" ELSE "pending"

ReplicasRead ==
    /\ step = "read" /\ stage = "replicas" /\ todo = {}
    /\ IF kind = "GetModelStatus" THEN Return(GetModelStatus) /\ UNCHANGED stage
                          ELSE step' = "keys" /\ stage' = "nodes" /\ UNCHANGED result
    /\ UNCHANGED <<kind, arg, todo, found, mine, out>>

(* Mutation: a node counts if it has any replica. *)
WantedBusy(n) ==
    CASE kind = "ListNodes" -> TRUE
      [] kind = "GetNodes" -> nodes[n].status = "online"
      [] OTHER -> nodes[n].assigned # {}

(* ListNodes keeps all nodes, ListNodesByStatuses those online,            *)
(* GetNodesByModelName those with a replica of the model.                  *)
Wanted(n) ==
    CASE kind = "ListNodes" -> TRUE
      [] kind = "GetNodes" -> nodes[n].status = "online"
      [] OTHER -> \E x \in mine : x[1] \in nodes[n].assigned

ReadNode(n) ==
    /\ step = "read" /\ stage = "nodes" /\ n \in todo
    /\ Skip(n, nodes[n] # Absent)
    /\ out' = IF nodes[n] # Absent /\ Wanted(n) THEN out \cup {n} ELSE out
    /\ UNCHANGED <<kind, arg, step, stage, found, mine, result>>

(* The listing is complete: the answer. *)
EndOf(k) ==
    /\ step = "read" /\ todo = {} /\ kind = k
    /\ Return("ok")
    /\ UNCHANGED <<kind, arg, stage, todo, found, mine, out>>

ListModels == EndOf("ListModels")
ListNodes == EndOf("ListNodes")
GetNodes == EndOf("GetNodes")
GetNodesByModelName == stage = "nodes" /\ EndOf("GetNodesByModelName")

-----------------------------------------------------------------------------
Command ==
    \/ \E m \in Models \cup {NoName} : modelGetCmd(m)
    \/ \E ns \in Namespaces \cup {NoNs} : modelListCmd(ns)
    \/ \E name \in Names \cup {NoName} : modelStatusCmd(name) \/ modelNodesCmd(name)
    \/ \E n \in Nodes \cup {NoName} : nodeGetCmd(n)
    \/ nodeListCmd \/ nodeEndpointsCmd
    \/ \E m \in Models : deployCmd(m) \/ inferCmd(m)

CallStep ==
    \/ Keys \/ GetModel \/ GetNode \/ NotFound \/ ReplicasRead
    \/ ListModels \/ ListNodes \/ GetNodes \/ GetNodesByModelName
    \/ \E m \in Models : ListModel(m) \/ FindModel(m)
    \/ \E r \in Replicas : ReadReplica(r)
    \/ \E n \in Nodes : ReadNode(n)

StoreStep ==
    \/ \E m \in Models : DeleteModel(m) \/ \E v \in Names : WriteModel(m, v)
    \/ \E r \in Replicas, m \in Models : CreateReplica(r, m)
    \/ \E r \in Replicas : DeleteReplica(r) \/ \E s \in Statuses : GetReplicaByID(r, s)
    \/ UpdateReplicaInfo
    \/ \E n \in Nodes, s \in {"online", "offline", Absent} : WriteNode(n, s)

(* The history of what was true during the call. *)
Watch == IF step = "idle" THEN always' = Facts' /\ ever' = Facts'
                          ELSE always' = always \cap Facts' /\ ever' = ever \cup Facts'

Next ==
    \/ Command /\ UNCHANGED storeVars /\ Watch
    \/ CallStep /\ UNCHANGED storeVars /\ Watch
    \/ StoreStep /\ step \notin {"idle", "done"} /\ UNCHANGED callVars /\ Watch

Spec == Init /\ [][Next]_vars

-----------------------------------------------------------------------------
Answered(k) == step = "done" /\ kind = k /\ result \notin {"InvalidArgument", "Unimplemented"}

(* The status a set of replica statuses stands for. *)
Summary(S) == IF S \in {{"running"}, {"failed"}} THEN CHOOSE s \in S : TRUE
              ELSE IF "running" \in S THEN "partial" ELSE "pending"

(* model status, although its three scans see three different moments: a   *)
(* model that had the name all the time is found; its replicas that        *)
(* existed all the time are counted, no other model's are, and each with a *)
(* status it had during the call; the answer sums these statuses up.       *)
StatusIsSound ==
    Answered("GetModelStatus") =>
        IF result = "NotFound"
        THEN \A m \in Models : <<m, arg>> \notin always
        ELSE /\ <<found, arg>> \in ever
             /\ \A r \in Replicas : <<r, found>> \in always => \E x \in mine : x[1] = r
             /\ \A x \in mine : <<x[1], found>> \in ever /\ x \in ever
             /\ \A x, y \in mine : x[1] = y[1] => x = y
             /\ result = Summary({x[2] : x \in mine})

(* model nodes: every node that all the time had a replica that all the    *)
(* time was the model's is listed, and only nodes that had one at some     *)
(* time, also when replicas move to another model or nodes leave between   *)
(* the scans.                                                              *)
HostsAreSound ==
    Answered("GetNodesByModelName") =>
        IF result = "NotFound"
        THEN \A m \in Models : <<m, arg>> \notin always
        ELSE \A n \in Nodes :
                /\ (\E r \in Replicas : {<<n, r>>, <<r, found>>} \subseteq always) => n \in out
                /\ n \in out => \E r \in Replicas : {<<n, r>>, <<r, found>>} \subseteq ever

(* model list, node list and node endpoints list what matched all the      *)
(* time, and nothing that never did.                                       *)
ListingsAreSound ==
    /\ Answered("ListModels") => \A m \in Models : LET match == {<<m, v>> : v \in {w \in Names : arg \in {NoNs, NsOf[w]}}}
         IN  (match \cap always # {} => m \in out) /\ (m \in out => match \cap ever # {})
    /\ Answered("GetNodes") => \A n \in Nodes :
          (<<n, "online">> \in always => n \in out) /\ (n \in out => <<n, "online">> \in ever)
    /\ Answered("ListNodes") => \A n \in Nodes :
          (<<n, "listed">> \in always => n \in out) /\ (n \in out => <<n, "listed">> \in ever)

(* A replica that was deleted comes back only if the deletion fell between *)
(* the heartbeat loop's read and its write.                                *)
GhostReplicasNeedRace == \A r \in deleted : reps[r] # Absent => r \in raced
=============================================================================
