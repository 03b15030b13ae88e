---------------------------- MODULE LookupProofs ----------------------------
(***************************************************************************)
(* Machine-checked theorems about the lookups, for any number of models,   *)
(* replicas, nodes and writes while a call is made.                        *)
(***************************************************************************)
EXTENDS Lookup, FiniteSetTheorems, TLAPS

-----------------------------------------------------------------------------
(* The invariants.                                                         *)

StoreTypes ==
    /\ models \in [Models -> Names \cup {Absent}]
    /\ reps \in [Replicas -> ReplicaInfo \cup {Absent}]
    /\ nodes \in [Nodes -> NodeInfo \cup {Absent}]
    /\ copy \in Updates \cup {Absent}

ByName == {"GetModelStatus", "GetNodesByModelName"}

(* The listings a method makes, and what it has found before each. *)
CallTypes ==
    /\ step \in {"idle", "keys", "read", "done"} /\ stage \in {"models", "replicas", "nodes"}
    /\ mine \subseteq Replicas \X Statuses
    /\ stage = "replicas" => kind \in ByName
    /\ kind = "ListModels" => stage = "models"
    /\ kind \in {"GetNodes", "ListNodes"} => stage = "nodes"
    /\ step = "idle" => stage = "models"
    /\ step = "idle" \/ (step = "keys" /\ kind \notin ByName) \/ (kind \in ByName /\ stage # "nodes")
          => out = {}
    /\ step = "idle" \/ (kind \in ByName /\ (stage = "models" \/ (stage = "replicas" /\ step = "keys")))
          => mine = {}
    /\ kind \in ByName /\ step \in {"keys", "read"} => arg \in Names

(* What has been true all the time is true now; what is true now has been  *)
(* true at some time.                                                      *)
HistoryOK == step # "idle" => always \subseteq Facts /\ Facts \subseteq ever

CallInv == StoreTypes /\ CallTypes /\ HistoryOK

Match(m, a) == {<<m, v>> : v \in {w \in Names : a \in {NoNs, NsOf[w]}}}

(* A key that matched all the time is in the listing, or still to be read. *)
ListingsOK ==
    /\ kind = "ListModels" /\ step \in {"read", "done"} =>
          /\ \A m \in Models : Match(m, arg) \cap always # {} => m \in out \cup todo
          /\ \A m \in out : Match(m, arg) \cap ever # {}
    /\ kind = "GetNodes" /\ step \in {"read", "done"} =>
          /\ \A n \in Nodes : <<n, "online">> \in always => n \in out \cup todo
          /\ \A n \in out : <<n, "online">> \in ever
    /\ kind = "ListNodes" /\ step \in {"read", "done"} =>
          /\ \A n \in Nodes : <<n, "listed">> \in always => n \in out \cup todo
          /\ \A n \in out : <<n, "listed">> \in ever
    /\ kind \in {"ListModels", "GetNodes", "ListNodes"} /\ step = "done" => todo = {}

(* The scan for the name. *)
NameOK ==
    kind \in ByName =>
        /\ step = "read" /\ stage = "models" => \A m \in Models : <<m, arg>> \in always => m \in todo
        /\ step = "done" /\ result = "NotFound" => \A m \in Models : <<m, arg>> \notin always
        /\ step = "done" /\ stage = "models" => result \in {"NotFound", "InvalidArgument"}
        /\ stage # "models" => found \in Models /\ <<found, arg>> \in ever

(* The scan for the model's replicas: those that were its all the time are *)
(* read or will be, each once, as it was at that time.                     *)
ReplicasOK ==
    kind \in ByName =>
        /\ \A x \in mine : <<x[1], found>> \in ever /\ x \in ever
        /\ \A x, y \in mine : x[1] = y[1] => x = y
        /\ stage = "replicas" /\ step = "read" =>
              /\ \A r \in Replicas : <<r, found>> \in always => r \in todo \/ \E x \in mine : x[1] = r
              /\ \A x \in mine : x[1] \notin todo
        /\ (stage = "replicas" /\ step = "done") \/ stage = "nodes" =>
              \A r \in Replicas : <<r, found>> \in always => \E x \in mine : x[1] = r
        /\ stage = "replicas" /\ step = "done" =>
              kind = "GetModelStatus" /\ result = Summary({x[2] : x \in mine})
        /\ kind = "GetModelStatus" => stage # "nodes"

(* The scan for their nodes. *)
HostsOK ==
    kind = "GetNodesByModelName" =>
        /\ stage = "nodes" /\ step \in {"read", "done"} =>
              \A n \in Nodes : (\E r \in Replicas : {<<n, r>>, <<r, found>>} \subseteq always)
                                  => n \in out \cup todo
        /\ \A n \in out : \E r \in Replicas : {<<n, r>>, <<r, found>>} \subseteq ever
        /\ stage = "nodes" /\ step = "done" => todo = {}

LookupInv == CallInv /\ ListingsOK /\ NameOK /\ ReplicasOK /\ HostsOK

(* The copy of a replica that was deleted was taken before. *)
GhostInv ==
    /\ StoreTypes /\ GhostReplicasNeedRace
    /\ copy # Absent /\ copy.id \in deleted => copy.id \in raced

-----------------------------------------------------------------------------
(* The records keep their types, whoever writes them. *)
LEMMA StoreTypesStep == StoreTypes /\ [Next]_vars => StoreTypes'
<1> SUFFICES ASSUME StoreTypes, [Next]_vars PROVE StoreTypes'
  OBVIOUS
<1> USE LookupConstants DEF StoreTypes
<1>1. CASE UNCHANGED storeVars
  BY <1>1 DEF storeVars
<1>2. ASSUME NEW m \in Models, DeleteModel(m) PROVE StoreTypes'
  BY <1>2 DEF DeleteModel
<1>3. ASSUME NEW m \in Models, NEW v \in Names, WriteModel(m, v) PROVE StoreTypes'
  BY <1>3 DEF WriteModel
<1>4. ASSUME NEW r \in Replicas, NEW m \in Models, CreateReplica(r, m) PROVE StoreTypes'
  <2>1. [model |-> m, status |-> "pending"] \in ReplicaInfo
    BY DEF ReplicaInfo, Statuses
  <2> QED
    BY <1>4, <2>1 DEF CreateReplica
<1>5. ASSUME NEW r \in Replicas, DeleteReplica(r) PROVE StoreTypes'
  BY <1>5 DEF DeleteReplica
<1>6. ASSUME NEW r \in Replicas, NEW s \in Statuses, GetReplicaByID(r, s) PROVE StoreTypes'
  <2>1. reps[r] \in ReplicaInfo
    BY <1>6 DEF GetReplicaByID
  <2>2. [id |-> r, model |-> reps[r].model, status |-> s] \in Updates
    BY <2>1 DEF ReplicaInfo, Updates
  <2> QED
    BY <1>6, <2>2 DEF GetReplicaByID
<1>7. CASE UpdateReplicaInfo
  <2>1. copy \in Updates
    BY <1>7 DEF UpdateReplicaInfo
  <2>2. copy.id \in Replicas /\ [model |-> copy.model, status |-> copy.status] \in ReplicaInfo
    BY <2>1 DEF ReplicaInfo, Updates
  <2> QED
    BY <1>7, <2>2 DEF UpdateReplicaInfo
<1>8. ASSUME NEW n \in Nodes, NEW s \in {"online", "offline", Absent}, WriteNode(n, s) PROVE StoreTypes'
  <2>1. nodes[n] \in NodeInfo
    BY <1>8 DEF WriteNode
  <2>2. CASE s = Absent
    BY <1>8, <2>2 DEF WriteNode
  <2>3. CASE s # Absent
    <3>1. [nodes[n] EXCEPT !.status = s] \in NodeInfo
      BY <2>1, <2>3 DEF NodeInfo
    <3> QED
      BY <1>8, <2>3, <3>1 DEF WriteNode
  <2> QED
    BY <2>2, <2>3
<1> QED
  BY <1>1, <1>2, <1>3, <1>4, <1>5, <1>6, <1>7, <1>8 DEF Next, StoreStep, vars

(* The worlds have records of these types. *)
LEMMA StoreTypesInit == Init => StoreTypes
BY LookupConstants DEF Init, StoreTypes

(* Every step preserves the invariant of the deleted replicas. *)
LEMMA GhostStep == GhostInv /\ [Next]_vars => GhostInv'
<1> SUFFICES ASSUME GhostInv, [Next]_vars PROVE GhostInv'
  OBVIOUS
<1>0. StoreTypes'
  BY StoreTypesStep DEF GhostInv
<1> USE LookupConstants, <1>0 DEF GhostInv, StoreTypes, GhostReplicasNeedRace
<1>1. CASE UNCHANGED storeVars
  BY <1>1 DEF storeVars
<1>2. ASSUME NEW m \in Models, DeleteModel(m) PROVE GhostInv'
  BY <1>2 DEF DeleteModel
<1>3. ASSUME NEW m \in Models, NEW v \in Names, WriteModel(m, v) PROVE GhostInv'
  BY <1>3 DEF WriteModel
<1>4. ASSUME NEW r \in Replicas, NEW m \in Models, CreateReplica(r, m) PROVE GhostInv'
  BY <1>4 DEF CreateReplica
<1>5. ASSUME NEW r \in Replicas, DeleteReplica(r) PROVE GhostInv'
  BY <1>5 DEF DeleteReplica
<1>6. ASSUME NEW r \in Replicas, NEW s \in Statuses, GetReplicaByID(r, s) PROVE GhostInv'
  BY <1>6 DEF GetReplicaByID
<1>7. CASE UpdateReplicaInfo
  BY <1>7 DEF UpdateReplicaInfo
<1>8. ASSUME NEW n \in Nodes, NEW s \in {"online", "offline", Absent}, WriteNode(n, s) PROVE GhostInv'
  BY <1>8 DEF WriteNode
<1> QED
  BY <1>1, <1>2, <1>3, <1>4, <1>5, <1>6, <1>7, <1>8 DEF Next, StoreStep, vars

(* A replica that was deleted is stored again only if the deletion fell    *)
(* between the heartbeat loop's GetReplicaByID and its UpdateReplicaInfo.  *)
THEOREM GhostsOnlyInRaces == Spec => []GhostReplicasNeedRace
<1>1. Init => GhostInv
  BY StoreTypesInit DEF Init, GhostInv, GhostReplicasNeedRace
<1>2. GhostInv /\ [Next]_vars => GhostInv'
  BY GhostStep
<1>3. GhostInv => GhostReplicasNeedRace
  BY DEF GhostInv
<1> QED
  BY <1>1, <1>2, <1>3, PTL DEF Spec

-----------------------------------------------------------------------------
(* A fact of the store is about a model, a replica or a node. *)
LEMMA FactsAre ==
  ASSUME StoreTypes, NEW x, NEW y
  PROVE  <<x, y>> \in Facts <=>
           \/ x \in Models /\ models[x] # Absent /\ y = models[x]
           \/ x \in Replicas /\ reps[x] # Absent /\ y \in {reps[x].model, reps[x].status}
           \/ x \in Nodes /\ nodes[x] # Absent /\ y \in nodes[x].assigned \cup {"listed", nodes[x].status}
<1>1. DOMAIN models = Models /\ DOMAIN reps = Replicas /\ DOMAIN nodes = Nodes
  BY DEF StoreTypes
<1>2. <<x, y>> \in ModelFacts <=> x \in Models /\ models[x] # Absent /\ y = models[x]
  BY <1>1 DEF Stored, ModelFacts
<1>3. <<x, y>> \in ReplicaFacts
        <=> x \in Replicas /\ reps[x] # Absent /\ y \in {reps[x].model, reps[x].status}
  BY <1>1 DEF Stored, ReplicaFacts
<1>4. <<x, y>> \in NodeFacts
        <=> x \in Nodes /\ nodes[x] # Absent /\ y \in nodes[x].assigned \cup {"listed", nodes[x].status}
  BY <1>1 DEF Stored, NodeFacts
<1> QED
  BY <1>2, <1>3, <1>4 DEF Facts

(* What each kind of fact says of the records. *)
LEMMA FactsRead ==
  ASSUME StoreTypes
  PROVE  /\ \A m \in Models, v \in Names : <<m, v>> \in Facts <=> models[m] = v
         /\ \A r \in Replicas, m \in Models : <<r, m>> \in Facts <=> reps[r] # Absent /\ reps[r].model = m
         /\ \A r \in Replicas : reps[r] # Absent => <<r, reps[r].status>> \in Facts
         /\ \A n \in Nodes, r \in Replicas : <<n, r>> \in Facts <=> nodes[n] # Absent /\ r \in nodes[n].assigned
         /\ \A n \in Nodes : <<n, "listed">> \in Facts <=> nodes[n] # Absent
         /\ \A n \in Nodes : <<n, "online">> \in Facts <=> nodes[n] # Absent /\ nodes[n].status = "online"
<1>1. \A r \in Replicas : reps[r] # Absent => reps[r].model \in Models /\ reps[r].status \in Statuses
  BY DEF StoreTypes, ReplicaInfo
<1>2. \A n \in Nodes : nodes[n] # Absent => nodes[n].status \in {"online", "offline"} /\ nodes[n].assigned \subseteq Replicas
  BY DEF StoreTypes, NodeInfo
<1>3. /\ \A m \in Models : m \notin Replicas /\ m \notin Nodes /\ m \notin Statuses
      /\ \A r \in Replicas : r \notin Models /\ r \notin Nodes /\ r \notin {"listed", "online", "offline"}
      /\ \A n \in Nodes : n \notin Models /\ n \notin Replicas
      /\ Absent \notin Names
  BY LookupConstants
<1>4. \A m \in Models, v \in Names : <<m, v>> \in Facts <=> models[m] = v
  BY <1>3, FactsAre
<1>5. \A r \in Replicas, m \in Models : <<r, m>> \in Facts <=> reps[r] # Absent /\ reps[r].model = m
  <2> TAKE r \in Replicas, m \in Models
  <2>1. <<r, m>> \in Facts <=> reps[r] # Absent /\ m \in {reps[r].model, reps[r].status}
    BY <1>3, FactsAre
  <2> QED
    BY <1>1, <1>3, <2>1
<1>6. \A r \in Replicas : reps[r] # Absent => <<r, reps[r].status>> \in Facts
  BY FactsAre
<1>7. \A n \in Nodes, r \in Replicas : <<n, r>> \in Facts <=> nodes[n] # Absent /\ r \in nodes[n].assigned
  BY <1>2, <1>3, FactsAre
<1>8. \A n \in Nodes : <<n, "listed">> \in Facts <=> nodes[n] # Absent
  BY <1>3, FactsAre
<1>9. \A n \in Nodes : <<n, "online">> \in Facts <=> nodes[n] # Absent /\ nodes[n].status = "online"
  BY <1>2, <1>3, FactsAre
<1> QED
  BY <1>4, <1>5, <1>6, <1>7, <1>8, <1>9

(* The history only narrows what has always been true and only widens what *)
(* has ever been.                                                          *)
LEMMA WatchStep ==
  ASSUME HistoryOK, [Next]_vars
  PROVE  /\ HistoryOK'
         /\ step # "idle" => always' \subseteq always /\ ever \subseteq ever'
         /\ \/ Command /\ UNCHANGED storeVars
            \/ CallStep /\ UNCHANGED storeVars
            \/ UNCHANGED callVars
<1>1. CASE UNCHANGED vars
  <2>1. Facts' = Facts
    BY <1>1 DEF vars, storeVars, Facts, ModelFacts, ReplicaFacts, NodeFacts, Stored
  <2> QED
    BY <1>1, <2>1 DEF vars, callVars, HistoryOK
<1>2. CASE Next
  <2>1. Watch
    BY <1>2 DEF Next
  <2>2. (always' = Facts' /\ ever' = Facts')
          \/ (step # "idle" /\ always' = always \cap Facts' /\ ever' = ever \cup Facts')
    BY <2>1 DEF Watch
  <2>3. step # "idle" => always' = always \cap Facts' /\ ever' = ever \cup Facts'
    BY <2>1 DEF Watch
  <2>4. HistoryOK'
    BY <2>2 DEF HistoryOK
  <2> QED
    BY <1>2, <2>3, <2>4 DEF Next
<1> QED
  BY <1>1, <1>2

(* What a command leaves behind: an error, or the first listing to make. *)
LEMMA CommandIs ==
  ASSUME Command
  PROVE  /\ step = "idle" /\ UNCHANGED <<todo, found, mine, out>>
         /\ \/ step' = "done" /\ result' \in {"Unimplemented", "InvalidArgument"} /\ stage' = stage
            \/ /\ step' = "keys"
               /\ stage' = IF kind' \in {"GetNode", "ListNodes", "GetNodes"} THEN "nodes" ELSE "models"
         /\ kind' \in {"ListModels", "GetNodes", "ListNodes"} => step' = "keys"
         /\ kind' \in ByName => (step' = "done" => result' = "InvalidArgument")
                             /\ (step' = "keys" => arg' \in Names)
<1> DEFINE Q == /\ step = "idle" /\ UNCHANGED <<todo, found, mine, out>>
                /\ \/ step' = "done" /\ result' \in {"Unimplemented", "InvalidArgument"} /\ stage' = stage
                   \/ /\ step' = "keys"
                      /\ stage' = IF kind' \in {"GetNode", "ListNodes", "GetNodes"} THEN "nodes" ELSE "models"
                /\ kind' \in {"ListModels", "GetNodes", "ListNodes"} => step' = "keys"
                /\ kind' \in ByName => (step' = "done" => result' = "InvalidArgument")
                                    /\ (step' = "keys" => arg' # NoName)
<1>1. ASSUME NEW k, NEW a, Call(k, a) PROVE Q /\ kind' = k /\ arg' = a
  <2>1. step = "idle" /\ kind' = k /\ arg' = a /\ UNCHANGED <<todo, found, mine, out>>
    BY <1>1 DEF Call
  <2>2. k \in ByName => k \in RegisterServices /\ k \in NeedsArgument
    BY DEF ByName, RegisterServices, NeedsArgument, ModelRegistryAPI_ServiceDesc
  <2>0. k \in {"ListModels", "GetNodes", "ListNodes"} => k \in RegisterServices /\ k \notin NeedsArgument
    BY DEF RegisterServices, NeedsArgument, ModelRegistryAPI_ServiceDesc, NodeRegistryAPI_ServiceDesc,
       DiscoveryAPI_ServiceDesc
  <2>3. CASE k \notin RegisterServices
    BY <1>1, <2>0, <2>1, <2>2, <2>3 DEF Call, Return
  <2>4. CASE k \in RegisterServices /\ k \in NeedsArgument /\ a = NoName
    BY <1>1, <2>0, <2>1, <2>4 DEF Call, Return
  <2>5. CASE k \in RegisterServices /\ ~(k \in NeedsArgument /\ a = NoName)
    <3>1. step' = "keys" /\ stage' = IF k \in {"GetNode", "ListNodes", "GetNodes"} THEN "nodes" ELSE "models"
      BY <1>1, <2>5 DEF Call
    <3> QED
      BY <2>1, <2>2, <2>5, <3>1
  <2> QED
    BY <2>3, <2>4, <2>5
<1>2. PICK k, a : Call(k, a) /\ (k \in ByName => a \in Names \cup {NoName})
  BY DEF Command, modelGetCmd, modelListCmd, modelStatusCmd, modelNodesCmd, nodeGetCmd, nodeListCmd,
     nodeEndpointsCmd, deployCmd, inferCmd, ByName
<1>3. Q /\ kind' = k /\ arg' = a
  BY <1>1, <1>2
<1>4. arg' # NoName /\ kind' \in ByName => arg' \in Names
  <2> HIDE DEF Q
  <2> QED
    BY <1>2, <1>3
<1>5. kind' \in ByName /\ step' = "keys" => arg' \in Names
  BY <1>3, <1>4
<1> QED
  BY <1>3, <1>5

(* The listings follow each other in the order of the method. *)
LEMMA CallTypesStep ==
  ASSUME StoreTypes, CallTypes, [Next]_vars
  PROVE  CallTypes'
<1>1. CASE UNCHANGED callVars
  BY <1>1 DEF callVars, CallTypes
<1>2. CASE Command
  BY <1>2, CommandIs DEF CallTypes, ByName
<1> USE DEF CallTypes, ByName
<1>3. CASE Keys
  BY <1>3 DEF Keys
<1>4. CASE GetModel
  BY <1>4 DEF GetModel, Return
<1>5. CASE GetNode
  BY <1>5 DEF GetNode, Return
<1>6. CASE NotFound
  BY <1>6 DEF NotFound, Return
<1>7. CASE ReplicasRead
  BY <1>7 DEF ReplicasRead, Return
<1>8. CASE ListModels \/ ListNodes \/ GetNodes \/ GetNodesByModelName
  BY <1>8 DEF ListModels, ListNodes, GetNodes, GetNodesByModelName, EndOf, Return
<1>9. ASSUME NEW m \in Models, ListModel(m) PROVE CallTypes'
  BY <1>9 DEF ListModel
<1>10. ASSUME NEW m \in Models, FindModel(m) PROVE CallTypes'
  BY <1>10 DEF FindModel
<1>11. ASSUME NEW r \in Replicas, ReadReplica(r) PROVE CallTypes'
  <2>1. reps[r] # Absent => <<r, reps[r].status>> \in Replicas \X Statuses
    BY DEF StoreTypes, ReplicaInfo
  <2>2. mine' \subseteq Replicas \X Statuses
    BY <1>11, <2>1 DEF ReadReplica
  <2> QED
    BY <1>11, <2>2 DEF ReadReplica
<1>12. ASSUME NEW n \in Nodes, ReadNode(n) PROVE CallTypes'
  BY <1>12 DEF ReadNode
<1> QED
  BY <1>1, <1>2, <1>3, <1>4, <1>5, <1>6, <1>7, <1>8, <1>9, <1>10, <1>11, <1>12
     DEF Next, CallStep, vars

(* The types and the history hold all the time. *)
LEMMA CallInvStep == CallInv /\ [Next]_vars => CallInv'
<1> SUFFICES ASSUME CallInv, [Next]_vars PROVE CallInv'
  OBVIOUS
<1>1. StoreTypes'
  BY StoreTypesStep DEF CallInv
<1>2. CallTypes'
  BY CallTypesStep DEF CallInv
<1>3. HistoryOK'
  BY WatchStep DEF CallInv
<1> QED
  BY <1>1, <1>2, <1>3 DEF CallInv

-----------------------------------------------------------------------------
(* Every step preserves what a listing promises. *)
LEMMA ListingsStep == CallInv /\ ListingsOK /\ [Next]_vars => ListingsOK'
<1> SUFFICES ASSUME CallInv, ListingsOK, [Next]_vars PROVE ListingsOK'
  OBVIOUS
<1>0. StoreTypes /\ CallTypes /\ HistoryOK
  BY DEF CallInv
<1>m. step # "idle" => always' \subseteq always /\ ever \subseteq ever'
                       /\ always \subseteq Facts /\ Facts \subseteq ever
  BY <1>0, WatchStep DEF HistoryOK
<1>f. /\ \A m \in Models, v \in Names : <<m, v>> \in Facts <=> models[m] = v
      /\ \A n \in Nodes : <<n, "listed">> \in Facts <=> nodes[n] # Absent
      /\ \A n \in Nodes : <<n, "online">> \in Facts <=> nodes[n] # Absent /\ nodes[n].status = "online"
  BY <1>0, FactsRead
<1>t. /\ kind = "ListModels" => stage = "models"
      /\ kind \in {"GetNodes", "ListNodes"} => stage = "nodes"
      /\ stage = "replicas" => kind \in ByName
      /\ step = "keys" /\ kind \notin ByName => out = {}
      /\ DOMAIN models = Models /\ DOMAIN nodes = Nodes
      /\ \A m \in Models : models[m] # Absent => models[m] \in Names
      /\ \A v \in Names : v # Absent
  BY <1>0, LookupConstants DEF CallTypes, StoreTypes
<1> DEFINE Matches(m) == Match(m, arg)
<1>a. \A m : Matches(m) \cap always # {} <=> \E v \in Names : <<m, v>> \in always /\ arg \in {NoNs, NsOf[v]}
  BY DEF Match
<1>e. \A m : Matches(m) \cap ever # {} <=> \E v \in Names : <<m, v>> \in ever /\ arg \in {NoNs, NsOf[v]}
  BY DEF Match
<1> HIDE DEF Matches
<1>1. ASSUME step # "idle", UNCHANGED <<kind, arg, step, out, todo>> PROVE ListingsOK'
  BY <1>1, <1>m DEF ListingsOK
<1>2. ASSUME step # "idle", kind' \notin {"ListModels", "GetNodes", "ListNodes"} PROVE ListingsOK'
  BY <1>2 DEF ListingsOK
<1>3. CASE UNCHANGED callVars
  <2>1. CASE step = "idle"
    BY <1>3, <2>1 DEF callVars, ListingsOK
  <2> QED
    BY <1>1, <1>3, <2>1 DEF callVars
<1>4. CASE Command
  BY <1>4, CommandIs DEF ListingsOK
<1>5. CASE GetModel \/ GetNode \/ NotFound \/ GetNodesByModelName \/ \E m \in Models : FindModel(m)
  BY <1>2, <1>5 DEF GetModel, GetNode, NotFound, GetNodesByModelName, EndOf, FindModel
<1>6. CASE ReplicasRead \/ \E r \in Replicas : ReadReplica(r)
  BY <1>2, <1>6, <1>t DEF ReplicasRead, ReadReplica, ByName
<1>7. CASE ListModels \/ ListNodes \/ GetNodes
  BY <1>7, <1>m DEF ListModels, ListNodes, GetNodes, EndOf, Return, ListingsOK
<1>8. CASE Keys
  <2>1. UNCHANGED <<kind, arg, out>> /\ step = "keys" /\ step' = "read"
    BY <1>8 DEF Keys
  <2>2. CASE kind = "ListModels"
    <3>1. todo' = {m \in Models : models[m] # Absent}
      BY <1>8, <1>t, <2>2 DEF Keys, Stored
    <3>2. \A m \in Models : Matches(m) \cap always # {} => m \in todo'
      <4> SUFFICES ASSUME NEW m \in Models, Matches(m) \cap always # {} PROVE m \in todo'
        OBVIOUS
      <4>1. PICK v \in Names : <<m, v>> \in always
        BY <1>a
      <4> QED
        BY <3>1, <4>1, <1>f, <1>m, <1>t, <2>1
    <3>3. out' = {}
      BY <2>1, <2>2, <1>t DEF ByName
    <3>4. \A m \in Models : Match(m, arg') \cap always' # {} => m \in todo'
      BY <3>2, <2>1, <1>m DEF Matches
    <3> QED
      BY <2>1, <2>2, <3>3, <3>4 DEF ListingsOK
  <2>3. CASE kind \in {"GetNodes", "ListNodes"}
    <3>1. todo' = {n \in Nodes : nodes[n] # Absent}
      BY <1>8, <1>t, <2>3 DEF Keys, Stored
    <3>2. \A n \in Nodes : (<<n, "online">> \in always' \/ <<n, "listed">> \in always') => n \in todo'
      BY <3>1, <1>f, <1>m, <2>1
    <3>3. out' = {}
      BY <2>1, <2>3, <1>t DEF ByName
    <3> QED
      BY <2>1, <2>3, <3>2, <3>3 DEF ListingsOK
  <2> QED
    BY <1>2, <2>1, <2>2, <2>3
<1>9. ASSUME NEW m \in Models, ListModel(m) PROVE ListingsOK'
  <2>1. /\ step = "read" /\ kind = "ListModels" /\ UNCHANGED <<kind, arg, step>>
        /\ todo' = todo \ {m}
        /\ out' = IF models[m] # Absent /\ (arg = NoNs \/ NsOf[models[m]] = arg) THEN out \cup {m} ELSE out
    BY <1>9 DEF ListModel, Skip
  <2>2. Matches(m) \cap always # {} => m \in out'
    <3> SUFFICES ASSUME Matches(m) \cap always # {} PROVE m \in out'
      OBVIOUS
    <3>1. PICK v \in Names : <<m, v>> \in always /\ arg \in {NoNs, NsOf[v]}
      BY <1>a
    <3>2. models[m] = v /\ models[m] # Absent
      BY <3>1, <1>f, <1>m, <1>t, <2>1
    <3> QED
      BY <3>1, <3>2, <2>1
  <2>3. m \in out' /\ m \notin out => Matches(m) \cap ever # {}
    BY <2>1, <1>e, <1>f, <1>m, <1>t
  <2>4. /\ \A k \in Models : Matches(k) \cap always # {} => k \in out \cup todo
        /\ \A k \in out : Matches(k) \cap ever # {}
    BY <2>1 DEF ListingsOK, Matches
  <2>5. /\ \A k \in Models : Matches(k) \cap always # {} => k \in out' \cup todo'
        /\ \A k \in out' : Matches(k) \cap ever # {}
    BY <2>1, <2>2, <2>3, <2>4
  <2>6. /\ \A k \in Models : Match(k, arg') \cap always' # {} => k \in out' \cup todo'
        /\ \A k \in out' : Match(k, arg') \cap ever' # {}
    BY <2>1, <2>5, <1>m DEF Matches
  <2> QED
    BY <2>1, <2>6 DEF ListingsOK
<1>10. ASSUME NEW n \in Nodes, ReadNode(n) PROVE ListingsOK'
  <2>1. /\ step = "read" /\ stage = "nodes" /\ UNCHANGED <<kind, arg, step>>
        /\ todo' = todo \ {n}
        /\ out' = IF nodes[n] # Absent /\ Wanted(n) THEN out \cup {n} ELSE out
    BY <1>10 DEF ReadNode, Skip
  <2>2. CASE kind = "GetNodes"
    <3>1. Wanted(n) <=> nodes[n].status = "online"
      BY <2>2 DEF Wanted
    <3> QED
      BY <2>1, <2>2, <3>1, <1>f, <1>m DEF ListingsOK
  <2>3. CASE kind = "ListNodes"
    <3>1. Wanted(n)
      BY <2>3 DEF Wanted
    <3> QED
      BY <2>1, <2>3, <3>1, <1>f, <1>m DEF ListingsOK
  <2> QED
    BY <1>2, <1>t, <2>1, <2>2, <2>3
<1> QED
  BY <1>3, <1>4, <1>5, <1>6, <1>7, <1>8, <1>9, <1>10 DEF Next, CallStep, vars

(* Every method answers what its listings found. *)
LEMMA LookupInit == Init => CallInv /\ ListingsOK /\ NameOK /\ ReplicasOK /\ HostsOK
BY StoreTypesInit DEF Init, CallInv, CallTypes, HistoryOK, ListingsOK, NameOK, ReplicasOK, HostsOK, ByName

(* model list, node list and node endpoints list what matched all the      *)
(* time, and nothing that never did, whatever is written between their     *)
(* snapshot of the keys and their Gets.                                    *)
THEOREM ListingsSound == Spec => []ListingsAreSound
<1>1. Init => CallInv /\ ListingsOK
  BY LookupInit
<1>2. CallInv /\ ListingsOK /\ [Next]_vars => (CallInv /\ ListingsOK)'
  BY CallInvStep, ListingsStep
<1>3. CallInv /\ ListingsOK => ListingsAreSound
  BY DEF ListingsAreSound, ListingsOK, Match, Answered
<1> QED
  BY <1>1, <1>2, <1>3, PTL DEF Spec


-----------------------------------------------------------------------------
(* The counts of GetModelStatus amount to the set of the statuses. *)
LEMMA StatusSummary ==
  ASSUME mine \subseteq Replicas \X Statuses
  PROVE  GetModelStatus = Summary({x[2] : x \in mine})
<1> DEFINE total == Cardinality(mine)
           With(s) == {x \in mine : x[2] = s}
           S == {x[2] : x \in mine}
<1>1. IsFiniteSet(Statuses)
  <2>1. Statuses = {"pending"} \cup {"running"} \cup {"failed"} \cup {"unknown"}
    BY DEF Statuses
  <2>2. IsFiniteSet({"pending"}) /\ IsFiniteSet({"running"}) /\ IsFiniteSet({"failed"}) /\ IsFiniteSet({"unknown"})
    BY FS_Singleton
  <2> QED
    BY <2>1, <2>2, FS_Union
<1>2. IsFiniteSet(mine)
  BY <1>1, FS_Product, FS_Subset, LookupConstants
<1>3. /\ total \in Nat /\ (total = 0 <=> mine = {})
      /\ \A s : /\ Count(s) \in Nat /\ (Count(s) > 0 <=> With(s) # {})
                /\ Count(s) = total <=> With(s) = mine
  <2>1. total \in Nat /\ (total = 0 <=> mine = {})
    BY <1>2, FS_CardinalityType, FS_EmptySet
  <2>2. ASSUME NEW s
        PROVE /\ Count(s) \in Nat /\ (Count(s) > 0 <=> With(s) # {})
              /\ Count(s) = total <=> With(s) = mine
    <3>1. With(s) \subseteq mine /\ Count(s) = Cardinality(With(s))
      BY DEF Count
    <3>2. IsFiniteSet(With(s)) /\ (Count(s) = total => With(s) = mine)
      BY <1>2, <3>1, FS_Subset
    <3>3. Count(s) \in Nat /\ (Count(s) = 0 <=> With(s) = {})
      BY <3>1, <3>2, FS_CardinalityType, FS_EmptySet
    <3>4. With(s) = mine => Count(s) = total
      BY <3>1
    <3> HIDE DEF With, total
    <3> QED
      BY <3>2, <3>3, <3>4
  <2> QED
    BY <2>1, <2>2
<1>4. \A s : /\ With(s) # {} <=> s \in S
             /\ mine # {} => (With(s) = mine <=> S = {s})
  <2> TAKE s
  <2>1. With(s) # {} <=> s \in S
    OBVIOUS
  <2>2. ASSUME mine # {}, With(s) = mine PROVE S = {s}
    BY <2>2
  <2>3. ASSUME S = {s} PROVE With(s) = mine
    <3>1. \A x \in mine : x[2] \in S
      OBVIOUS
    <3> QED
      BY <2>3, <3>1
  <2> QED
    BY <2>1, <2>2, <2>3
<1>5. mine = {} <=> S = {}
  OBVIOUS
<1>6. GetModelStatus =
        IF total = 0 THEN "pending" ELSE IF Count("running") = total THEN "running"
        ELSE IF Count("pending") = total THEN "pending" ELSE IF Count("failed") = total THEN "failed"
        ELSE IF Count("running") > 0 THEN "partial" ELSE "pending"
  BY DEF GetModelStatus
<1> HIDE DEF total, With, S
<1>7. GetModelStatus =
        IF S = {} THEN "pending" ELSE IF S = {"running"} THEN "running"
        ELSE IF S = {"pending"} THEN "pending" ELSE IF S = {"failed"} THEN "failed"
        ELSE IF "running" \in S THEN "partial" ELSE "pending"
  <2>1. total = 0 <=> S = {}
    BY <1>3, <1>5
  <2>2. total # 0 => \A s : (Count(s) = total <=> S = {s}) /\ (Count(s) > 0 <=> s \in S)
    BY <1>3, <1>4
  <2>3. CASE S = {}
    BY <1>6, <2>1, <2>3
  <2>4. CASE S # {}
    BY <1>6, <2>1, <2>2, <2>4
  <2> QED
    BY <2>3, <2>4
<1>8. Summary(S) = IF S = {"running"} THEN "running" ELSE IF S = {"failed"} THEN "failed"
                   ELSE IF "running" \in S THEN "partial" ELSE "pending"
  <2>1. (CHOOSE s \in {"running"} : TRUE) = "running" /\ (CHOOSE s \in {"failed"} : TRUE) = "failed"
    OBVIOUS
  <2>2. {"running"} # {"failed"}
    OBVIOUS
  <2>3. CASE S = {"running"}
    BY <2>1, <2>2, <2>3 DEF Summary
  <2>4. CASE S = {"failed"}
    BY <2>1, <2>2, <2>4 DEF Summary
  <2>5. CASE S # {"running"} /\ S # {"failed"}
    BY <2>5 DEF Summary
  <2> QED
    BY <2>3, <2>4, <2>5
<1>9. GetModelStatus = Summary(S)
  BY <1>7, <1>8
<1> QED
  BY <1>9 DEF S


-----------------------------------------------------------------------------
(* Every step preserves what the scan for the name has found. *)
LEMMA NameStep == CallInv /\ NameOK /\ [Next]_vars => NameOK'
<1> SUFFICES ASSUME CallInv, NameOK, [Next]_vars PROVE NameOK'
  OBVIOUS
<1>0. StoreTypes /\ CallTypes /\ HistoryOK
  BY DEF CallInv
<1>m. step # "idle" => always' \subseteq always /\ ever \subseteq ever'
                       /\ always \subseteq Facts /\ Facts \subseteq ever
  BY <1>0, WatchStep DEF HistoryOK
<1>f. \A m \in Models, v \in Names : <<m, v>> \in Facts <=> models[m] = v
  BY <1>0, FactsRead
<1>t. /\ stage = "replicas" => kind \in ByName
      /\ step = "idle" => stage = "models"
      /\ kind \in ByName /\ step \in {"keys", "read"} => arg \in Names
      /\ stage \in {"models", "replicas", "nodes"}
      /\ DOMAIN models = Models
      /\ \A v \in Names : v # Absent
  BY <1>0, LookupConstants DEF CallTypes, StoreTypes
<1>1. ASSUME step # "idle", UNCHANGED <<kind, arg, step, stage, found, todo, result>> PROVE NameOK'
  BY <1>1, <1>m DEF NameOK
<1>2. ASSUME kind' \notin ByName PROVE NameOK'
  BY <1>2 DEF NameOK
<1>3. CASE UNCHANGED callVars
  <2>1. CASE step = "idle"
    BY <1>3, <2>1, <1>t DEF callVars, NameOK
  <2> QED
    BY <1>1, <1>3, <2>1 DEF callVars
<1>4. CASE Command
  BY <1>4, <1>t, CommandIs DEF NameOK, ByName
<1>5. CASE GetModel \/ GetNode \/ ListModels \/ ListNodes \/ GetNodes \/ \E m \in Models : ListModel(m)
  BY <1>2, <1>5 DEF GetModel, GetNode, ListModels, ListNodes, GetNodes, EndOf, ListModel, ByName
<1>6. CASE \E r \in Replicas : ReadReplica(r)
  BY <1>6, <1>m DEF ReadReplica, NameOK
<1>7. CASE \E n \in Nodes : ReadNode(n)
  BY <1>7, <1>m DEF ReadNode, NameOK
<1>8. CASE GetNodesByModelName
  BY <1>8, <1>m DEF GetNodesByModelName, EndOf, Return, NameOK
<1>9. CASE ReplicasRead
  <2>1. CASE kind = "GetModelStatus"
    <3>1. result' \in {"pending", "running", "failed", "partial"}
      BY <1>9, <2>1 DEF ReplicasRead, Return, GetModelStatus
    <3> QED
      BY <1>9, <2>1, <3>1, <1>m DEF ReplicasRead, Return, NameOK
  <2>2. CASE kind # "GetModelStatus"
    BY <1>9, <2>2, <1>m DEF ReplicasRead, NameOK
  <2> QED
    BY <2>1, <2>2
<1>10. CASE NotFound
  BY <1>10, <1>m DEF NotFound, Return, NameOK
<1>11. CASE Keys
  <2>1. UNCHANGED <<kind, arg, stage, found, result>> /\ step = "keys" /\ step' = "read"
    BY <1>11 DEF Keys
  <2>2. CASE stage = "models" /\ kind \in ByName
    <3>1. todo' = {m \in Models : models[m] # Absent}
      BY <1>11, <1>t, <2>2 DEF Keys, Stored
    <3>2. \A m \in Models : <<m, arg>> \in always => m \in todo'
      BY <3>1, <1>f, <1>m, <1>t, <2>1, <2>2
    <3>3. \A m \in Models : <<m, arg'>> \in always' => m \in todo'
      BY <3>2, <2>1, <1>m
    <3> QED
      BY <2>1, <2>2, <3>3 DEF NameOK
  <2>3. CASE stage # "models"
    BY <2>1, <2>3, <1>m DEF NameOK
  <2> QED
    BY <1>2, <2>1, <2>2, <2>3
<1>12. ASSUME NEW m \in Models, FindModel(m) PROVE NameOK'
  <2>1. step = "read" /\ stage = "models" /\ kind \in ByName /\ UNCHANGED <<kind, arg, result>>
    BY <1>12 DEF FindModel, ByName
  <2>2. CASE models[m] = arg
    <3>1. found' = m /\ stage' = "replicas" /\ step' = "keys"
      BY <1>12, <2>2 DEF FindModel
    <3>2. <<found', arg'>> \in ever'
      BY <2>1, <2>2, <3>1, <1>f, <1>m, <1>t
    <3> QED
      BY <2>1, <3>1, <3>2 DEF NameOK
  <2>3. CASE models[m] # arg
    <3>1. todo' = todo \ {m} /\ UNCHANGED <<found, stage, step>>
      BY <1>12, <2>3 DEF FindModel, Skip
    <3>2. <<m, arg>> \notin always
      BY <2>1, <2>3, <1>f, <1>m, <1>t
    <3>3. \A k \in Models : <<k, arg>> \in always => k \in todo
      BY <2>1 DEF NameOK
    <3>4. \A k \in Models : <<k, arg'>> \in always' => k \in todo'
      BY <2>1, <3>1, <3>2, <3>3, <1>m
    <3> QED
      BY <2>1, <3>1, <3>4 DEF NameOK
  <2> QED
    BY <2>2, <2>3
<1> QED
  BY <1>3, <1>4, <1>5, <1>6, <1>7, <1>8, <1>9, <1>10, <1>11, <1>12 DEF Next, CallStep, vars


(* Every step preserves what the scan for the replicas has read. *)
LEMMA ReplicasStep == CallInv /\ NameOK /\ ReplicasOK /\ [Next]_vars => ReplicasOK'
<1> SUFFICES ASSUME CallInv, NameOK, ReplicasOK, [Next]_vars PROVE ReplicasOK'
  OBVIOUS
<1>0. StoreTypes /\ CallTypes /\ HistoryOK
  BY DEF CallInv
<1>m. step # "idle" => always' \subseteq always /\ ever \subseteq ever'
                       /\ always \subseteq Facts /\ Facts \subseteq ever
  BY <1>0, WatchStep DEF HistoryOK
<1>f. /\ \A r \in Replicas, m \in Models : <<r, m>> \in Facts <=> reps[r] # Absent /\ reps[r].model = m
      /\ \A r \in Replicas : reps[r] # Absent => <<r, reps[r].status>> \in Facts
  BY <1>0, FactsRead
<1>t. /\ stage = "replicas" => kind \in ByName
      /\ step = "idle" => stage = "models" /\ mine = {}
      /\ kind \in ByName /\ (stage = "models" \/ (stage = "replicas" /\ step = "keys")) => mine = {}
      /\ kind \in ByName /\ stage # "models" => found \in Models
      /\ stage \in {"models", "replicas", "nodes"}
      /\ DOMAIN reps = Replicas
      /\ mine \subseteq Replicas \X Statuses
  BY <1>0 DEF CallTypes, StoreTypes, NameOK
<1>1. ASSUME step # "idle", UNCHANGED <<kind, step, stage, found, todo, mine, result>> PROVE ReplicasOK'
  BY <1>1, <1>m DEF ReplicasOK
<1>2. ASSUME kind' \notin ByName PROVE ReplicasOK'
  BY <1>2 DEF ReplicasOK
<1>3. CASE UNCHANGED callVars
  <2>1. CASE step = "idle"
    BY <1>3, <2>1, <1>t DEF callVars, ReplicasOK
  <2> QED
    BY <1>1, <1>3, <2>1 DEF callVars
<1>4. CASE Command
  BY <1>4, <1>t, CommandIs DEF ReplicasOK, ByName
<1>5. CASE GetModel \/ GetNode \/ ListModels \/ ListNodes \/ GetNodes \/ \E m \in Models : ListModel(m)
  BY <1>2, <1>5 DEF GetModel, GetNode, ListModels, ListNodes, GetNodes, EndOf, ListModel, ByName
<1>6. CASE \E n \in Nodes : ReadNode(n)
  BY <1>6, <1>m DEF ReadNode, ReplicasOK
<1>7. CASE GetNodesByModelName
  BY <1>7, <1>m DEF GetNodesByModelName, EndOf, Return, ReplicasOK
<1>8. CASE NotFound
  BY <1>8, <1>m, <1>t DEF NotFound, Return, ReplicasOK, ByName
<1>9. CASE \E m \in Models : FindModel(m)
  BY <1>9, <1>m, <1>t DEF FindModel, ReplicasOK, ByName
<1>10. CASE Keys
  <2>1. UNCHANGED <<kind, stage, found, mine, result>> /\ step = "keys" /\ step' = "read"
    BY <1>10 DEF Keys
  <2>2. CASE stage = "replicas"
    <3>1. todo' = {r \in Replicas : reps[r] # Absent} /\ mine = {} /\ found \in Models
      BY <1>10, <1>t, <2>1, <2>2 DEF Keys, Stored
    <3>2. \A r \in Replicas : <<r, found>> \in always => r \in todo'
      BY <3>1, <1>f, <1>m, <2>1
    <3>3. \A r \in Replicas : <<r, found'>> \in always' => r \in todo'
      BY <3>2, <2>1, <1>m
    <3> QED
      BY <2>1, <2>2, <3>1, <3>3 DEF ReplicasOK
  <2>3. CASE stage # "replicas"
    BY <2>1, <2>3, <1>m DEF ReplicasOK
  <2> QED
    BY <2>2, <2>3
<1>11. ASSUME NEW r \in Replicas, ReadReplica(r) PROVE ReplicasOK'
  <2> DEFINE read == <<r, reps[r].status>>
             kept == reps[r] # Absent /\ reps[r].model = found
  <2>1. /\ step = "read" /\ stage = "replicas" /\ r \in todo /\ UNCHANGED <<kind, step, stage, found>>
        /\ todo' = todo \ {r} /\ mine' = IF kept THEN mine \cup {read} ELSE mine
    BY <1>11 DEF ReadReplica, Skip
  <2>2. kind \in ByName /\ found \in Models
    BY <2>1, <1>t
  <2>3. /\ \A x \in mine : <<x[1], found>> \in ever /\ x \in ever
        /\ \A x, y \in mine : x[1] = y[1] => x = y
        /\ \A q \in Replicas : <<q, found>> \in always => q \in todo \/ \E x \in mine : x[1] = q
        /\ \A x \in mine : x[1] \notin todo
        /\ kind = "GetModelStatus" => stage # "nodes"
    BY <2>1, <2>2 DEF ReplicasOK
  <2>4. <<r, found>> \in always => kept
    BY <2>1, <2>2, <1>f, <1>m
  <2>5. kept => <<read[1], found>> \in ever /\ read \in ever
    BY <2>1, <2>2, <1>f, <1>m
  <2>6. read[1] = r
    OBVIOUS
  <2> HIDE DEF read, kept
  <2>7. \A x \in mine' : <<x[1], found>> \in ever /\ x \in ever
    BY <2>1, <2>3, <2>5
  <2>8. \A x, y \in mine' : x[1] = y[1] => x = y
    BY <2>1, <2>3, <2>6
  <2>9. \A q \in Replicas : <<q, found>> \in always => q \in todo' \/ \E x \in mine' : x[1] = q
    <3> SUFFICES ASSUME NEW q \in Replicas, <<q, found>> \in always, q \notin todo'
                 PROVE  \E x \in mine' : x[1] = q
      OBVIOUS
    <3>1. CASE q = r
      <4>1. read \in mine'
        BY <2>1, <2>4, <3>1
      <4> QED
        BY <3>1, <4>1, <2>6
    <3>2. CASE q # r
      BY <2>1, <2>3, <3>2
    <3> QED
      BY <3>1, <3>2
  <2>10. \A x \in mine' : x[1] \notin todo'
    BY <2>1, <2>3, <2>6
  <2> QED
    BY <2>1, <2>2, <2>3, <2>7, <2>8, <2>9, <2>10, <1>m DEF ReplicasOK
<1>12. CASE ReplicasRead
  <2>1. /\ step = "read" /\ stage = "replicas" /\ todo = {} /\ UNCHANGED <<kind, found, mine>>
        /\ kind \in ByName
    BY <1>12, <1>t DEF ReplicasRead
  <2>2. /\ \A x \in mine : <<x[1], found>> \in ever /\ x \in ever
        /\ \A x, y \in mine : x[1] = y[1] => x = y
        /\ \A r \in Replicas : <<r, found>> \in always => \E x \in mine : x[1] = r
    BY <2>1 DEF ReplicasOK
  <2>3. /\ \A x \in mine' : <<x[1], found'>> \in ever' /\ x \in ever'
        /\ \A x, y \in mine' : x[1] = y[1] => x = y
        /\ \A r \in Replicas : <<r, found'>> \in always' => \E x \in mine' : x[1] = r
    BY <2>1, <2>2, <1>m
  <2>4. CASE kind = "GetModelStatus"
    <3>1. result' = Summary({x[2] : x \in mine}) /\ step' = "done" /\ stage' = stage
      BY <1>12, <2>4, <1>t, StatusSummary DEF ReplicasRead, Return
    <3>2. result' = Summary({x[2] : x \in mine'})
      BY <3>1, <2>1
    <3> QED
      BY <2>1, <2>3, <2>4, <3>1, <3>2 DEF ReplicasOK
  <2>5. CASE kind # "GetModelStatus"
    <3>1. step' = "keys" /\ stage' = "nodes"
      BY <1>12, <2>5 DEF ReplicasRead
    <3> QED
      BY <2>1, <2>3, <2>5, <3>1 DEF ReplicasOK
  <2> QED
    BY <2>4, <2>5
<1> QED
  BY <1>3, <1>4, <1>5, <1>6, <1>7, <1>8, <1>9, <1>10, <1>11, <1>12 DEF Next, CallStep, vars

(* Every step preserves what the scan for the nodes has listed. *)
LEMMA HostsStep == CallInv /\ NameOK /\ ReplicasOK /\ HostsOK /\ [Next]_vars => HostsOK'
<1> SUFFICES ASSUME CallInv, NameOK, ReplicasOK, HostsOK, [Next]_vars PROVE HostsOK'
  OBVIOUS
<1>0. StoreTypes /\ CallTypes /\ HistoryOK
  BY DEF CallInv
<1>m. step # "idle" => always' \subseteq always /\ ever \subseteq ever'
                       /\ always \subseteq Facts /\ Facts \subseteq ever
  BY <1>0, WatchStep DEF HistoryOK
<1>f. \A n \in Nodes, r \in Replicas : <<n, r>> \in Facts <=> nodes[n] # Absent /\ r \in nodes[n].assigned
  BY <1>0, FactsRead
<1>t. /\ step = "idle" => out = {}
      /\ kind \in ByName /\ stage # "nodes" => out = {}
      /\ kind \in ByName /\ stage # "models" => found \in Models
      /\ stage \in {"models", "replicas", "nodes"}
      /\ step = "idle" => stage = "models"
      /\ DOMAIN nodes = Nodes
      /\ mine \subseteq Replicas \X Statuses
  BY <1>0 DEF CallTypes, StoreTypes, NameOK
<1> DEFINE Host(n, F) == \E r \in Replicas : {<<n, r>>, <<r, found>>} \subseteq F
<1>1. ASSUME step # "idle", UNCHANGED <<kind, step, stage, found, todo, out>> PROVE HostsOK'
  BY <1>1, <1>m DEF HostsOK
<1>2. ASSUME kind' # "GetNodesByModelName" PROVE HostsOK'
  BY <1>2 DEF HostsOK
<1>3. CASE UNCHANGED callVars
  <2>1. CASE step = "idle"
    BY <1>3, <2>1, <1>t DEF callVars, HostsOK
  <2> QED
    BY <1>1, <1>3, <2>1 DEF callVars
<1>4. CASE Command
  <2>1. kind' = "GetNodesByModelName" => stage' = "models" /\ out' = {}
    BY <1>4, <1>t, CommandIs
  <2> QED
    BY <2>1 DEF HostsOK
<1>5. CASE GetModel \/ GetNode \/ ListModels \/ ListNodes \/ GetNodes \/ \E m \in Models : ListModel(m)
  BY <1>2, <1>5 DEF GetModel, GetNode, ListModels, ListNodes, GetNodes, EndOf, ListModel
<1>6. CASE NotFound \/ \E m \in Models : FindModel(m)
  <2>1. stage' # "nodes" /\ out' = out /\ kind' = kind /\ (kind \in ByName => out = {})
    BY <1>6, <1>t DEF NotFound, FindModel
  <2> QED
    BY <2>1 DEF HostsOK, ByName
<1>7. CASE ReplicasRead \/ \E r \in Replicas : ReadReplica(r)
  <2>1. out' = out /\ kind' = kind /\ (kind \in ByName => out = {})
        /\ (kind = "GetNodesByModelName" => stage' # "nodes" \/ step' = "keys")
    BY <1>7, <1>t DEF ReplicasRead, ReadReplica
  <2> QED
    BY <2>1 DEF HostsOK, ByName
<1>8. CASE GetNodesByModelName
  BY <1>8, <1>m DEF GetNodesByModelName, EndOf, Return, HostsOK
<1>9. CASE Keys
  <2>1. UNCHANGED <<kind, stage, found, out>> /\ step = "keys" /\ step' = "read"
    BY <1>9 DEF Keys
  <2>2. CASE stage = "nodes"
    <3>1. todo' = {n \in Nodes : nodes[n] # Absent}
      BY <1>9, <2>2 DEF Keys, Stored, CallInv, StoreTypes
    <3>2. \A n \in Nodes : Host(n, always) => n \in todo'
      BY <3>1, <1>f, <1>m, <2>1
    <3> QED
      BY <2>1, <3>2, <1>m DEF HostsOK
  <2>3. CASE stage # "nodes"
    BY <2>1, <2>3, <1>m DEF HostsOK
  <2> QED
    BY <2>2, <2>3
<1>10. ASSUME NEW n \in Nodes, ReadNode(n), kind = "GetNodesByModelName" PROVE HostsOK'
  <2>1. /\ step = "read" /\ stage = "nodes" /\ UNCHANGED <<kind, step, stage, found>>
        /\ todo' = todo \ {n}
        /\ out' = IF nodes[n] # Absent /\ Wanted(n) THEN out \cup {n} ELSE out
    BY <1>10 DEF ReadNode, Skip
  <2>2. Wanted(n) <=> \E x \in mine : x[1] \in nodes[n].assigned
    BY <1>10 DEF Wanted
  <2>3. /\ \A x \in mine : <<x[1], found>> \in ever
        /\ \A r \in Replicas : <<r, found>> \in always => \E x \in mine : x[1] = r
    BY <1>10, <2>1 DEF ReplicasOK, ByName
  <2>4. Host(n, always) => n \in out'
    <3> SUFFICES ASSUME NEW r \in Replicas, <<n, r>> \in always, <<r, found>> \in always PROVE n \in out'
      OBVIOUS
    <3>1. nodes[n] # Absent /\ r \in nodes[n].assigned
      BY <1>f, <1>m, <2>1
    <3>2. \E x \in mine : x[1] = r
      BY <2>3
    <3> QED
      BY <2>1, <2>2, <3>1, <3>2
  <2>5. n \in out' /\ n \notin out => Host(n, ever)
    <3> SUFFICES ASSUME n \in out', n \notin out PROVE Host(n, ever)
      OBVIOUS
    <3>1. nodes[n] # Absent /\ Wanted(n)
      BY <2>1
    <3>2. PICK x \in mine : x[1] \in nodes[n].assigned
      BY <2>2, <3>1
    <3>3. x[1] \in Replicas /\ <<x[1], found>> \in ever
      BY <1>t, <2>3, <3>2
    <3>4. <<n, x[1]>> \in ever
      BY <3>1, <3>2, <3>3, <1>f, <1>m, <2>1
    <3> QED
      BY <3>3, <3>4
  <2>6. /\ \A k \in Nodes : Host(k, always) => k \in out \cup todo
        /\ \A k \in out : Host(k, ever)
    BY <1>10, <2>1 DEF HostsOK
  <2>7. (\A k : Host(k, always') => Host(k, always)) /\ (\A k : Host(k, ever) => Host(k, ever'))
    BY <2>1, <1>m
  <2> HIDE DEF Host
  <2>8. /\ \A k \in Nodes : Host(k, always') => k \in out' \cup todo'
        /\ \A k \in out' : Host(k, ever')
    BY <2>1, <2>4, <2>5, <2>6, <2>7
  <2> QED
    BY <1>10, <2>1, <2>8 DEF HostsOK, Host
<1>11. CASE \E n \in Nodes : ReadNode(n)
  <2>1. kind' = kind
    BY <1>11 DEF ReadNode
  <2> QED
    BY <1>2, <1>10, <1>11, <2>1
<1> QED
  BY <1>3, <1>4, <1>5, <1>6, <1>7, <1>8, <1>9, <1>11 DEF Next, CallStep, vars


-----------------------------------------------------------------------------
(* Every step preserves the invariant of the calls. *)
LEMMA LookupStep == LookupInv /\ [Next]_vars => LookupInv'
<1> SUFFICES ASSUME LookupInv, [Next]_vars PROVE LookupInv'
  OBVIOUS
<1> USE DEF LookupInv
<1>1. CallInv'
  BY CallInvStep
<1>2. ListingsOK'
  BY ListingsStep
<1>3. NameOK'
  BY NameStep
<1>4. ReplicasOK'
  BY ReplicasStep
<1>5. HostsOK'
  BY HostsStep
<1> QED
  BY <1>1, <1>2, <1>3, <1>4, <1>5

(* The three scans of a call: what they answer is sound at their end. *)
LEMMA LookupCorrect == Spec => []LookupInv
<1>1. Init => LookupInv
  BY LookupInit DEF LookupInv
<1> QED
  BY <1>1, LookupStep, PTL DEF Spec

(* model status counts every replica that was the model's all the time,    *)
(* once and with a status it had during the call, none that never was the  *)
(* model's, and its answer is what these statuses amount to, whatever is   *)
(* written between the scans of models and of replicas.                    *)
THEOREM StatusSound == Spec => []StatusIsSound
<1>1. LookupInv => StatusIsSound
  <2> SUFFICES ASSUME LookupInv, Answered("GetModelStatus") PROVE StatusIsSound
    BY DEF StatusIsSound
  <2>1. /\ step = "done" /\ kind = "GetModelStatus" /\ kind \in ByName
        /\ result \notin {"InvalidArgument", "Unimplemented"}
    BY DEF Answered, ByName
  <2>2. CASE result = "NotFound"
    BY <2>1, <2>2 DEF LookupInv, NameOK, StatusIsSound
  <2>3. CASE result # "NotFound"
    <3>1. stage = "replicas"
      BY <2>1, <2>3 DEF LookupInv, NameOK, ReplicasOK, CallInv, CallTypes
    <3>2. <<found, arg>> \in ever
      BY <2>1, <3>1 DEF LookupInv, NameOK
    <3>3. /\ \A r \in Replicas : <<r, found>> \in always => \E x \in mine : x[1] = r
          /\ \A x \in mine : <<x[1], found>> \in ever /\ x \in ever
          /\ \A x, y \in mine : x[1] = y[1] => x = y
          /\ result = Summary({x[2] : x \in mine})
      BY <2>1, <3>1 DEF LookupInv, ReplicasOK
    <3> QED
      BY <2>3, <3>2, <3>3 DEF StatusIsSound
  <2> QED
    BY <2>2, <2>3
<1> QED
  BY <1>1, LookupCorrect, PTL

(* model nodes lists every node that all the time had a replica that all   *)
(* the time was the model's, and only nodes that had one at some time,     *)
(* whatever is written between its three scans.                            *)
THEOREM HostsSound == Spec => []HostsAreSound
<1>1. LookupInv => HostsAreSound
  <2> SUFFICES ASSUME LookupInv, Answered("GetNodesByModelName") PROVE HostsAreSound
    BY DEF HostsAreSound
  <2>1. /\ step = "done" /\ kind = "GetNodesByModelName" /\ kind \in ByName
        /\ result \notin {"InvalidArgument", "Unimplemented"}
    BY DEF Answered, ByName
  <2>2. CASE result = "NotFound"
    BY <2>1, <2>2 DEF LookupInv, NameOK, HostsAreSound
  <2>3. CASE result # "NotFound"
    <3>1. stage = "nodes"
      BY <2>1, <2>3 DEF LookupInv, NameOK, ReplicasOK, CallInv, CallTypes
    <3> QED
      BY <2>1, <2>3, <3>1 DEF LookupInv, HostsOK, HostsAreSound
  <2> QED
    BY <2>2, <2>3
<1> QED
  BY <1>1, LookupCorrect, PTL
=============================================================================
