---------------------------- MODULE NodeRegistry ----------------------------
(***************************************************************************)
(* The node registry of the control plane                                  *)
(* (controller/registry/node_registry.go behind                            *)
(* api/grpc/registry/node_registry.go).  UpdateNode (an RPC) and           *)
(* UpdateNodeStatus (the heartbeat goroutine) are read-modify-write        *)
(* sequences of store calls on the same record with nothing held between   *)
(* the calls; RegisterNode and DeRegisterNode are one store call each.     *)
(***************************************************************************)
EXTENDS Naturals, FiniteSets

CONSTANTS
    Rpcs,       \* UpdateNode handlers in flight
    Ids,        \* node UUIDs; bounds the number of registrations
    Metas,      \* metadata and capabilities a request may carry
    Absent,     \* no record under a key
    MaxTime     \* bound: the clock

Statuses == {"unset", "online", "unknown", "offline"}

(* NodeInfo: time 0 is the zero time.Time, which RegisteredAt never is. *)
NodeInfo == [status : Statuses, meta : Metas, registeredAt : 1..MaxTime,
             lastHeartbeat : 0..MaxTime, lastActivity : 0..MaxTime]

HB == "hb"   \* the heartbeat goroutine, the only caller of UpdateNodeStatus
Callers == Rpcs \cup {HB}

ASSUME NodeConstants ==
    /\ Metas # {} /\ Ids # {} /\ MaxTime \in Nat \ {0}
    /\ Absent \notin NodeInfo \cup Callers /\ HB \notin Rpcs

VARIABLES
    nodes,       \* the store's "node:<id>" records
    now,         \* wall clock
    pc, target,  \* each caller's step and the node it works on
    arg,         \* the metadata or the status it writes
    copy,        \* the record it has read and will write back
    listed,      \* nodes the heartbeat loop has listed and not yet marked
    used,        \* history: UUIDs generated
    removed,     \* history: ids DeRegisterNode has deleted
    lastStatus,  \* history: the status registered or last written by UpdateNodeStatus
    lastMeta,    \* history: the metadata last registered or updated, per id
    raced        \* history: ids written or deleted while another caller held a copy

vars == <<nodes, now, pc, target, arg, copy, listed, used, removed, lastStatus, lastMeta, raced>>

history == <<used, removed, lastStatus, lastMeta, raced>>

Init ==
    /\ nodes = [i \in Ids |-> Absent] /\ now = 1
    /\ pc = [p \in Callers |-> "idle"]
    /\ target \in [Callers -> {CHOOSE i \in Ids : TRUE}]
    /\ arg = [p \in Callers |-> "unset"]
    /\ copy = [p \in Callers |-> Absent]
    /\ listed = {} /\ used = {} /\ removed = {} /\ raced = {}
    /\ lastStatus = [i \in Ids |-> "unset"] /\ lastMeta = [i \in Ids |-> Absent]

Tick ==
    /\ now < MaxTime
    /\ now' = now + 1
    /\ UNCHANGED <<nodes, pc, target, arg, copy, listed, history>>

(* The ids that some caller other than p has read and not yet written. *)
HeldByOthers(p) == {target[q] : q \in {r \in Callers \ {p} : pc[r] \in {"refresh", "put"}}}

(* The converted request: metadata, but no timestamps and, from an RPC, no *)
(* status.                                                                 *)
protoToStoreNodeInfo(m, s) ==
    [status |-> s, meta |-> m, registeredAt |-> 0, lastHeartbeat |-> 0, lastActivity |-> 0]

(* One Put under a new UUID; the controller stores the status it is given. *)
RegisterNode(i, m, s) ==
    /\ i \notin used
    /\ nodes' = [nodes EXCEPT ![i] = [protoToStoreNodeInfo(m, s) EXCEPT !.registeredAt = now, !.lastActivity = now]]
    /\ used' = used \cup {i}
    /\ lastMeta' = [lastMeta EXCEPT ![i] = m]
    /\ lastStatus' = [lastStatus EXCEPT ![i] = s]
    /\ UNCHANGED <<now, pc, target, arg, copy, listed, removed, raced>>

DeRegisterNode(i) ==
    /\ i \in used
    /\ nodes' = [nodes EXCEPT ![i] = Absent]
    /\ removed' = removed \cup {i}
    /\ raced' = raced \cup ({i} \cap HeldByOthers(Absent))
    /\ UNCHANGED <<now, pc, target, arg, copy, listed, used, lastStatus, lastMeta>>

Finish(p) == pc' = [pc EXCEPT ![p] = "idle"] /\ copy' = [copy EXCEPT ![p] = Absent]

(* The request's fields replace those of the existing record. *)
updateRequestToStoreNodeInfo(m, existing) == [existing EXCEPT !.meta = m]

(* UpdateNode: GetNodeByID, NotFound if there is no record, else a copy of *)
(* it with the request's fields replaced.                                  *)
UpdateNode(p, i, m) ==
    /\ pc[p] = "idle" /\ i \in used
    /\ nodes[i] # Absent
    /\ pc' = [pc EXCEPT ![p] = "refresh"]
    /\ target' = [target EXCEPT ![p] = i]
    /\ arg' = [arg EXCEPT ![p] = m]
    /\ copy' = [copy EXCEPT ![p] = updateRequestToStoreNodeInfo(m, nodes[i])]
    /\ UNCHANGED <<nodes, now, listed, history>>

OrElse(t, u) == IF t = 0 THEN u ELSE t

(* UpdateNodeInfo reads the record again, for timestamps that are still    *)
(* zero in the copy, and writes back even if the record has gone.          *)
RefreshTimes(p) ==
    /\ pc[p] = "refresh"
    /\ LET e == nodes[target[p]] IN
       IF e = Absent
       THEN copy' = [copy EXCEPT ![p].lastActivity = OrElse(@, now)]
       ELSE copy' = [copy EXCEPT
                       ![p].registeredAt  = OrElse(@, e.registeredAt),
                       ![p].lastHeartbeat = OrElse(@, e.lastHeartbeat),
                       ![p].lastActivity  = OrElse(OrElse(@, e.lastActivity), now)]
    /\ pc' = [pc EXCEPT ![p] = "put"]
    /\ UNCHANGED <<nodes, now, target, arg, listed, history>>

(* Mutation: the record is rebuilt from the request, as for a new node. *)
PutRebuilt(p) ==
    /\ pc[p] = "put" /\ p # HB
    /\ nodes' = [nodes EXCEPT ![target[p]] = [copy[p] EXCEPT !.status = "unset"]]
    /\ lastMeta' = [lastMeta EXCEPT ![target[p]] = arg[p]]
    /\ raced' = raced \cup ({target[p]} \cap HeldByOthers(p))
    /\ Finish(p)
    /\ UNCHANGED <<now, target, arg, listed, used, removed, lastStatus>>

PutNode(p) ==
    /\ pc[p] = "put" /\ p # HB
    /\ nodes' = [nodes EXCEPT ![target[p]] = copy[p]]
    /\ lastMeta' = [lastMeta EXCEPT ![target[p]] = arg[p]]
    /\ raced' = raced \cup ({target[p]} \cap HeldByOthers(p))
    /\ Finish(p)
    /\ UNCHANGED <<now, target, arg, listed, used, removed, lastStatus>>

(* A heartbeat round lists the nodes to call; the ones that answer it      *)
(* leaves alone.                                                           *)
ListNodesByStatuses ==
    /\ pc[HB] = "idle"
    /\ listed' = {i \in Ids : nodes[i] # Absent /\ nodes[i].status \in {"online", "unknown"}}
    /\ UNCHANGED <<nodes, now, pc, target, arg, copy, history>>

(* Mutation: UpdateNodeStatus does not check that the node exists. *)
UpdateNodeStatusAny(i, s) ==
    /\ pc[HB] = "idle" /\ i \in listed
    /\ listed' = listed \ {i}
    /\ pc' = [pc EXCEPT ![HB] = "put"]
    /\ target' = [target EXCEPT ![HB] = i]
    /\ arg' = [arg EXCEPT ![HB] = s]
    /\ copy' = [copy EXCEPT ![HB] =
                  IF nodes[i] # Absent THEN nodes[i]
                  ELSE [protoToStoreNodeInfo(CHOOSE m \in Metas : TRUE, s) EXCEPT !.registeredAt = now]]
    /\ UNCHANGED <<nodes, now, history>>

(* UpdateNodeStatus, for a listed node that did not answer: Get, an error  *)
(* if there is no record ...                                               *)
UpdateNodeStatus(i, s) ==
    /\ pc[HB] = "idle" /\ i \in listed
    /\ listed' = listed \ {i}
    /\ nodes[i] # Absent
    /\ pc' = [pc EXCEPT ![HB] = "put"]
    /\ target' = [target EXCEPT ![HB] = i]
    /\ arg' = [arg EXCEPT ![HB] = s]
    /\ copy' = [copy EXCEPT ![HB] = nodes[i]]
    /\ UNCHANGED <<nodes, now, history>>

(* ... then the status and "any status change as a heartbeat" are set in   *)
(* the copy and the copy is Put.                                           *)
PutStatus ==
    /\ pc[HB] = "put"
    /\ LET i == target[HB] IN
       /\ nodes' = [nodes EXCEPT ![i] =
                      [copy[HB] EXCEPT !.status = arg[HB], !.lastHeartbeat = now,
                                       !.lastActivity = OrElse(@, now)]]
       /\ lastStatus' = [lastStatus EXCEPT ![i] = arg[HB]]
       /\ raced' = raced \cup ({i} \cap HeldByOthers(HB))
    /\ Finish(HB)
    /\ UNCHANGED <<now, target, arg, listed, used, removed, lastMeta>>

Next ==
    \/ Tick
    \/ \E i \in Ids : DeRegisterNode(i)
    \/ \E i \in Ids, m \in Metas, s \in {"unset", "online"} : RegisterNode(i, m, s)
    \/ \E p \in Rpcs, i \in Ids, m \in Metas : UpdateNode(p, i, m)
    \/ \E p \in Rpcs : RefreshTimes(p) \/ PutNode(p)
    \/ \E i \in Ids, s \in {"unknown", "offline"} : UpdateNodeStatus(i, s)
    \/ ListNodesByStatuses \/ PutStatus

Spec == Init /\ [][Next]_vars

-----------------------------------------------------------------------------
(* Every variable keeps its shape. *)
TypeOK ==
    /\ nodes \in [Ids -> NodeInfo \cup {Absent}] /\ now \in 1..MaxTime
    /\ pc \in [Callers -> {"idle", "refresh", "put"}] /\ target \in [Callers -> Ids]
    /\ arg \in [Callers -> Metas \cup Statuses]
    /\ copy \in [Callers -> NodeInfo \cup {Absent}]
    /\ listed \subseteq used /\ used \subseteq Ids /\ removed \subseteq used /\ raced \subseteq used
    /\ lastStatus \in [Ids -> Statuses] /\ lastMeta \in [Ids -> Metas \cup {Absent}]

(* A record loses the last status or the last metadata written to it only  *)
(* if two read-modify-writes of the same node overlapped: one at a time,   *)
(* UpdateNode keeps the status and UpdateNodeStatus keeps the metadata.    *)
LostUpdatesNeedRace ==
    \A i \in Ids : nodes[i] # Absent /\ i \notin raced
        => nodes[i].status = lastStatus[i] /\ nodes[i].meta = lastMeta[i]

(* A deregistered node is back in the registry only if an update held a    *)
(* copy of it when it was deleted: neither update creates a record.        *)
GhostsNeedRace == \A i \in removed : nodes[i] # Absent => i \in raced

(* "Fields not provided in the request are preserved from the existing     *)
(* record": a stored node has the status it was last given.                *)
StatusPreserved == \A i \in Ids : nodes[i] # Absent => nodes[i].status = lastStatus[i]

(* "Removes a node from the registry by ID": the id stays removed. *)
RemovedNodesStayRemoved == \A i \in removed : nodes[i] = Absent
=============================================================================
