------------------------- MODULE NodeRegistryProofs -------------------------
(***************************************************************************)
(* Machine-checked theorems about the node registry, for any number of     *)
(* concurrent UpdateNode handlers, nodes and metadata, and any clock.      *)
(***************************************************************************)
EXTENDS NodeRegistry, TLAPS

(* A caller between its read and its write holds a record of a node that   *)
(* was registered; an RPC has the request's metadata in it, the heartbeat  *)
(* goroutine has a status to set.                                          *)
CopiesWellFormed ==
    \A p \in Callers : pc[p] # "idle" =>
        /\ target[p] \in used /\ copy[p] \in NodeInfo
        /\ p # HB => arg[p] \in Metas /\ copy[p].meta = arg[p]
        /\ p = HB => pc[p] = "put" /\ arg[p] \in Statuses

(* Unless the node was written or deleted meanwhile, the record a caller   *)
(* holds is still stored, and the fields it is not about to set are the    *)
(* last ones written.                                                      *)
CopiesAreFresh ==
    \A p \in Callers : pc[p] # "idle" /\ target[p] \notin raced =>
        /\ nodes[target[p]] # Absent
        /\ p # HB => copy[p].status = lastStatus[target[p]]
        /\ p = HB => copy[p].meta = lastMeta[target[p]]

(* The inductive invariant of the registry. *)
NodesInv ==
    /\ TypeOK
    /\ \A i \in Ids : nodes[i] # Absent => i \in used
    /\ CopiesWellFormed
    /\ CopiesAreFresh
    /\ LostUpdatesNeedRace
    /\ GhostsNeedRace

(* A registry without nodes satisfies the invariant. *)
LEMMA NodesInit == Init => NodesInv
<1> SUFFICES ASSUME Init PROVE NodesInv
  OBVIOUS
<1>1. (CHOOSE i \in Ids : TRUE) \in Ids
  BY NodeConstants
<1>2. TypeOK
  BY <1>1, NodeConstants DEF Init, TypeOK, Statuses
<1> QED
  BY <1>2 DEF Init, NodesInv, CopiesWellFormed, CopiesAreFresh, LostUpdatesNeedRace, GhostsNeedRace

(* The ids counted as raced when one caller writes: the others' targets.   *)
LEMMA HeldIds ==
    ASSUME TypeOK, NEW p, NEW q \in Callers, q # p, pc[q] # "idle"
    PROVE  target[q] \in HeldByOthers(p)
  BY DEF TypeOK, HeldByOthers

(* The record RegisterNode stores. *)
NewNode(m, s, t) == [protoToStoreNodeInfo(m, s) EXCEPT !.registeredAt = t, !.lastActivity = t]

(* It has the request's fields and is registered now. *)
LEMMA NewRecord ==
    ASSUME NEW m \in Metas, NEW s \in Statuses, NEW t \in 1..MaxTime
    PROVE  /\ NewNode(m, s, t) \in NodeInfo /\ NewNode(m, s, t) # Absent
           /\ NewNode(m, s, t).status = s /\ NewNode(m, s, t).meta = m
<1> DEFINE r == protoToStoreNodeInfo(m, s)
           Blank == [status : Statuses, meta : Metas, registeredAt : {0},
                     lastHeartbeat : {0}, lastActivity : {0}]
<1>1. r \in Blank /\ r.status = s /\ r.meta = m
  BY DEF protoToStoreNodeInfo
<1>2. MaxTime \in Nat /\ t \in 0..MaxTime /\ 0 \in 0..MaxTime
  BY NodeConstants
<1> HIDE DEF r
<1>3. LET e == [r EXCEPT !.registeredAt = t, !.lastActivity = t]
      IN  e \in NodeInfo /\ e.status = s /\ e.meta = m
  BY <1>1, <1>2 DEF NodeInfo
<1> QED
  BY <1>3, NodeConstants DEF r, NewNode

(* The second read of UpdateNodeInfo changes no field but the timestamps,  *)
(* and leaves a record.                                                    *)
LEMMA Refreshed ==
    ASSUME NodesInv, NEW p \in Rpcs, RefreshTimes(p)
    PROVE  /\ copy'[p] \in NodeInfo /\ copy' \in [Callers -> NodeInfo \cup {Absent}]
           /\ copy'[p].meta = copy[p].meta /\ copy'[p].status = copy[p].status
           /\ \A q \in Callers : q # p => copy'[q] = copy[q]
<1> USE NodeConstants DEF Callers
<1>1. /\ copy[p] \in NodeInfo /\ copy \in [Callers -> NodeInfo \cup {Absent}]
      /\ now \in 1..MaxTime /\ nodes[target[p]] \in NodeInfo \cup {Absent}
  BY DEF RefreshTimes, NodesInv, CopiesWellFormed, TypeOK
<1>2. CASE nodes[target[p]] = Absent
  BY <1>1, <1>2 DEF RefreshTimes, NodeInfo, OrElse
<1>3. CASE nodes[target[p]] # Absent
  BY <1>1, <1>3 DEF RefreshTimes, NodeInfo, OrElse
<1> QED
  BY <1>2, <1>3

(* Every store call of every caller preserves the invariant. *)
LEMMA NodesStep == NodesInv /\ [Next]_vars => NodesInv'
<1> SUFFICES ASSUME NodesInv, [Next]_vars PROVE NodesInv'
  OBVIOUS
<1> USE NodeConstants DEF NodesInv, history
<1>1. ASSUME Tick PROVE NodesInv'
  BY <1>1 DEF Tick, TypeOK, CopiesWellFormed, CopiesAreFresh, LostUpdatesNeedRace, GhostsNeedRace
<1>2. ASSUME NEW i \in Ids, DeRegisterNode(i) PROVE NodesInv'
  <2>1. TypeOK'
    BY <1>2 DEF DeRegisterNode, TypeOK
  <2>2. CopiesWellFormed'
    BY <1>2 DEF DeRegisterNode, CopiesWellFormed
  <2>3. \A q \in Callers : pc[q] # "idle" /\ target[q] = i => i \in raced'
    BY <1>2, HeldIds DEF DeRegisterNode
  <2>4. CopiesAreFresh'
    BY <1>2, <2>3 DEF DeRegisterNode, CopiesAreFresh, TypeOK
  <2> QED
    BY <1>2, <2>1, <2>2, <2>4 DEF DeRegisterNode, TypeOK, LostUpdatesNeedRace, GhostsNeedRace
<1>3. ASSUME NEW i \in Ids, NEW m \in Metas, NEW s \in {"unset", "online"}, RegisterNode(i, m, s)
      PROVE  NodesInv'
  <2> DEFINE e == NewNode(m, s, now)
  <2>1. e \in NodeInfo /\ e.status = s /\ e.meta = m /\ s \in Statuses /\ e # Absent
    <3>1. s \in Statuses /\ now \in 1..MaxTime
      BY DEF TypeOK, Statuses
    <3> HIDE NodeConstants DEF NodesInv
    <3> QED
      BY <3>1, NewRecord
  <2>2. nodes' = [nodes EXCEPT ![i] = e] /\ i \notin used
    BY <1>3 DEF RegisterNode, NewNode
  <2> HIDE DEF e
  <2>3. TypeOK'
    BY <1>3, <2>1, <2>2 DEF RegisterNode, TypeOK
  <2>4. CopiesWellFormed' /\ CopiesAreFresh'
    BY <1>3, <2>2 DEF RegisterNode, TypeOK, CopiesWellFormed, CopiesAreFresh
  <2>5. LostUpdatesNeedRace'
    BY <1>3, <2>1, <2>2 DEF RegisterNode, TypeOK, LostUpdatesNeedRace
  <2>6. GhostsNeedRace'
    BY <1>3, <2>1, <2>2 DEF RegisterNode, TypeOK, GhostsNeedRace
  <2> QED
    BY <1>3, <2>2, <2>3, <2>4, <2>5, <2>6 DEF RegisterNode, TypeOK
<1>4. ASSUME NEW p \in Rpcs, NEW i \in Ids, NEW m \in Metas, UpdateNode(p, i, m) PROVE NodesInv'
  <2> DEFINE c == updateRequestToStoreNodeInfo(m, nodes[i])
  <2>1. /\ c \in NodeInfo /\ c.meta = m /\ c.status = nodes[i].status
        /\ nodes[i] # Absent /\ i \in used /\ p \in Callers /\ p # HB
    BY <1>4 DEF UpdateNode, updateRequestToStoreNodeInfo, NodeInfo, TypeOK, Callers
  <2>2. copy' = [copy EXCEPT ![p] = c]
    BY <1>4 DEF UpdateNode
  <2> HIDE DEF c
  <2>3. TypeOK'
    BY <1>4, <2>1, <2>2 DEF UpdateNode, TypeOK
  <2>4. CopiesWellFormed'
    BY <1>4, <2>1, <2>2 DEF UpdateNode, TypeOK, CopiesWellFormed
  <2>5. CopiesAreFresh'
    BY <1>4, <2>1, <2>2 DEF UpdateNode, TypeOK, CopiesAreFresh, LostUpdatesNeedRace
  <2> QED
    BY <1>4, <2>3, <2>4, <2>5 DEF UpdateNode, LostUpdatesNeedRace, GhostsNeedRace
<1>5. ASSUME NEW p \in Rpcs, RefreshTimes(p) PROVE NodesInv'
  <2>1. p \in Callers /\ p # HB
    BY DEF Callers
  <2>2. TypeOK'
    BY <1>5, <2>1, Refreshed DEF RefreshTimes, TypeOK
  <2>3. /\ copy'[p] \in NodeInfo /\ copy'[p].meta = copy[p].meta /\ copy'[p].status = copy[p].status
        /\ pc'[p] = "put" /\ pc[p] # "idle"
        /\ \A q \in Callers : q # p => copy'[q] = copy[q] /\ pc'[q] = pc[q]
    BY <1>5, <2>1, Refreshed DEF RefreshTimes, TypeOK
  <2>4. CopiesWellFormed'
    BY <1>5, <2>1, <2>3 DEF RefreshTimes, CopiesWellFormed
  <2>5. CopiesAreFresh'
    BY <1>5, <2>1, <2>3 DEF RefreshTimes, CopiesAreFresh
  <2> QED
    BY <1>5, <2>2, <2>4, <2>5 DEF RefreshTimes, LostUpdatesNeedRace, GhostsNeedRace
<1>6. ASSUME NEW p \in Rpcs, PutNode(p) PROVE NodesInv'
  <2>1. /\ p \in Callers /\ p # HB /\ pc[p] = "put" /\ target[p] \in Ids /\ target[p] \in used
        /\ copy[p] \in NodeInfo /\ arg[p] \in Metas /\ copy[p].meta = arg[p] /\ copy[p] # Absent
    BY <1>6 DEF PutNode, Callers, TypeOK, CopiesWellFormed
  <2>2. \A q \in Callers : pc'[q] # "idle" =>
           q # p /\ pc[q] # "idle" /\ copy'[q] = copy[q] /\ (target[q] = target[p] => target[p] \in raced')
    BY <1>6, <2>1, HeldIds DEF PutNode, Finish, TypeOK
  <2>3. TypeOK'
    BY <1>6, <2>1 DEF PutNode, Finish, TypeOK
  <2>4. CopiesWellFormed'
    BY <1>6, <2>1, <2>2 DEF PutNode, Finish, TypeOK, CopiesWellFormed
  <2>5. CopiesAreFresh'
    BY <1>6, <2>1, <2>2 DEF PutNode, TypeOK, CopiesAreFresh
  <2>6. LostUpdatesNeedRace'
    BY <1>6, <2>1 DEF PutNode, TypeOK, CopiesAreFresh, LostUpdatesNeedRace
  <2>7. GhostsNeedRace'
    BY <1>6, <2>1 DEF PutNode, TypeOK, CopiesAreFresh, GhostsNeedRace
  <2> QED
    BY <1>6, <2>1, <2>3, <2>4, <2>5, <2>6, <2>7 DEF PutNode, TypeOK
<1>7. ASSUME NEW i \in Ids, NEW s \in {"unknown", "offline"}, UpdateNodeStatus(i, s) PROVE NodesInv'
  <2>1. HB \in Callers /\ nodes[i] \in NodeInfo /\ i \in used /\ s \in Statuses
    BY <1>7 DEF UpdateNodeStatus, Callers, TypeOK, Statuses
  <2>2. TypeOK'
    BY <1>7, <2>1 DEF UpdateNodeStatus, TypeOK
  <2>3. CopiesWellFormed'
    BY <1>7, <2>1 DEF UpdateNodeStatus, TypeOK, CopiesWellFormed
  <2>4. CopiesAreFresh'
    BY <1>7, <2>1 DEF UpdateNodeStatus, TypeOK, CopiesAreFresh, LostUpdatesNeedRace
  <2> QED
    BY <1>7, <2>2, <2>3, <2>4 DEF UpdateNodeStatus, LostUpdatesNeedRace, GhostsNeedRace
<1>8. ASSUME ListNodesByStatuses PROVE NodesInv'
  BY <1>8 DEF ListNodesByStatuses, TypeOK, CopiesWellFormed, CopiesAreFresh, LostUpdatesNeedRace,
     GhostsNeedRace
<1>9. ASSUME PutStatus PROVE NodesInv'
  <2> DEFINE i == target[HB]
             e == [copy[HB] EXCEPT !.status = arg[HB], !.lastHeartbeat = now,
                                   !.lastActivity = OrElse(@, now)]
  <2>1. /\ HB \in Callers /\ pc[HB] = "put" /\ i \in Ids /\ i \in used
        /\ copy[HB] \in NodeInfo /\ arg[HB] \in Statuses /\ now \in 1..MaxTime
    BY <1>9 DEF PutStatus, Callers, TypeOK, CopiesWellFormed
  <2>2. e \in NodeInfo /\ e.status = arg[HB] /\ e.meta = copy[HB].meta /\ e # Absent
    <3>1. OrElse(copy[HB].lastActivity, now) \in 0..MaxTime /\ now \in 0..MaxTime
      BY <2>1 DEF NodeInfo, OrElse
    <3> HIDE DEF NodesInv
    <3> QED
      BY <2>1, <3>1 DEF NodeInfo
  <2>3. nodes' = [nodes EXCEPT ![i] = e]
    BY <1>9 DEF PutStatus
  <2> HIDE DEF e
  <2>4. \A q \in Callers : pc'[q] # "idle" =>
           q # HB /\ pc[q] # "idle" /\ copy'[q] = copy[q] /\ (target[q] = i => i \in raced')
    BY <1>9, <2>1, HeldIds DEF PutStatus, Finish, TypeOK
  <2>5. TypeOK'
    BY <1>9, <2>1, <2>2, <2>3 DEF PutStatus, Finish, TypeOK
  <2>6. CopiesWellFormed'
    BY <1>9, <2>1, <2>4 DEF PutStatus, Finish, TypeOK, CopiesWellFormed
  <2>7. CopiesAreFresh'
    BY <1>9, <2>1, <2>2, <2>3, <2>4 DEF PutStatus, TypeOK, CopiesAreFresh
  <2>8. LostUpdatesNeedRace'
    BY <1>9, <2>1, <2>2, <2>3 DEF PutStatus, TypeOK, CopiesAreFresh, LostUpdatesNeedRace
  <2>9. GhostsNeedRace'
    BY <1>9, <2>1, <2>2, <2>3 DEF PutStatus, TypeOK, CopiesAreFresh, GhostsNeedRace
  <2> QED
    BY <1>9, <2>1, <2>3, <2>5, <2>6, <2>7, <2>8, <2>9 DEF PutStatus, TypeOK
<1>10. CASE UNCHANGED vars
  BY <1>10 DEF vars, TypeOK, CopiesWellFormed, CopiesAreFresh, LostUpdatesNeedRace, GhostsNeedRace
<1> QED
  BY <1>1, <1>2, <1>3, <1>4, <1>5, <1>6, <1>7, <1>8, <1>9, <1>10 DEF Next

(* The registry's invariant holds in every reachable state. *)
LEMMA NodesInvariant == Spec => []NodesInv
<1>1. Init => NodesInv
  BY NodesInit
<1>2. NodesInv /\ [Next]_vars => NodesInv'
  BY NodesStep
<1> QED
  BY <1>1, <1>2, PTL DEF Spec

(* Every variable of the node registry keeps its shape. *)
THEOREM NodesTypeCorrect == Spec => []TypeOK
<1>1. NodesInv => TypeOK
  BY DEF NodesInv
<1> QED
  BY <1>1, NodesInvariant, PTL

(* UpdateNode and UpdateNodeStatus, each a Get and a Put with nothing held *)
(* between them, lose each other's fields only on a node that was written  *)
(* or deleted while a copy of it was held.                                 *)
THEOREM UpdatesLostOnlyInRaces == Spec => []LostUpdatesNeedRace
<1>1. NodesInv => LostUpdatesNeedRace
  BY DEF NodesInv
<1> QED
  BY <1>1, NodesInvariant, PTL

(* A deregistered node is stored again only if an update held a copy of it *)
(* when it was deleted.                                                    *)
THEOREM GhostNodesOnlyInRaces == Spec => []GhostsNeedRace
<1>1. NodesInv => GhostsNeedRace
  BY DEF NodesInv
<1> QED
  BY <1>1, NodesInvariant, PTL
=============================================================================
