-------------------------- MODULE HeartbeatProofs --------------------------
(***************************************************************************)
(* Machine-checked theorems about liveness monitoring, for any number of   *)
(* agents, node ids and replicas, any thresholds and any number of faults. *)
(***************************************************************************)
EXTENDS Heartbeat, FiniteSetTheorems, TLAPS

(* The steps of the loop that are about one node. *)
Busy == {"call", "reply", "mark", "put"}
Polled == {"online", "unknown"}

(* What the loop holds at each of its steps. *)
LoopOK ==
    /\ lp = "wait" => queue = {}
    /\ lp \in Busy => cur \in Listed
    /\ lp = "reply" => reply \in [Replicas -> {"running", "failed", "none"}]
    /\ lp = "put" => copy \in NodeInfo /\ copy.status \in {"unknown", "offline"}

(* A round has each node once, and only the loop itself takes a node out   *)
(* of the statuses it polls.                                               *)
RoundOK ==
    /\ \A n \in queue : nodes[n.id] # Absent => nodes[n.id].status \in Polled
    /\ \A m, n \in queue : m.id = n.id => m = n
    /\ lp \in Busy => /\ nodes[cur.id] # Absent => nodes[cur.id].status \in Polled
                      /\ \A n \in queue : n.id # cur.id

(* An agent that runs has an id, and every record of that id addresses it. *)
IdsOK ==
    /\ \A a \in Agents : cond[a] = "off" <=> nodeId[a] = NoId
    /\ \A a \in Agents : nodeId[a] # NoId =>
          /\ nodes[nodeId[a]] # Absent => nodes[nodeId[a]].agent = a
          /\ \A n \in queue : n.id = nodeId[a] => n.rec.agent = a
          /\ lp \in Busy /\ cur.id = nodeId[a] => cur.rec.agent = a
          /\ lp = "put" /\ cur.id = nodeId[a] => copy.agent = a

PollInv == TypeOK /\ LoopOK /\ RoundOK /\ IdsOK

(* The nodes this round has still to hear of. *)
Pending == {n.id : n \in queue} \cup (IF lp \in Busy THEN {cur.id} ELSE {})

(* A node that stays online after its turn has the round's endpoints. *)
CachesOK ==
    ~fire /\ lp # "list" /\ eps # {} =>
        \A a \in Agents : nodeId[a] \in ByStatus({"online"}) =>
            \/ cache[a] = eps
            \/ nodeId[a] \in Pending /\ ~(lp = "reply" /\ cur.id = nodeId[a])

(* The ids whose record is left behind, or may be without another fault:   *)
(* the loop is about to put it back, its agent is cut off or failed to     *)
(* deregister it, or the loop has read it to write it again.               *)
AtRisk ==
    {i \in Ids :
        \/ /\ \A a \in Agents : nodeId[a] # i
           /\ nodes[i] # Absent \/ (lp = "put" /\ cur.id = i)
        \/ \E a \in Agents : /\ nodeId[a] = i
                             /\ \/ cond[a] = "cut"
                                \/ mon[a] = "reg" /\ nodes[i] # Absent
                                \/ lp \in {"mark", "put"} /\ cur.id = i}

RiskBounded == IsFiniteSet(AtRisk) /\ Cardinality(AtRisk) <= faults

(* Online nodes answered in this round or the last one. *)
SilenceOK ==
    Prompt => /\ lp # "wait" => ~fire
              /\ \A i \in ByStatus({"online"}) :
                    /\ silent[i] <= 1
                    /\ ~fire /\ lp # "list" => silent[i] = 0 \/ i \in Pending


-----------------------------------------------------------------------------
(* Records and the initial state.                                          *)

(* Getting older keeps a record what it is. *)
LEMMA AgedRecords ==
    /\ Aged(Absent) = Absent
    /\ \A rec \in NodeInfo : /\ Aged(rec) \in NodeInfo /\ rec # Absent /\ Aged(rec) # Absent
                             /\ Aged(rec).status = rec.status /\ Aged(rec).agent = rec.agent
                             /\ Aged(rec).assigned = rec.assigned
    /\ \A t \in Ages : Older(t) \in Ages
<1>1. \A t \in Ages : Older(t) \in Ages
  BY HeartbeatConstants DEF Ages, Cap, Older
<1>2. Aged(Absent) = Absent
  BY DEF Aged
<1>3. ASSUME NEW rec \in NodeInfo
      PROVE  /\ Aged(rec) \in NodeInfo /\ rec # Absent /\ Aged(rec) # Absent
             /\ Aged(rec).status = rec.status /\ Aged(rec).agent = rec.agent
             /\ Aged(rec).assigned = rec.assigned
  <2>1. rec # Absent
    BY HeartbeatConstants
  <2>2. Aged(rec) = [rec EXCEPT !.hb = Older(@)]
    BY <2>1 DEF Aged
  <2>3. Older(rec.hb) \in Ages
    BY <1>1 DEF NodeInfo
  <2>4. Aged(rec) \in NodeInfo
    BY <2>2, <2>3 DEF NodeInfo
  <2> QED
    BY <2>1, <2>2, <2>4, HeartbeatConstants DEF NodeInfo
<1> QED
  BY <1>1, <1>2, <1>3

(* A listed node has an id and a record. *)
LEMMA ListedParts ==
    /\ \A n \in Listed : n.id \in Ids /\ n.rec \in NodeInfo /\ n.rec.agent \in Agents /\ n # Absent
    /\ Absent \notin NodeInfo
BY HeartbeatConstants DEF Listed, NodeInfo

(* The first ids are distinct. *)
LEMMA FirstIdsDiffer ==
    FirstIds \in [Agents -> Ids] /\ \A a, b \in Agents : FirstIds[a] = FirstIds[b] => a = b
BY HeartbeatConstants DEF FirstIds

(* The agents that were preloaded and an idle loop. *)
LEMMA PollInit == Init => PollInv
<1> SUFFICES ASSUME Init PROVE PollInv
  OBVIOUS
<1>1. \A a \in Preloaded : a \in Agents /\ Hosted[a] \subseteq Replicas /\ FirstIds[a] \in Ids
  BY HeartbeatConstants, FirstIdsDiffer
<1>2. 0 \in Ages /\ 0 \in 0..MaxFaults
  BY HeartbeatConstants DEF Ages, Cap
<1> DEFINE Stored(a) == [status |-> "online", agent |-> a, hb |-> 0, assigned |-> Hosted[a]]
<1>3. ASSUME NEW i \in Ids
      PROVE  nodes[i] = Absent \/ \E a \in Preloaded : FirstIds[a] = i /\ nodes[i] = Stored(a)
  <2>1. CASE \E a \in Preloaded : FirstIds[a] = i
    <3> DEFINE c == CHOOSE b \in Preloaded : FirstIds[b] = i
    <3>1. c \in Preloaded /\ FirstIds[c] = i
      BY <2>1
    <3>2. nodes[i] = Stored(c)
      BY <2>1 DEF Init
    <3> HIDE DEF c
    <3> QED
      BY <3>1, <3>2
  <2>2. CASE ~ \E a \in Preloaded : FirstIds[a] = i
    BY <2>2 DEF Init
  <2> QED
    BY <2>1, <2>2
<1>4. \A a \in Preloaded : Stored(a) \in NodeInfo /\ Stored(a).agent = a
  BY <1>1, <1>2 DEF NodeInfo
<1> HIDE DEF Stored
<1>5. TypeOK
  <2>1. nodes \in [Ids -> NodeInfo \cup {Absent}]
    <3>1. nodes = [i \in Ids |-> nodes[i]]
      BY DEF Init
    <3> QED
      BY <1>3, <1>4, <3>1
  <2>2. nodeId \in [Agents -> Ids \cup {NoId}] /\ cond \in [Agents -> {"off", "up", "cut", "hung"}]
    BY <1>1 DEF Init
  <2>3. age \in [Agents -> Ages] /\ silent \in [Ids -> Ages] /\ faults \in 0..MaxFaults
    BY <1>2 DEF Init
  <2>4. fire \in BOOLEAN
    BY DEF Init
  <2>5. has \in [Agents -> [Replicas -> {"running", "failed", "none"}]]
    BY DEF Init
  <2> QED
    BY <2>1, <2>2, <2>3, <2>4, <2>5 DEF Init, TypeOK
<1>6. LoopOK /\ RoundOK
  BY DEF Init, LoopOK, RoundOK, Busy
<1>7. IdsOK
  <2>1. \A a \in Agents : cond[a] = "off" <=> nodeId[a] = NoId
    BY <1>1, HeartbeatConstants DEF Init
  <2>2. ASSUME NEW a \in Agents, nodeId[a] # NoId, nodes[nodeId[a]] # Absent
        PROVE  nodes[nodeId[a]].agent = a
    <3>1. nodeId[a] = FirstIds[a] /\ nodeId[a] \in Ids
      BY <1>1, <2>2 DEF Init
    <3>2. PICK b \in Preloaded : FirstIds[b] = FirstIds[a] /\ nodes[nodeId[a]].agent = b
      BY <1>3, <1>4, <2>2, <3>1
    <3> QED
      BY <1>1, <3>2, FirstIdsDiffer
  <2> QED
    BY <2>1, <2>2 DEF Init, IdsOK, Busy
<1> QED
  BY <1>5, <1>6, <1>7 DEF PollInv


-----------------------------------------------------------------------------
(* The base invariant, step by step.                                       *)

AgentTypes ==
    /\ cond \in [Agents -> {"off", "up", "cut", "hung"}] /\ nodeId \in [Agents -> Ids \cup {NoId}]
    /\ age \in [Agents -> Ages] /\ mon \in [Agents -> {"wait", "dereg", "reg"}]
    /\ cache \in [Agents -> SUBSET Replicas]
    /\ has \in [Agents -> [Replicas -> {"running", "failed", "none"}]]
    /\ faults \in 0..MaxFaults

LoopTypes ==
    /\ reps \in [Replicas -> {"running", "failed", "unknown"}]
    /\ lp \in {"wait", "list", "next"} \cup Busy
    /\ eps \subseteq Replicas /\ left \subseteq Replicas
    /\ queue \subseteq Listed /\ cur \in Listed \cup {Absent}
    /\ copy \in NodeInfo \cup {Absent}

StoreTypes == nodes \in [Ids -> NodeInfo \cup {Absent}] /\ silent \in [Ids -> Ages]

(* The types of the agents, of the loop and of the store are apart. *)
LEMMA TypeParts == TypeOK <=> AgentTypes /\ LoopTypes /\ StoreTypes /\ fire \in BOOLEAN
BY DEF TypeOK, AgentTypes, LoopTypes, StoreTypes, Busy

(* A step of an agent that leaves the store alone, and gives an agent no   *)
(* id it did not have.                                                     *)
LEMMA AgentMoves ==
    ASSUME PollInv, UNCHANGED <<nodes, reps, loopVars, silent>>, AgentTypes',
           \A a \in Agents : nodeId'[a] \in {nodeId[a], NoId},
           \A a \in Agents : cond'[a] = "off" <=> nodeId'[a] = NoId
    PROVE  PollInv'
<1> USE DEF PollInv, loopVars
<1>1. LoopTypes' /\ StoreTypes'
  BY TypeParts DEF LoopTypes, StoreTypes
<1>2. fire' \in BOOLEAN
  BY TypeParts
<1>3. TypeOK'
  BY <1>1, <1>2, TypeParts DEF TypeOK, AgentTypes, LoopTypes, StoreTypes, Busy
<1>4. LoopOK' /\ RoundOK'
  BY DEF LoopOK, RoundOK
<1>5. IdsOK'
  BY DEF IdsOK
<1> QED
  BY <1>3, <1>4, <1>5

(* Faults are counted up to their bound. *)
LEMMA FaultCounted == TypeOK /\ Fault => faults' \in 0..MaxFaults /\ faults' = faults + 1
BY HeartbeatConstants DEF TypeOK, Fault

(* Faults of an agent, their end, and the check of its monitor. *)
LEMMA PollAgent ==
    ASSUME PollInv, NEW a \in Agents,
           \/ CrashAgent(a) \/ Partition(a) \/ Heal(a) \/ Freeze(a) \/ Thaw(a)
           \/ CheckStale(a) \/ \E r \in Replicas : ReplicaFails(a, r)
    PROVE  PollInv'
<1> USE DEF PollInv
<1>0. AgentTypes /\ \A b \in Agents : cond[b] = "off" <=> nodeId[b] = NoId
  BY TypeParts DEF IdsOK
<1>1. CASE CrashAgent(a)
  <2>1. faults' \in 0..MaxFaults
    BY <1>1, FaultCounted DEF CrashAgent
  <2>2. 0 \in Ages
    BY HeartbeatConstants DEF Ages, Cap
  <2>3. AgentTypes'
    BY <1>0, <1>1, <2>1, <2>2 DEF CrashAgent, AgentTypes
  <2> QED
    BY <1>0, <1>1, <2>3, AgentMoves DEF CrashAgent, AgentTypes
<1>2. CASE Partition(a) \/ Freeze(a)
  <2>1. faults' \in 0..MaxFaults
    BY <1>2, FaultCounted DEF Partition, Freeze
  <2>2. AgentTypes'
    BY <1>0, <1>2, <2>1 DEF Partition, Freeze, AgentTypes
  <2> QED
    BY <1>0, <1>2, <2>2, AgentMoves DEF Partition, Freeze, AgentTypes
<1>3. CASE Heal(a) \/ Thaw(a)
  <2>1. AgentTypes'
    BY <1>0, <1>3 DEF Heal, Thaw, AgentTypes
  <2> QED
    BY <1>0, <1>3, <2>1, AgentMoves DEF Heal, Thaw, AgentTypes
<1>4. CASE CheckStale(a)
  <2>1. AgentTypes'
    BY <1>0, <1>4 DEF CheckStale, AgentTypes
  <2> QED
    BY <1>0, <1>4, <2>1, AgentMoves DEF CheckStale, AgentTypes
<1>5. ASSUME NEW r \in Replicas, ReplicaFails(a, r) PROVE PollInv'
  <2>1. has' \in [Agents -> [Replicas -> {"running", "failed", "none"}]]
    BY <1>0, <1>5 DEF ReplicaFails, AgentTypes
  <2>2. AgentTypes'
    BY <1>0, <1>5, <2>1 DEF ReplicaFails, AgentTypes
  <2> QED
    BY <1>0, <1>5, <2>2, AgentMoves DEF ReplicaFails, AgentTypes
<1> QED
  BY <1>1, <1>2, <1>3, <1>4, <1>5

(* A registration under a new id, which its agent takes or never learns. *)
LEMMA PollRegister ==
    ASSUME PollInv, NEW a \in Agents, NEW i \in Fresh, AgentTypes',
           nodes' = [nodes EXCEPT ![i] = Registered(a)],
           silent' = [silent EXCEPT ![i] = 0], UNCHANGED <<reps, loopVars>>,
           nodeId' = nodeId \/ nodeId' = [nodeId EXCEPT ![a] = i],
           \A b \in Agents : cond'[b] = "off" <=> nodeId'[b] = NoId
    PROVE  PollInv'
<1> USE DEF PollInv
<1>1. /\ i \in Ids /\ i # NoId /\ nodes[i] = Absent /\ \A b \in Agents : nodeId[b] # i
      /\ \A n \in queue : n.id # i /\ (cur # Absent => cur.id # i)
  BY HeartbeatConstants DEF Fresh
<1>2. Registered(a) \in NodeInfo /\ Registered(a).agent = a /\ 0 \in Ages
  BY HeartbeatConstants DEF Registered, NodeInfo, Ages, Cap
<1>3. /\ nodes'[i] = Registered(a) /\ \A j \in Ids : j # i => nodes'[j] = nodes[j]
      /\ nodeId'[a] \in {nodeId[a], i} /\ \A b \in Agents : b # a => nodeId'[b] = nodeId[b]
  BY <1>1, TypeParts DEF StoreTypes, AgentTypes
<1>4. lp \in Busy => cur # Absent /\ cur.id \in Ids /\ cur.id # i
  BY <1>1, ListedParts DEF LoopOK, Fresh
<1>5. \A n \in queue : n.id \in Ids
  BY TypeParts, ListedParts DEF LoopTypes
<1>6. TypeOK'
  <2>1. StoreTypes'
    BY <1>1, <1>2, TypeParts DEF StoreTypes
  <2>2. LoopTypes' /\ fire' \in BOOLEAN
    <3>1. LoopTypes'
      BY TypeParts DEF LoopTypes, loopVars
    <3>2. fire' \in BOOLEAN
      BY TypeParts DEF loopVars
    <3> QED
      BY <3>1, <3>2
  <2> QED
    BY <2>1, <2>2 DEF TypeOK, AgentTypes, LoopTypes, StoreTypes, Busy
<1>7. LoopOK'
  BY DEF LoopOK, loopVars
<1>8. RoundOK'
  BY <1>1, <1>3, <1>4, <1>5 DEF RoundOK, loopVars
<1>9. IdsOK'
  <2> SUFFICES ASSUME NEW b \in Agents, nodeId'[b] # NoId
               PROVE  /\ nodes'[nodeId'[b]] # Absent => nodes'[nodeId'[b]].agent = b
                      /\ \A n \in queue : n.id = nodeId'[b] => n.rec.agent = b
                      /\ lp \in Busy /\ cur.id = nodeId'[b] => cur.rec.agent = b
                      /\ lp = "put" /\ cur.id = nodeId'[b] => copy.agent = b
    BY DEF IdsOK, loopVars
  <2>1. CASE nodeId'[b] = i
    <3>1. b = a
      BY <1>1, <1>3, <2>1
    <3> QED
      BY <1>1, <1>2, <1>3, <1>4, <2>1, <3>1 DEF Busy
  <2>2. CASE nodeId'[b] # i
    <3>1. nodeId'[b] = nodeId[b] /\ nodeId[b] \in Ids
      BY <1>3, <2>2, TypeParts DEF AgentTypes
    <3> QED
      BY <1>3, <2>2, <3>1 DEF IdsOK
  <2> QED
    BY <2>1, <2>2
<1> QED
  BY <1>6, <1>7, <1>8, <1>9

(* A deregistration deletes one record. *)
LEMMA PollDelete ==
    ASSUME PollInv, NEW i \in Ids, AgentTypes',
           nodes' = [nodes EXCEPT ![i] = Absent], UNCHANGED <<cond, nodeId, reps, loopVars, silent>>
    PROVE  PollInv'
<1> USE DEF PollInv
<1>1. nodes'[i] = Absent /\ \A j \in Ids : j # i => nodes'[j] = nodes[j]
  BY TypeParts DEF StoreTypes
<1>2. lp \in Busy => cur.id \in Ids
  BY ListedParts DEF LoopOK
<1>3. \A n \in queue : n.id \in Ids
  BY TypeParts, ListedParts DEF LoopTypes
<1>4. \A a \in Agents : nodeId[a] # NoId => nodeId[a] \in Ids
  BY TypeParts DEF AgentTypes
<1>5. TypeOK'
  <2>1. StoreTypes'
    BY TypeParts DEF StoreTypes
  <2>2. LoopTypes'
    BY TypeParts DEF LoopTypes, loopVars
  <2>3. fire' \in BOOLEAN
    BY TypeParts DEF loopVars
  <2> QED
    BY <2>1, <2>2, <2>3 DEF TypeOK, AgentTypes, LoopTypes, StoreTypes, Busy
<1>6. LoopOK'
  BY DEF LoopOK, loopVars
<1>7. RoundOK'
  BY <1>1, <1>2, <1>3 DEF RoundOK, loopVars
<1>8. IdsOK'
  BY <1>1, <1>4 DEF IdsOK, loopVars
<1> QED
  BY <1>5, <1>6, <1>7, <1>8


(* The agent starts. *)
LEMMA PollStart ==
    ASSUME PollInv, NEW a \in Agents, StartAgent(a)
    PROVE  PollInv'
<1> USE DEF PollInv
<1>0. AgentTypes /\ \A b \in Agents : cond[b] = "off" <=> nodeId[b] = NoId
  BY TypeParts DEF IdsOK
<1>1. PICK i \in Fresh :
        /\ nodes' = [nodes EXCEPT ![i] = Registered(a)] /\ silent' = [silent EXCEPT ![i] = 0]
        /\ \/ /\ cond' = [cond EXCEPT ![a] = "up"] /\ nodeId' = [nodeId EXCEPT ![a] = i]
              /\ age' = [age EXCEPT ![a] = 0] /\ UNCHANGED faults
           \/ Fault /\ UNCHANGED <<cond, nodeId, age>>
  BY DEF StartAgent
<1>2. i \in Ids /\ i # NoId /\ 0 \in Ages
  BY HeartbeatConstants DEF Fresh, Ages, Cap
<1>3. UNCHANGED <<mon, cache, has, reps, loopVars>>
  BY DEF StartAgent
<1>4. faults' \in 0..MaxFaults
  BY <1>0, <1>1, FaultCounted DEF AgentTypes
<1>5. AgentTypes'
  <2>1. cond' \in [Agents -> {"off", "up", "cut", "hung"}]
    BY <1>0, <1>1 DEF AgentTypes
  <2>2. nodeId' \in [Agents -> Ids \cup {NoId}] /\ age' \in [Agents -> Ages]
    BY <1>0, <1>1, <1>2 DEF AgentTypes
  <2> QED
    BY <1>0, <1>3, <1>4, <2>1, <2>2 DEF AgentTypes
<1>6. \A b \in Agents : cond'[b] = "off" <=> nodeId'[b] = NoId
  BY <1>0, <1>1, <1>2 DEF AgentTypes
<1> QED
  BY <1>1, <1>3, <1>5, <1>6, PollRegister

(* The monitor deregisters the old id. *)
LEMMA PollDeregister ==
    ASSUME PollInv, NEW a \in Agents, Deregister(a)
    PROVE  PollInv'
<1> USE DEF PollInv
<1>0. AgentTypes /\ \A b \in Agents : cond[b] = "off" <=> nodeId[b] = NoId
  BY TypeParts DEF IdsOK
<1>1. faults' \in 0..MaxFaults
  BY <1>0, FaultCounted DEF Deregister, AgentTypes
<1>2. AgentTypes'
  BY <1>0, <1>1 DEF Deregister, AgentTypes
<1>3. CASE UNCHANGED nodes
  BY <1>0, <1>2, <1>3, AgentMoves DEF Deregister
<1>4. CASE cond[a] = "up" /\ nodes' = [nodes EXCEPT ![nodeId[a]] = Absent]
  <2>1. nodeId[a] \in Ids
    BY <1>0, <1>4 DEF AgentTypes
  <2> QED
    BY <1>2, <1>4, <2>1, PollDelete DEF Deregister
<1> QED
  BY <1>3, <1>4 DEF Deregister

(* The monitor registers again. *)
LEMMA PollReregister ==
    ASSUME PollInv, NEW a \in Agents, Reregister(a)
    PROVE  PollInv'
<1> USE DEF PollInv
<1>0. AgentTypes /\ \A b \in Agents : cond[b] = "off" <=> nodeId[b] = NoId
  BY TypeParts DEF IdsOK
<1>1. UNCHANGED <<cond, cache, has, reps, loopVars>> /\ mon' = [mon EXCEPT ![a] = "wait"]
  BY DEF Reregister
<1>2. faults' \in 0..MaxFaults
  BY <1>0, FaultCounted DEF Reregister, AgentTypes
<1>3. ASSUME UNCHANGED <<nodeId, age, nodes, silent>> PROVE PollInv'
  <2>1. AgentTypes'
    BY <1>0, <1>1, <1>2, <1>3 DEF AgentTypes
  <2> QED
    BY <1>0, <1>1, <1>3, <2>1, AgentMoves
<1>4. ASSUME NEW i \in Fresh, cond[a] = "up", nodes' = [nodes EXCEPT ![i] = Registered(a)],
             silent' = [silent EXCEPT ![i] = 0],
             \/ nodeId' = [nodeId EXCEPT ![a] = i] /\ age' = [age EXCEPT ![a] = 0]
             \/ UNCHANGED <<nodeId, age>>
      PROVE  PollInv'
  <2>1. i \in Ids /\ i # NoId /\ 0 \in Ages
    BY HeartbeatConstants DEF Fresh, Ages, Cap
  <2>2. AgentTypes'
    BY <1>0, <1>1, <1>2, <1>4, <2>1 DEF AgentTypes
  <2>3. \A b \in Agents : cond'[b] = "off" <=> nodeId'[b] = NoId
    BY <1>0, <1>1, <1>4, <2>1 DEF AgentTypes
  <2> QED
    BY <1>1, <1>4, <2>2, <2>3, PollRegister
<1> QED
  BY <1>3, <1>4 DEF Reregister

(* Time passes: the records get older and stay what they are. *)
LEMMA PollTick ==
    ASSUME PollInv, Tick
    PROVE  PollInv'
<1> USE DEF PollInv
<1> DEFINE Old(n) == [n EXCEPT !.rec = Aged(@)]
<1>0. AgentTypes /\ LoopTypes /\ StoreTypes
  BY TypeParts
<1>1. \A n \in Listed : Old(n) \in Listed /\ Old(n).id = n.id /\ Old(n).rec.agent = n.rec.agent
  <2> SUFFICES ASSUME NEW n \in Listed
               PROVE  Old(n) \in Listed /\ Old(n).id = n.id /\ Old(n).rec.agent = n.rec.agent
    OBVIOUS
  <2>1. Aged(n.rec) \in NodeInfo /\ Aged(n.rec).agent = n.rec.agent
    BY AgedRecords, ListedParts
  <2> QED
    BY <2>1 DEF Listed
<1>2. queue' = {Old(n) : n \in queue} /\ cur' = (IF cur = Absent THEN Absent ELSE Old(cur))
  BY DEF Tick
<1> HIDE DEF Old
<1>3. queue \subseteq Listed /\ (lp \in Busy => cur \in Listed /\ cur # Absent)
  BY <1>0, ListedParts DEF LoopTypes, LoopOK
<1>4. lp \in Busy => cur' \in Listed /\ cur'.id = cur.id /\ cur'.rec.agent = cur.rec.agent
  BY <1>1, <1>2, <1>3
<1>5. \A m \in queue' : \E n \in queue : m = Old(n) /\ m.id = n.id /\ m.rec.agent = n.rec.agent
  BY <1>1, <1>2, <1>3
<1>6. \A i \in Ids : /\ nodes'[i] = Absent <=> nodes[i] = Absent
                     /\ nodes[i] # Absent => nodes'[i].status = nodes[i].status /\ nodes'[i].agent = nodes[i].agent
  BY <1>0, AgedRecords DEF Tick, StoreTypes
<1>7. lp \in Busy => cur.id \in Ids
  BY <1>3, ListedParts
<1>8. \A n \in queue : n.id \in Ids
  BY <1>3, ListedParts
<1>9. TypeOK'
  <2>1. StoreTypes'
    <3>1. nodes' \in [Ids -> NodeInfo \cup {Absent}]
      BY <1>0, AgedRecords DEF Tick, StoreTypes
    <3>2. 0 \in Ages
      BY HeartbeatConstants DEF Ages, Cap
    <3>3. silent' \in [Ids -> Ages]
      BY <1>0, <3>2, AgedRecords DEF Tick, StoreTypes
    <3> QED
      BY <3>1, <3>3 DEF StoreTypes
  <2>2. AgentTypes'
    BY <1>0, AgedRecords DEF Tick, AgentTypes
  <2>3. LoopTypes'
    <3>1. queue' \subseteq Listed /\ cur' \in Listed \cup {Absent}
      BY <1>0, <1>1, <1>2 DEF LoopTypes
    <3>2. copy' \in NodeInfo \cup {Absent}
      BY <1>0, AgedRecords DEF Tick, LoopTypes
    <3> QED
      BY <1>0, <3>1, <3>2 DEF Tick, LoopTypes
  <2>4. fire' \in BOOLEAN
    BY DEF Tick
  <2> QED
    BY <2>1, <2>2, <2>3, <2>4 DEF TypeOK, AgentTypes, LoopTypes, StoreTypes, Busy
<1>10. lp = "put" => copy' \in NodeInfo /\ copy'.status = copy.status /\ copy'.agent = copy.agent
  BY AgedRecords DEF Tick, LoopOK
<1>11. UNCHANGED <<lp, reply, nodeId, cond>>
  BY DEF Tick
<1>12. LoopOK'
  BY <1>2, <1>4, <1>10, <1>11 DEF LoopOK
<1>13. RoundOK'
  <2>1. \A n \in queue' : nodes'[n.id] # Absent => nodes'[n.id].status \in Polled
    BY <1>5, <1>6, <1>8 DEF RoundOK
  <2>2. \A m, n \in queue' : m.id = n.id => m = n
    BY <1>5 DEF RoundOK
  <2>3. lp' \in Busy => /\ nodes'[cur'.id] # Absent => nodes'[cur'.id].status \in Polled
                        /\ \A n \in queue' : n.id # cur'.id
    BY <1>4, <1>5, <1>6, <1>7, <1>11 DEF RoundOK
  <2> QED
    BY <2>1, <2>2, <2>3 DEF RoundOK
<1>14. IdsOK'
  <2> SUFFICES ASSUME NEW a \in Agents, nodeId[a] # NoId
               PROVE  /\ nodes'[nodeId[a]] # Absent => nodes'[nodeId[a]].agent = a
                      /\ \A n \in queue' : n.id = nodeId[a] => n.rec.agent = a
                      /\ lp \in Busy /\ cur'.id = nodeId[a] => cur'.rec.agent = a
                      /\ lp = "put" /\ cur'.id = nodeId[a] => copy'.agent = a
    BY <1>11 DEF IdsOK
  <2>1. nodeId[a] \in Ids
    BY <1>0 DEF AgentTypes
  <2>2. nodes'[nodeId[a]] # Absent => nodes'[nodeId[a]].agent = a
    BY <1>6, <2>1 DEF IdsOK
  <2>3. \A n \in queue' : n.id = nodeId[a] => n.rec.agent = a
    BY <1>5 DEF IdsOK
  <2>4. /\ lp \in Busy /\ cur'.id = nodeId[a] => cur'.rec.agent = a
        /\ lp = "put" /\ cur'.id = nodeId[a] => copy'.agent = a
    BY <1>4, <1>10 DEF IdsOK, Busy
  <2> QED
    BY <2>2, <2>3, <2>4
<1> QED
  BY <1>9, <1>12, <1>13, <1>14


(* A step of the loop writes no node record and touches no agent's id. *)
LEMMA LoopMoves ==
    ASSUME PollInv, UNCHANGED <<cond, nodeId, nodes>>,
           AgentTypes', LoopTypes', silent' \in [Ids -> Ages], fire' \in BOOLEAN,
           LoopOK', RoundOK',
           \A n \in queue' : n \in queue \/ (n.id \in Ids /\ n.rec = nodes[n.id] /\ nodes[n.id] # Absent),
           lp' \in Busy => cur' \in queue \/ (lp \in Busy /\ cur' = cur),
           lp' = "put" => cur' = cur /\ nodes[cur.id] # Absent /\ copy'.agent = nodes[cur.id].agent
    PROVE  PollInv'
<1> USE DEF PollInv
<1>1. TypeOK'
  BY TypeParts DEF TypeOK, AgentTypes, LoopTypes, StoreTypes, Busy
<1>2. IdsOK'
  <2> SUFFICES ASSUME NEW a \in Agents, nodeId[a] # NoId
               PROVE  /\ \A n \in queue' : n.id = nodeId[a] => n.rec.agent = a
                      /\ lp' \in Busy /\ cur'.id = nodeId[a] => cur'.rec.agent = a
                      /\ lp' = "put" /\ cur'.id = nodeId[a] => copy'.agent = a
    BY DEF IdsOK
  <2>1. /\ nodes[nodeId[a]] # Absent => nodes[nodeId[a]].agent = a
        /\ \A n \in queue : n.id = nodeId[a] => n.rec.agent = a
        /\ lp \in Busy /\ cur.id = nodeId[a] => cur.rec.agent = a
    BY DEF IdsOK
  <2> QED
    BY <2>1
<1> QED
  BY <1>1, <1>2

(* Every step of the loop but the write preserves the base invariant. *)
LEMMA PollLoop ==
    ASSUME PollInv,
           \/ BuildEndpoints \/ ListNodesByStatuses \/ FinishRound \/ Answered
           \/ RequestHeartbeat \/ Unreachable \/ UpdateNodeStatus \/ ReplyLost \/ ControlPlaneRestart
           \/ (\E n \in queue : CallHeartbeat(n)) \/ (\E r \in left : SyncReplica(r))
    PROVE  PollInv'
<1> USE DEF PollInv
<1>0. AgentTypes /\ LoopTypes /\ StoreTypes /\ fire \in BOOLEAN
  BY TypeParts
<1>1. \A n \in queue : n \in Listed /\ n.id \in Ids
  BY <1>0, ListedParts DEF LoopTypes
<1>2. lp \in Busy => cur \in Listed /\ cur.id \in Ids /\ cur.rec \in NodeInfo /\ cur.rec.agent \in Agents
  BY ListedParts DEF LoopOK
<1>3. CASE BuildEndpoints
  <2>1. fire' \in BOOLEAN /\ silent' \in [Ids -> Ages] /\ AgentTypes'
    <3>1. fire' \in BOOLEAN
      BY <1>3 DEF BuildEndpoints
    <3> QED
      BY <1>0, <1>3, <3>1 DEF BuildEndpoints, agentVars, AgentTypes, StoreTypes
  <2>2. LoopTypes'
    BY <1>0, <1>3 DEF BuildEndpoints, LoopTypes, Busy
  <2>3. LoopOK' /\ RoundOK' /\ lp' \notin Busy
    BY <1>3 DEF BuildEndpoints, LoopOK, RoundOK, Busy
  <2> QED
    BY <1>3, <2>1, <2>2, <2>3, LoopMoves DEF BuildEndpoints, agentVars, Busy
<1>4. CASE ListNodesByStatuses
  <2>1. silent' \in [Ids -> Ages] /\ AgentTypes'
    BY <1>0, <1>4 DEF ListNodesByStatuses, agentVars, AgentTypes, StoreTypes
  <2>2. fire' \in BOOLEAN
    BY <1>0, <1>4 DEF ListNodesByStatuses
  <2> DEFINE Entry(i) == [id |-> i, rec |-> nodes[i]]
  <2>3. /\ queue' = {Entry(i) : i \in ByStatus(Polled)}
        /\ \A i \in ByStatus(Polled) : /\ Entry(i).id = i /\ Entry(i).rec = nodes[i]
                                       /\ i \in Ids /\ nodes[i] # Absent /\ nodes[i].status \in Polled
    BY <1>4 DEF ListNodesByStatuses, ByStatus, Present, Polled
  <2>4. \A i \in ByStatus(Polled) : Entry(i) \in Listed
    BY <1>0, <2>3 DEF StoreTypes, Listed
  <2> HIDE DEF Entry
  <2>5. LoopTypes'
    BY <1>0, <1>4, <2>3, <2>4 DEF ListNodesByStatuses, LoopTypes, Busy
  <2>6. LoopOK' /\ lp' \notin Busy
    BY <1>4 DEF ListNodesByStatuses, LoopOK, Busy
  <2>7. RoundOK'
    BY <1>4, <2>3, <2>6 DEF ListNodesByStatuses, RoundOK
  <2>8. \A n \in queue' : n.id \in Ids /\ n.rec = nodes[n.id] /\ nodes[n.id] # Absent
    BY <2>3
  <2> QED
    BY <1>4, <2>1, <2>2, <2>5, <2>6, <2>7, <2>8, LoopMoves DEF ListNodesByStatuses, agentVars, Busy
<1>5. CASE FinishRound
  <2>1. silent' \in [Ids -> Ages] /\ AgentTypes'
    BY <1>0, <1>5 DEF FinishRound, agentVars, AgentTypes, StoreTypes
  <2>2. fire' \in BOOLEAN
    BY <1>0, <1>5 DEF FinishRound
  <2>3. LoopTypes'
    BY <1>0, <1>5 DEF FinishRound, LoopTypes, Busy
  <2>4. LoopOK' /\ RoundOK' /\ lp' \notin Busy
    BY <1>5 DEF FinishRound, LoopOK, RoundOK, Busy
  <2> QED
    BY <1>5, <2>1, <2>2, <2>3, <2>4, LoopMoves DEF FinishRound, agentVars, Busy
<1>6. CASE Answered
  <2>1. 0 \in Ages
    BY HeartbeatConstants DEF Ages, Cap
  <2>2. silent' \in [Ids -> Ages] /\ AgentTypes'
    BY <1>0, <1>6, <2>1 DEF Answered, agentVars, AgentTypes, StoreTypes
  <2>3. fire' \in BOOLEAN
    BY <1>0, <1>6 DEF Answered
  <2>4. LoopTypes'
    BY <1>0, <1>6 DEF Answered, LoopTypes, Busy
  <2>5. LoopOK' /\ RoundOK' /\ lp' \notin Busy
    BY <1>6 DEF Answered, LoopOK, RoundOK, Busy
  <2> QED
    BY <1>6, <2>2, <2>3, <2>4, <2>5, LoopMoves DEF Answered, agentVars, Busy
<1>7. CASE RequestHeartbeat
  <2>1. 0 \in Ages /\ cur.rec.agent \in Agents /\ eps \subseteq Replicas /\ cur.rec.assigned \subseteq Replicas
    BY <1>0, <1>2, <1>7, HeartbeatConstants DEF RequestHeartbeat, Ages, Cap, LoopTypes, Busy, NodeInfo
  <2>2. silent' \in [Ids -> Ages]
    BY <1>0, <1>7 DEF RequestHeartbeat, StoreTypes
  <2>3. age' \in [Agents -> Ages] /\ cache' \in [Agents -> SUBSET Replicas]
    BY <1>0, <1>7, <2>1 DEF RequestHeartbeat, AgentTypes
  <2>4. AgentTypes'
    BY <1>0, <1>7, <2>3 DEF RequestHeartbeat, AgentTypes
  <2>5. fire' \in BOOLEAN
    BY <1>0, <1>7 DEF RequestHeartbeat
  <2>6. LoopTypes'
    BY <1>0, <1>7, <2>1 DEF RequestHeartbeat, LoopTypes, Busy
  <2>7. reply' \in [Replicas -> {"running", "failed", "none"}]
    BY <1>0, <1>7, <2>1 DEF RequestHeartbeat, AgentTypes
  <2>8. LoopOK' /\ RoundOK'
    BY <1>2, <1>7, <2>7 DEF RequestHeartbeat, LoopOK, RoundOK, Busy
  <2> QED
    BY <1>7, <2>2, <2>4, <2>5, <2>6, <2>8, LoopMoves DEF RequestHeartbeat, Busy
<1>8. CASE Unreachable \/ ReplyLost
  <2>1. faults' \in 0..MaxFaults
    BY <1>0, <1>8, FaultCounted DEF Unreachable, ReplyLost, AgentTypes
  <2>2. silent' \in [Ids -> Ages] /\ AgentTypes'
    BY <1>0, <1>8, <2>1 DEF Unreachable, ReplyLost, agentVars, AgentTypes, StoreTypes
  <2>3. fire' \in BOOLEAN
    BY <1>0, <1>8 DEF Unreachable, ReplyLost
  <2>4. LoopTypes'
    BY <1>0, <1>8 DEF Unreachable, ReplyLost, LoopTypes, Busy
  <2>5. LoopOK' /\ RoundOK'
    BY <1>2, <1>8 DEF Unreachable, ReplyLost, LoopOK, RoundOK, Busy
  <2> QED
    BY <1>8, <2>2, <2>3, <2>4, <2>5, LoopMoves DEF Unreachable, ReplyLost, agentVars, Busy
<1>9. CASE UpdateNodeStatus
  <2>1. silent' \in [Ids -> Ages] /\ AgentTypes'
    BY <1>0, <1>9 DEF UpdateNodeStatus, agentVars, AgentTypes, StoreTypes
  <2>2. fire' \in BOOLEAN
    BY <1>0, <1>9 DEF UpdateNodeStatus
  <2> DEFINE e == nodes[cur.id]
  <2>3. \/ e = Absent /\ lp' = "next" /\ UNCHANGED copy
        \/ \E s \in {"unknown", "offline"} : e # Absent /\ lp' = "put" /\ copy' = [e EXCEPT !.status = s, !.hb = 0]
    BY <1>9 DEF UpdateNodeStatus
  <2>4. e \in NodeInfo \cup {Absent} /\ 0 \in Ages
    BY <1>0, <1>2, <1>9, HeartbeatConstants DEF UpdateNodeStatus, Busy, StoreTypes, Ages, Cap
  <2> HIDE DEF e
  <2>5. lp' = "put" => /\ e # Absent /\ copy' \in NodeInfo /\ copy'.agent = e.agent
                       /\ copy'.status \in {"unknown", "offline"}
    <3> SUFFICES ASSUME e \in NodeInfo, NEW s \in {"unknown", "offline"},
                        copy' = [e EXCEPT !.status = s, !.hb = 0]
                 PROVE  copy' \in NodeInfo /\ copy'.agent = e.agent /\ copy'.status \in {"unknown", "offline"}
      BY <2>3, <2>4
    <3> QED
      BY <2>4 DEF NodeInfo
  <2>6. LoopTypes'
    BY <1>0, <1>9, <2>3, <2>5 DEF UpdateNodeStatus, LoopTypes, Busy
  <2>7. LoopOK' /\ RoundOK'
    BY <1>2, <1>9, <2>3, <2>5 DEF UpdateNodeStatus, LoopOK, RoundOK, Busy
  <2>8. lp' = "put" => nodes[cur.id] # Absent /\ copy'.agent = nodes[cur.id].agent
    BY <2>5 DEF e
  <2> QED
    BY <1>9, <2>1, <2>2, <2>6, <2>7, <2>8, LoopMoves DEF UpdateNodeStatus, agentVars, Busy
<1>10. CASE ControlPlaneRestart
  <2>1. faults' \in 0..MaxFaults
    BY <1>10, FaultCounted DEF ControlPlaneRestart
  <2>2. silent' \in [Ids -> Ages] /\ AgentTypes'
    BY <1>0, <1>10, <2>1 DEF ControlPlaneRestart, agentVars, AgentTypes, StoreTypes
  <2>3. fire' \in BOOLEAN
    BY <1>10 DEF ControlPlaneRestart
  <2>4. LoopTypes'
    BY <1>0, <1>10 DEF ControlPlaneRestart, LoopTypes, Busy
  <2>5. LoopOK' /\ RoundOK'
    BY <1>10 DEF ControlPlaneRestart, LoopOK, RoundOK, Busy
  <2> QED
    BY <1>10, <2>2, <2>3, <2>4, <2>5, LoopMoves DEF ControlPlaneRestart, agentVars, Busy
<1>11. ASSUME NEW n \in queue, CallHeartbeat(n) PROVE PollInv'
  <2>1. silent' \in [Ids -> Ages] /\ AgentTypes'
    BY <1>0, <1>11 DEF CallHeartbeat, agentVars, AgentTypes, StoreTypes
  <2>2. fire' \in BOOLEAN
    BY <1>0, <1>11 DEF CallHeartbeat
  <2>3. LoopTypes'
    BY <1>0, <1>1, <1>11 DEF CallHeartbeat, LoopTypes, Busy
  <2>4. LoopOK' /\ RoundOK'
    BY <1>1, <1>11 DEF CallHeartbeat, LoopOK, RoundOK, Busy
  <2> QED
    BY <1>11, <2>1, <2>2, <2>3, <2>4, LoopMoves DEF CallHeartbeat, agentVars, Busy
<1>12. ASSUME NEW r \in left, SyncReplica(r) PROVE PollInv'
  <2>1. silent' \in [Ids -> Ages] /\ AgentTypes'
    BY <1>0, <1>12 DEF SyncReplica, agentVars, AgentTypes, StoreTypes
  <2>2. fire' \in BOOLEAN
    BY <1>0, <1>12 DEF SyncReplica
  <2>3. convertStringToReplicaStatus(reply[r]) \in {"running", "failed", "unknown"}
    BY <1>0, <1>12 DEF SyncReplica, LoopOK, LoopTypes, convertStringToReplicaStatus
  <2>4. LoopTypes'
    BY <1>0, <1>12, <2>3 DEF SyncReplica, LoopTypes
  <2>5. LoopOK' /\ RoundOK'
    BY <1>2, <1>12 DEF SyncReplica, LoopOK, RoundOK, Busy
  <2> QED
    BY <1>12, <2>1, <2>2, <2>4, <2>5, LoopMoves DEF SyncReplica, agentVars, Busy
<1> QED
  BY <1>3, <1>4, <1>5, <1>6, <1>7, <1>8, <1>9, <1>10, <1>11, <1>12


(* The write of a status. *)
LEMMA PollPut ==
    ASSUME PollInv, PutStatus
    PROVE  /\ PollInv' /\ cur.id \in Ids /\ copy \in NodeInfo /\ copy.status \in {"unknown", "offline"}
           /\ nodes'[cur.id] = copy /\ \A i \in Ids : i # cur.id => nodes'[i] = nodes[i]
<1> USE DEF PollInv
<1>0. AgentTypes /\ LoopTypes /\ StoreTypes /\ fire \in BOOLEAN
  BY TypeParts
<1>1. cur \in Listed /\ cur.id \in Ids /\ copy \in NodeInfo /\ copy.status \in {"unknown", "offline"}
  BY ListedParts DEF PutStatus, LoopOK, Busy
<1>2. /\ nodes'[cur.id] = copy /\ \A i \in Ids : i # cur.id => nodes'[i] = nodes[i]
      /\ lp = "put" /\ lp' = "next" /\ UNCHANGED <<agentVars, queue>>
  BY <1>0, <1>1 DEF PutStatus, StoreTypes
<1>3. TypeOK'
  <2>1. StoreTypes' /\ AgentTypes' /\ LoopTypes'
    BY <1>0, <1>1 DEF PutStatus, StoreTypes, AgentTypes, LoopTypes, agentVars
  <2>2. fire' \in BOOLEAN
    BY <1>0 DEF PutStatus
  <2> QED
    BY <2>1, <2>2 DEF TypeOK, AgentTypes, LoopTypes, StoreTypes, Busy
<1>4. LoopOK'
  BY <1>2 DEF LoopOK, Busy
<1>5. RoundOK'
  <2>1. \A n \in queue : n.id # cur.id /\ n.id \in Ids
    BY <1>0, <1>2, ListedParts DEF RoundOK, Busy, LoopTypes
  <2> QED
    BY <1>2, <2>1 DEF RoundOK, Busy
<1>6. IdsOK'
  <2>1. \A a \in Agents : nodeId[a] # NoId => nodeId[a] \in Ids
    BY <1>0 DEF AgentTypes
  <2> QED
    BY <1>2, <2>1 DEF IdsOK, Busy, agentVars
<1> QED
  BY <1>1, <1>2, <1>3, <1>4, <1>5, <1>6

(* Every step preserves the base invariant. *)
LEMMA PollStep == PollInv /\ [Next]_vars => PollInv'
<1> SUFFICES ASSUME PollInv, [Next]_vars PROVE PollInv'
  OBVIOUS
<1>1. CASE UNCHANGED vars
  <2>1. AgentTypes'
    BY <1>1, TypeParts DEF vars, agentVars, AgentTypes, PollInv
  <2>2. \A a \in Agents : nodeId'[a] = nodeId[a] /\ (cond'[a] = "off" <=> nodeId'[a] = NoId)
    BY <1>1 DEF vars, agentVars, PollInv, IdsOK
  <2> QED
    BY <1>1, <2>1, <2>2, AgentMoves DEF vars
<1>2. CASE LoopStep \/ ReplyLost \/ ControlPlaneRestart
  BY <1>2, PollLoop, PollPut DEF LoopStep
<1>3. CASE Tick
  BY <1>3, PollTick
<1>4. ASSUME NEW a \in Agents,
             \/ StartAgent(a) \/ CrashAgent(a) \/ AgentStep(a)
             \/ Partition(a) \/ Heal(a) \/ Freeze(a) \/ Thaw(a)
             \/ \E r \in Replicas : ReplicaFails(a, r)
      PROVE  PollInv'
  BY <1>4, PollStart, PollAgent, PollDeregister, PollReregister DEF AgentStep
<1> QED
  BY <1>1, <1>2, <1>3, <1>4 DEF Next

(* The base invariant holds in every reachable state. *)
LEMMA PollAlways == Spec => []PollInv
BY PollInit, PollStep, PTL DEF Spec

(* Type correctness of the heartbeat system. *)
THEOREM HeartbeatTypeCorrect == Spec => []TypeOK
<1>1. PollInv => TypeOK
  BY DEF PollInv
<1> QED
  BY <1>1, PollAlways, PTL

-----------------------------------------------------------------------------
(* How records change.                                                     *)

(* The ways in which a step changes node records: not at all, by making    *)
(* them older, deleting one, writing a status, or a registration.          *)
LEMMA RecordSteps ==
    ASSUME PollInv, [Next]_vars
    PROVE  \/ UNCHANGED nodes
           \/ Tick
           \/ \E a \in Agents : Deregister(a)
           \/ PutStatus
           \/ \E a \in Agents : StartAgent(a) \/ Reregister(a)
<1>1. ASSUME NEW a \in Agents,
             \/ CrashAgent(a) \/ CheckStale(a) \/ Partition(a) \/ Heal(a) \/ Freeze(a) \/ Thaw(a)
             \/ \E r \in Replicas : ReplicaFails(a, r)
      PROVE  UNCHANGED nodes
  BY <1>1 DEF CrashAgent, CheckStale, Partition, Heal, Freeze, Thaw, ReplicaFails
<1>2. CASE LoopStep \/ ReplyLost \/ ControlPlaneRestart
  BY <1>2 DEF LoopStep, BuildEndpoints, ListNodesByStatuses, FinishRound, Answered, RequestHeartbeat,
              Unreachable, UpdateNodeStatus, CallHeartbeat, SyncReplica, ReplyLost, ControlPlaneRestart
<1> QED
  BY <1>1, <1>2 DEF Next, AgentStep, vars

(* A step makes no node online, and takes a node that is offline nowhere   *)
(* but out of the store.                                                   *)
LEMMA StatusSteps ==
    ASSUME PollInv, [Next]_vars, NEW i \in Ids
    PROVE  /\ nodes'[i] # Absent /\ nodes'[i].status = "online" =>
                 nodes[i] # Absent /\ nodes[i].status = "online"
           /\ nodes[i] # Absent /\ nodes[i].status = "offline" =>
                 nodes'[i] = Absent \/ nodes'[i].status = "offline"
<1> USE DEF PollInv
<1>0. AgentTypes /\ LoopTypes /\ StoreTypes
  BY TypeParts
<1>1. CASE UNCHANGED nodes
  BY <1>1
<1>2. CASE Tick
  <2>1. nodes'[i] = Aged(nodes[i])
    BY <1>2 DEF Tick
  <2>2. nodes[i] \in NodeInfo \cup {Absent}
    BY <1>0 DEF StoreTypes
  <2> QED
    BY <2>1, <2>2, AgedRecords
<1>3. ASSUME NEW a \in Agents, Deregister(a), nodes' # nodes
      PROVE  nodes'[i] = Absent \/ nodes'[i] = nodes[i]
  BY <1>0, <1>3 DEF Deregister, StoreTypes
<1>4. CASE PutStatus
  <2>1. /\ nodes'[cur.id] = copy /\ \A j \in Ids : j # cur.id => nodes'[j] = nodes[j]
        /\ copy.status \in {"unknown", "offline"} /\ lp = "put"
    BY <1>4, PollPut DEF PutStatus
  <2>2. nodes[cur.id] # Absent => nodes[cur.id].status \in Polled
    BY <2>1 DEF RoundOK, Busy
  <2> QED
    BY <2>1, <2>2 DEF Polled
<1>5. ASSUME NEW a \in Agents, StartAgent(a) \/ Reregister(a)
      PROVE  nodes'[i] = nodes[i] \/ (nodes[i] = Absent /\ nodes'[i].status = "unset")
  <2>1. UNCHANGED nodes \/ \E j \in Fresh : nodes' = [nodes EXCEPT ![j] = Registered(a)]
    BY <1>5 DEF StartAgent, Reregister
  <2>2. Registered(a).status = "unset" /\ \A j \in Fresh : nodes[j] = Absent
    BY DEF Registered, Fresh
  <2> QED
    BY <1>0, <2>1, <2>2 DEF StoreTypes
<1> QED
  BY <1>1, <1>2, <1>3, <1>4, <1>5, RecordSteps

(* A node that is offline stays offline until it is deregistered.  The     *)
(* loop writes only nodes of its round, each once, and only it changes     *)
(* their status; an answer that comes late changes none.                   *)
THEOREM OfflineStays == Spec => OfflineIsFinal
<1> DEFINE Stays(i) == nodes[i] # Absent /\ nodes[i].status = "offline"
                          => nodes'[i] = Absent \/ nodes'[i].status = "offline"
<1>1. PollInv /\ [Next]_vars => [\A i \in Ids : Stays(i)]_vars
  BY StatusSteps
<1> HIDE DEF Stays
<1>2. Spec => [][\A i \in Ids : Stays(i)]_vars
  BY <1>1, PollAlways, PTL DEF Spec
<1> QED
  BY <1>2 DEF OfflineIsFinal, Stays


-----------------------------------------------------------------------------
(* The endpoint caches.                                                    *)

(* Every step keeps the caches of the nodes that are online up to date. *)
LEMMA CachesStep == PollInv /\ CachesOK /\ [Next]_vars => CachesOK'
<1> DEFINE Online == ByStatus({"online"})
<1> SUFFICES ASSUME PollInv, CachesOK, [Next]_vars, ~fire', lp' # "list", eps' # {},
                    NEW a \in Agents, nodeId'[a] \in Online'
             PROVE  \/ cache'[a] = eps'
                    \/ nodeId'[a] \in Pending' /\ ~(lp' = "reply" /\ cur'.id = nodeId'[a])
  BY DEF CachesOK
<1> USE DEF PollInv
<1>0. AgentTypes /\ LoopTypes /\ StoreTypes
  BY TypeParts
<1>1. \A i \in Ids : i \in Online' => i \in Online
  BY StatusSteps DEF ByStatus, Present
<1>2. nodeId'[a] \in Ids /\ nodeId'[a] \in Online
  BY <1>1 DEF ByStatus, Present
<1> DEFINE i == nodeId'[a]
<1> HIDE DEF Online
<1>3. nodeId[a] = i => \/ fire \/ lp = "list" \/ eps = {} \/ cache[a] = eps
                       \/ i \in Pending /\ ~(lp = "reply" /\ cur.id = i)
  BY <1>2 DEF CachesOK, Online
<1>4. CASE Tick
  BY <1>4 DEF Tick
<1>5. ASSUME UNCHANGED loopVars, nodeId'[a] = nodeId[a], cache'[a] = cache[a]
      PROVE  cache'[a] = eps' \/ (i \in Pending' /\ ~(lp' = "reply" /\ cur'.id = i))
  <2>1. Pending' = Pending
    BY <1>5 DEF loopVars, Pending
  <2> QED
    BY <1>3, <1>5, <2>1 DEF loopVars
<1>6. CASE UNCHANGED vars
  BY <1>5, <1>6 DEF vars, agentVars
<1>7. ASSUME NEW b \in Agents,
             \/ CheckStale(b) \/ Partition(b) \/ Heal(b) \/ Freeze(b) \/ Thaw(b) \/ Deregister(b)
             \/ \E r \in Replicas : ReplicaFails(b, r)
      PROVE  cache'[a] = eps' \/ (i \in Pending' /\ ~(lp' = "reply" /\ cur'.id = i))
  BY <1>5, <1>7 DEF CheckStale, Partition, Heal, Freeze, Thaw, Deregister, ReplicaFails
<1>8. ASSUME NEW b \in Agents, CrashAgent(b)
      PROVE  cache'[a] = eps' \/ (i \in Pending' /\ ~(lp' = "reply" /\ cur'.id = i))
  <2>1. b # a
    BY <1>0, <1>2, <1>8, HeartbeatConstants DEF CrashAgent, AgentTypes
  <2> QED
    BY <1>0, <1>5, <1>8, <2>1 DEF CrashAgent, AgentTypes
<1>9. ASSUME NEW b \in Agents, StartAgent(b) \/ Reregister(b)
      PROVE  cache'[a] = eps' \/ (i \in Pending' /\ ~(lp' = "reply" /\ cur'.id = i))
  <2>1. nodeId' = nodeId \/ \E j \in Fresh : nodeId' = [nodeId EXCEPT ![b] = j]
    BY <1>9 DEF StartAgent, Reregister
  <2>2. \A j \in Fresh : j \notin Online
    BY DEF Fresh, Online, ByStatus, Present
  <2>3. nodeId'[a] = nodeId[a]
    BY <1>0, <1>2, <2>1, <2>2 DEF AgentTypes
  <2> QED
    BY <1>5, <1>9, <2>3 DEF StartAgent, Reregister
<1>10. ASSUME LoopStep \/ ReplyLost \/ ControlPlaneRestart
       PROVE  cache'[a] = eps' \/ (i \in Pending' /\ ~(lp' = "reply" /\ cur'.id = i))
  <2>1. nodeId' = nodeId
    BY <1>10 DEF LoopStep, BuildEndpoints, ListNodesByStatuses, FinishRound, Answered, RequestHeartbeat,
              Unreachable, UpdateNodeStatus, PutStatus, CallHeartbeat, SyncReplica, ReplyLost,
              ControlPlaneRestart, agentVars
  <2>2. CASE BuildEndpoints \/ ControlPlaneRestart
    BY <2>2 DEF BuildEndpoints, ControlPlaneRestart
  <2>3. CASE ListNodesByStatuses
    <3>1. i \in ByStatus(Polled) /\ i \in Online
      BY <1>2 DEF Online, ByStatus, Polled
    <3>2. [id |-> i, rec |-> nodes[i]] \in queue' /\ lp' = "next"
      BY <2>3, <3>1 DEF ListNodesByStatuses, Polled
    <3>3. i \in Pending'
      BY <3>2 DEF Pending
    <3> QED
      BY <3>2, <3>3
  <2>4. CASE FinishRound
    <3>1. Pending = {}
      BY <2>4 DEF FinishRound, Pending, Busy
    <3> QED
      BY <1>3, <2>1, <2>4, <3>1 DEF FinishRound, agentVars
  <2>5. ASSUME NEW n \in queue, CallHeartbeat(n)
        PROVE  cache'[a] = eps' \/ (i \in Pending' /\ ~(lp' = "reply" /\ cur'.id = i))
    <3>1. Pending \subseteq Pending'
      BY <2>5 DEF CallHeartbeat, Pending, Busy
    <3> QED
      BY <1>3, <2>1, <2>5, <3>1 DEF CallHeartbeat, agentVars
  <2>6. CASE RequestHeartbeat
    <3>1. cur.rec.agent \in Agents /\ Pending' = Pending
      BY <2>6, ListedParts DEF RequestHeartbeat, LoopOK, Busy, Pending
    <3>2. cache'[a] = cache[a] \/ cache'[a] = eps
      BY <1>0, <2>6, <3>1 DEF RequestHeartbeat, AgentTypes
    <3>3. CASE cur.id = i
      <4>1. cur.rec.agent = a
        BY <1>2, <2>1, <2>6, <3>3, HeartbeatConstants DEF IdsOK, RequestHeartbeat, Busy
      <4> QED
        BY <1>0, <2>6, <4>1 DEF RequestHeartbeat, AgentTypes
    <3>4. CASE cur.id # i
      BY <1>3, <2>1, <2>6, <3>1, <3>2, <3>4 DEF RequestHeartbeat
    <3> QED
      BY <3>3, <3>4
  <2>7. CASE Unreachable \/ ReplyLost
    <3>1. Pending' = Pending /\ cur' = cur /\ lp' = "mark" /\ (lp = "reply" /\ cur.id = i => i \in Pending)
      BY <2>7 DEF Unreachable, ReplyLost, Pending, Busy
    <3> QED
      BY <1>3, <2>1, <2>7, <3>1 DEF Unreachable, ReplyLost, agentVars
  <2>8. ASSUME NEW r \in left, SyncReplica(r)
        PROVE  cache'[a] = eps' \/ (i \in Pending' /\ ~(lp' = "reply" /\ cur'.id = i))
    <3>1. Pending' = Pending
      BY <2>8 DEF SyncReplica, Pending
    <3> QED
      BY <1>3, <2>1, <2>8, <3>1 DEF SyncReplica, agentVars
  <2>9. CASE Answered
    <3>1. i \in Pending /\ cur.id # i => i \in Pending'
      BY <2>9 DEF Answered, Pending, Busy
    <3> QED
      BY <1>3, <2>1, <2>9, <3>1 DEF Answered, agentVars
  <2>10. CASE UpdateNodeStatus
    <3>1. CASE nodes[cur.id] = Absent
      <4>1. cur.id # i
        BY <1>2, <3>1 DEF Online, ByStatus, Present
      <4>2. i \in Pending => i \in Pending'
        BY <2>10, <4>1 DEF UpdateNodeStatus, Pending
      <4> QED
        BY <1>3, <2>1, <2>10, <3>1, <4>2 DEF UpdateNodeStatus, agentVars
    <3>2. CASE nodes[cur.id] # Absent
      <4>1. Pending' = Pending
        BY <2>10, <3>2 DEF UpdateNodeStatus, Pending, Busy
      <4> QED
        BY <1>3, <2>1, <2>10, <3>2, <4>1 DEF UpdateNodeStatus, agentVars
    <3> QED
      BY <3>1, <3>2
  <2>11. CASE PutStatus
    <3>1. nodes'[cur.id].status # "online"
      BY <2>11, PollPut
    <3>2. cur.id # i
      BY <3>1 DEF Online, ByStatus
    <3>3. i \in Pending => i \in Pending'
      BY <2>11, <3>2 DEF PutStatus, Pending
    <3> QED
      BY <1>3, <2>1, <2>11, <3>3 DEF PutStatus, agentVars
  <2> QED
    BY <1>10, <2>2, <2>3, <2>4, <2>5, <2>6, <2>7, <2>8, <2>9, <2>10, <2>11 DEF LoopStep
<1> QED
  BY <1>4, <1>6, <1>7, <1>8, <1>9, <1>10 DEF Next, AgentStep

(* Between two rounds, an agent whose node is online routes to exactly the *)
(* endpoints of the last round, if there were any.                         *)
THEOREM CachesFresh == Spec => []CacheIsFresh
<1>1. Init => CachesOK
  BY DEF Init, CachesOK
<1>2. CachesOK /\ PollInv => CacheIsFresh
  <2> SUFFICES ASSUME CachesOK, PollInv, Quiet, eps # {},
                      NEW a \in Agents, nodeId[a] \in ByStatus({"online"})
               PROVE  cache[a] = eps
    BY DEF CacheIsFresh
  <2>1. lp = "wait" /\ ~fire
    BY DEF Quiet
  <2>2. nodeId[a] \notin Pending
    BY <2>1 DEF PollInv, LoopOK, Pending, Busy
  <2> QED
    BY <2>1, <2>2 DEF CachesOK
<1> QED
  BY <1>1, <1>2, CachesStep, PollAlways, PTL DEF Spec


-----------------------------------------------------------------------------
(* Records that are left behind.                                           *)

(* An id gets at risk only by a fault, and one by each. *)
LEMMA RiskCounted ==
    ASSUME TypeOK, RiskBounded, NEW x,
           \/ AtRisk' \subseteq AtRisk /\ faults' \in {faults, faults + 1}
           \/ AtRisk' \subseteq AtRisk \cup {x} /\ faults' = faults + 1
    PROVE  RiskBounded'
<1>1. IsFiniteSet(AtRisk) /\ Cardinality(AtRisk) \in Nat /\ Cardinality(AtRisk) <= faults /\ faults \in Nat
  BY FS_CardinalityType, HeartbeatConstants DEF RiskBounded, TypeOK
<1>2. CASE AtRisk' \subseteq AtRisk /\ faults' \in {faults, faults + 1}
  <2>1. IsFiniteSet(AtRisk') /\ Cardinality(AtRisk') <= Cardinality(AtRisk) /\ Cardinality(AtRisk') \in Nat
    BY <1>1, <1>2, FS_Subset, FS_CardinalityType
  <2>2. Cardinality(AtRisk') <= faults'
    BY <1>1, <1>2, <2>1
  <2> QED
    BY <2>1, <2>2 DEF RiskBounded
<1>3. CASE AtRisk' \subseteq AtRisk \cup {x} /\ faults' = faults + 1
  <2> DEFINE S == AtRisk \cup {x}
  <2>1. IsFiniteSet(S) /\ Cardinality(S) \in Nat /\ Cardinality(S) <= Cardinality(AtRisk) + 1
    <3>1. /\ IsFiniteSet(S)
          /\ Cardinality(S) = IF x \in AtRisk THEN Cardinality(AtRisk) ELSE Cardinality(AtRisk) + 1
      BY <1>1, FS_AddElement
    <3> QED
      BY <1>1, <3>1
  <2>2. IsFiniteSet(AtRisk') /\ Cardinality(AtRisk') <= Cardinality(S) /\ Cardinality(AtRisk') \in Nat
    BY <1>3, <2>1, FS_Subset, FS_CardinalityType
  <2> HIDE DEF S
  <2>3. Cardinality(AtRisk') <= faults'
    BY <1>1, <1>3, <2>1, <2>2
  <2> QED
    BY <2>2, <2>3 DEF RiskBounded
<1> QED
  BY <1>2, <1>3

(* No record is left behind at the start. *)
LEMMA RiskInit == Init => RiskBounded
<1> SUFFICES ASSUME Init PROVE RiskBounded
  OBVIOUS
<1>1. AtRisk = {}
  <2> SUFFICES ASSUME NEW i \in AtRisk PROVE FALSE
    OBVIOUS
  <2>1. lp = "wait" /\ \A a \in Agents : cond[a] # "cut" /\ mon[a] # "reg"
    BY DEF Init
  <2>2. i \in Ids /\ nodes[i] # Absent /\ \A a \in Agents : nodeId[a] # i
    BY <2>1 DEF AtRisk
  <2>3. PICK a \in Preloaded : FirstIds[a] = i
    BY <2>2 DEF Init
  <2>4. a \in Agents /\ nodeId[a] = i
    BY <2>3, HeartbeatConstants DEF Init
  <2> QED
    BY <2>2, <2>4
<1>2. faults = 0
  BY DEF Init
<1> QED
  BY <1>1, <1>2, FS_EmptySet DEF RiskBounded

(* Faults of an agent, their end, and the check of its monitor. *)
LEMMA RiskAgent ==
    ASSUME PollInv, RiskBounded, NEW a \in Agents,
           \/ CrashAgent(a) \/ Partition(a) \/ Heal(a) \/ Freeze(a) \/ Thaw(a)
           \/ CheckStale(a) \/ \E r \in Replicas : ReplicaFails(a, r)
    PROVE  RiskBounded'
<1> USE DEF PollInv
<1>0. AgentTypes /\ \A b \in Agents : cond[b] = "off" <=> nodeId[b] = NoId
  BY TypeParts DEF IdsOK
<1>1. \A b \in Agents : cond[b] = "cut" => nodeId[b] \in Ids
  BY <1>0 DEF AgentTypes
<1>2. CASE CrashAgent(a)
  <2>1. \A b \in Agents : b # a => UNCHANGED <<nodeId[b], cond[b], mon[b]>>
    BY <1>0, <1>2 DEF CrashAgent, AgentTypes
  <2>2. nodeId'[a] = NoId /\ UNCHANGED <<nodes, lp, cur>>
    BY <1>0, <1>2 DEF CrashAgent, AgentTypes, loopVars
  <2>3. AtRisk' \subseteq AtRisk \cup {nodeId[a]}
    <3> SUFFICES ASSUME NEW i \in AtRisk', i # nodeId[a] PROVE i \in AtRisk
      OBVIOUS
    <3>1. i \in Ids /\ i # NoId
      BY HeartbeatConstants DEF AtRisk
    <3> QED
      BY <2>1, <2>2, <3>1 DEF AtRisk
  <2> QED
    BY <1>2, <2>3, RiskCounted, FaultCounted DEF CrashAgent
<1>3. CASE Partition(a)
  <2>1. \A b \in Agents : b # a => UNCHANGED <<cond[b]>>
    BY <1>0, <1>3 DEF Partition, AgentTypes
  <2>2. AtRisk' \subseteq AtRisk \cup {nodeId[a]}
    BY <1>3, <2>1 DEF Partition, AtRisk, loopVars
  <2> QED
    BY <1>3, <2>2, RiskCounted, FaultCounted DEF Partition
<1>4. CASE Heal(a) \/ Freeze(a) \/ Thaw(a)
  <2>1. \A b \in Agents : cond'[b] = "cut" => cond[b] = "cut"
    BY <1>0, <1>4 DEF Heal, Freeze, Thaw, AgentTypes
  <2>2. UNCHANGED <<nodeId, mon, nodes, lp, cur>>
    BY <1>4 DEF Heal, Freeze, Thaw, loopVars
  <2>3. AtRisk' \subseteq AtRisk
    BY <2>1, <2>2 DEF AtRisk
  <2>4. faults' \in {faults, faults + 1}
    BY <1>4, FaultCounted DEF Heal, Freeze, Thaw
  <2> QED
    BY <2>3, <2>4, RiskCounted
<1>5. CASE CheckStale(a)
  <2>1. \A b \in Agents : mon'[b] = "reg" => mon[b] = "reg"
    BY <1>0, <1>5 DEF CheckStale, AgentTypes
  <2>2. UNCHANGED <<nodeId, cond, nodes, lp, cur, faults>>
    BY <1>5 DEF CheckStale, loopVars
  <2>3. AtRisk' \subseteq AtRisk
    BY <2>1, <2>2 DEF AtRisk
  <2> QED
    BY <2>2, <2>3, RiskCounted
<1>6. ASSUME NEW r \in Replicas, ReplicaFails(a, r) PROVE RiskBounded'
  <2>1. AtRisk' \subseteq AtRisk /\ faults' = faults
    BY <1>6 DEF ReplicaFails, AtRisk, loopVars
  <2> QED
    BY <2>1, RiskCounted
<1> QED
  BY <1>2, <1>3, <1>4, <1>5, <1>6

(* A registration: the old id was at risk before if it is left behind, the *)
(* new one is only if the agent does not learn it.                         *)
LEMMA RiskRegister ==
    ASSUME PollInv, NEW a \in Agents, NEW i \in Fresh,
           nodes' = [nodes EXCEPT ![i] = Registered(a)],
           UNCHANGED loopVars,
           nodeId[a] = NoId \/ mon[a] = "reg",
           \A b \in Agents : b # a => UNCHANGED <<cond[b], mon[b]>>,
           cond'[a] \in {"off", "up"}, mon'[a] = "wait"
    PROVE  /\ nodeId' = nodeId => AtRisk' \subseteq AtRisk \cup {i}
           /\ nodeId' = [nodeId EXCEPT ![a] = i] => AtRisk' \subseteq AtRisk
<1> USE DEF PollInv
<1>0. AgentTypes /\ LoopTypes /\ StoreTypes
  BY TypeParts
<1>1. /\ i \in Ids /\ nodes[i] = Absent /\ \A b \in Agents : nodeId[b] # i
      /\ lp \in Busy => cur.id # i
  BY ListedParts DEF Fresh, LoopOK
<1>2. \A j \in Ids : j # i => nodes'[j] = nodes[j]
  BY <1>0, <1>1 DEF StoreTypes
<1>3. UNCHANGED <<lp, cur>>
  BY DEF loopVars
<1>4. ASSUME nodeId' = nodeId, NEW j \in AtRisk', j # i PROVE j \in AtRisk
  BY <1>2, <1>3, <1>4 DEF AtRisk
<1>5. ASSUME nodeId' = [nodeId EXCEPT ![a] = i], NEW j \in AtRisk' PROVE j \in AtRisk
  <2>1. nodeId'[a] = i /\ \A b \in Agents : b # a => nodeId'[b] = nodeId[b]
    BY <1>0, <1>5 DEF AgentTypes
  <2>2. j # i
    <3> SUFFICES ASSUME j = i PROVE FALSE
      OBVIOUS
    <3>1. PICK b \in Agents : /\ nodeId'[b] = i
                              /\ cond'[b] = "cut" \/ mon'[b] = "reg" \/ (lp' \in {"mark", "put"} /\ cur'.id = i)
      BY <2>1 DEF AtRisk
    <3>2. b = a
      BY <1>1, <2>1, <3>1
    <3> QED
      BY <1>1, <1>3, <3>1, <3>2 DEF Busy
  <2>3. j \in Ids /\ nodes'[j] = nodes[j]
    BY <1>2, <2>2 DEF AtRisk
  <2>4. CASE nodeId[a] = j
    <3>1. j # NoId
      BY <2>3, HeartbeatConstants
    <3>2. mon[a] = "reg"
      BY <2>4, <3>1
    <3>3. nodes[j] # Absent \/ (lp \in {"mark", "put"} /\ cur.id = j) \/ \E b \in Agents : b # a /\ nodeId[b] = j /\ cond[b] = "cut"
      BY <1>3, <2>1, <2>2, <2>3 DEF AtRisk
    <3> QED
      BY <2>3, <2>4, <3>2, <3>3 DEF AtRisk
  <2>5. CASE nodeId[a] # j
    BY <1>3, <2>1, <2>2, <2>3, <2>5 DEF AtRisk
  <2> QED
    BY <2>4, <2>5
<1> QED
  BY <1>4, <1>5


(* The monitor of an agent that does not run is at its start. *)
MonitorsOK == \A a \in Agents : cond[a] = "off" => mon[a] = "wait"

(* Every step keeps the monitors of agents that do not run where they are. *)
LEMMA MonitorsStep == TypeOK /\ MonitorsOK /\ [Next]_vars => MonitorsOK'
<1> SUFFICES ASSUME TypeOK, MonitorsOK, [Next]_vars PROVE MonitorsOK'
  OBVIOUS
<1>1. CASE LoopStep \/ ReplyLost \/ ControlPlaneRestart \/ Tick \/ UNCHANGED vars
  <2>1. UNCHANGED <<cond, mon>>
    BY <1>1 DEF LoopStep, BuildEndpoints, ListNodesByStatuses, FinishRound, Answered, RequestHeartbeat,
              Unreachable, UpdateNodeStatus, PutStatus, CallHeartbeat, SyncReplica, ReplyLost,
              ControlPlaneRestart, Tick, vars, agentVars
  <2> QED
    BY <2>1 DEF MonitorsOK
<1>2. ASSUME NEW a \in Agents,
             \/ StartAgent(a) \/ CrashAgent(a) \/ AgentStep(a)
             \/ Partition(a) \/ Heal(a) \/ Freeze(a) \/ Thaw(a)
             \/ \E r \in Replicas : ReplicaFails(a, r)
      PROVE  MonitorsOK'
  <2>1. \A b \in Agents : b # a => cond'[b] = cond[b] /\ mon'[b] = mon[b]
    BY <1>2 DEF StartAgent, CrashAgent, AgentStep, CheckStale, Deregister, Reregister,
                Partition, Heal, Freeze, Thaw, ReplicaFails, TypeOK
  <2>2. cond'[a] = "off" => mon'[a] = "wait"
    BY <1>2 DEF StartAgent, CrashAgent, AgentStep, CheckStale, Deregister, Reregister,
                Partition, Heal, Freeze, Thaw, ReplicaFails, TypeOK, MonitorsOK
  <2> QED
    BY <2>1, <2>2 DEF MonitorsOK
<1> QED
  BY <1>1, <1>2 DEF Next

(* Registrations and deregistrations. *)
LEMMA RiskStore ==
    ASSUME PollInv, MonitorsOK, RiskBounded, NEW a \in Agents,
           StartAgent(a) \/ Deregister(a) \/ Reregister(a)
    PROVE  RiskBounded'
<1> USE DEF PollInv
<1>0. AgentTypes /\ StoreTypes /\ \A b \in Agents : cond[b] = "off" <=> nodeId[b] = NoId
  BY TypeParts DEF IdsOK
<1>1. CASE StartAgent(a)
  <2>1. PICK i \in Fresh :
          /\ nodes' = [nodes EXCEPT ![i] = Registered(a)]
          /\ \/ /\ cond' = [cond EXCEPT ![a] = "up"] /\ nodeId' = [nodeId EXCEPT ![a] = i] /\ faults' = faults
             \/ Fault /\ UNCHANGED <<cond, nodeId>>
    BY <1>1 DEF StartAgent
  <2>2. /\ UNCHANGED <<mon, loopVars>> /\ nodeId[a] = NoId /\ mon[a] = "wait"
        /\ \A b \in Agents : b # a => UNCHANGED <<cond[b], mon[b]>>
        /\ cond'[a] \in {"off", "up"}
    BY <1>0, <1>1, <2>1 DEF StartAgent, AgentTypes, MonitorsOK
  <2>3. /\ nodeId' = nodeId => AtRisk' \subseteq AtRisk \cup {i}
        /\ nodeId' = [nodeId EXCEPT ![a] = i] => AtRisk' \subseteq AtRisk
    BY <2>1, <2>2, RiskRegister
  <2> QED
    BY <2>1, <2>3, RiskCounted, FaultCounted
<1>2. CASE Reregister(a)
  <2>1. /\ UNCHANGED <<cond, loopVars>> /\ mon[a] = "reg" /\ mon'[a] = "wait"
        /\ \A b \in Agents : b # a => UNCHANGED <<cond[b], mon[b]>>
    BY <1>0, <1>2 DEF Reregister, AgentTypes
  <2>2. ASSUME UNCHANGED <<nodeId, nodes>>, faults' = faults \/ Fault PROVE RiskBounded'
    <3>1. AtRisk' \subseteq AtRisk
      BY <2>1, <2>2 DEF AtRisk, loopVars
    <3> QED
      BY <2>2, <3>1, RiskCounted, FaultCounted
  <2>3. ASSUME NEW i \in Fresh, cond[a] = "up", nodes' = [nodes EXCEPT ![i] = Registered(a)],
               \/ nodeId' = [nodeId EXCEPT ![a] = i] /\ faults' = faults
               \/ Fault /\ nodeId' = nodeId
        PROVE  RiskBounded'
    <3>1. /\ nodeId' = nodeId => AtRisk' \subseteq AtRisk \cup {i}
          /\ nodeId' = [nodeId EXCEPT ![a] = i] => AtRisk' \subseteq AtRisk
      BY <2>1, <2>3, RiskRegister
    <3> QED
      BY <2>3, <3>1, RiskCounted, FaultCounted
  <2> QED
    BY <1>2, <2>2, <2>3 DEF Reregister
<1>3. CASE Deregister(a)
  <2>1. /\ UNCHANGED <<cond, nodeId, lp, cur>> /\ mon'[a] = "reg"
        /\ \A b \in Agents : b # a => mon'[b] = mon[b]
    BY <1>0, <1>3 DEF Deregister, AgentTypes, loopVars
  <2>2. CASE cond[a] = "up" /\ nodes' = [nodes EXCEPT ![nodeId[a]] = Absent] /\ faults' = faults
    <3>1. nodeId[a] \in Ids
      BY <1>0, <2>2 DEF AgentTypes
    <3>2. nodes'[nodeId[a]] = Absent /\ \A i \in Ids : i # nodeId[a] => nodes'[i] = nodes[i]
      BY <1>0, <2>2, <3>1 DEF StoreTypes
    <3>3. AtRisk' \subseteq AtRisk
      <4> SUFFICES ASSUME NEW i \in AtRisk' PROVE i \in AtRisk
        OBVIOUS
      <4>1. i \in Ids /\ (nodes'[i] # Absent => nodes[i] # Absent /\ i # nodeId[a])
        BY <3>2 DEF AtRisk
      <4> QED
        BY <2>1, <4>1 DEF AtRisk
    <3> QED
      BY <2>2, <3>3, RiskCounted
  <2>3. CASE cond[a] = "cut" /\ nodes' = nodes /\ faults' = faults
    <3>1. AtRisk' \subseteq AtRisk
      BY <2>1, <2>3 DEF AtRisk
    <3> QED
      BY <2>3, <3>1, RiskCounted
  <2>4. CASE Fault /\ nodes' = nodes
    <3>1. AtRisk' \subseteq AtRisk \cup {nodeId[a]}
      BY <2>1, <2>4 DEF AtRisk
    <3> QED
      BY <2>4, <3>1, RiskCounted, FaultCounted
  <2> QED
    BY <1>3, <2>2, <2>3, <2>4 DEF Deregister
<1> QED
  BY <1>1, <1>2, <1>3

(* The loop and the clock. *)
LEMMA RiskLoop ==
    ASSUME PollInv, RiskBounded, Tick \/ LoopStep \/ ReplyLost \/ ControlPlaneRestart
    PROVE  RiskBounded'
<1> USE DEF PollInv
<1>0. AgentTypes /\ LoopTypes /\ StoreTypes
  BY TypeParts
<1>1. UNCHANGED <<cond, nodeId, mon>>
  BY DEF LoopStep, BuildEndpoints, ListNodesByStatuses, FinishRound, Answered, RequestHeartbeat,
         Unreachable, UpdateNodeStatus, PutStatus, CallHeartbeat, SyncReplica, ReplyLost,
         ControlPlaneRestart, Tick, agentVars
<1>2. ASSUME UNCHANGED nodes, lp' \notin {"mark", "put"}, faults' = faults \/ Fault PROVE RiskBounded'
  <2>1. AtRisk' \subseteq AtRisk
    BY <1>1, <1>2 DEF AtRisk
  <2> QED
    BY <1>2, <2>1, RiskCounted, FaultCounted
<1>3. CASE \/ BuildEndpoints \/ ListNodesByStatuses \/ FinishRound \/ Answered \/ RequestHeartbeat
           \/ ControlPlaneRestart
           \/ (\E n \in queue : CallHeartbeat(n)) \/ (\E r \in left : SyncReplica(r))
  BY <1>2, <1>3 DEF BuildEndpoints, ListNodesByStatuses, FinishRound, Answered, RequestHeartbeat,
                    ControlPlaneRestart, CallHeartbeat, SyncReplica
<1>4. CASE Unreachable
  <2>1. lp = "call" /\ lp' = "mark" /\ UNCHANGED <<nodes, cur, faults>> /\ cond[cur.rec.agent] \in {"off", "cut"}
    BY <1>4 DEF Unreachable
  <2>2. \A a \in Agents : nodeId[a] \in Ids /\ nodeId[a] = cur.id => cond[a] = "cut"
    BY <2>1, HeartbeatConstants DEF IdsOK, Busy
  <2>3. AtRisk' \subseteq AtRisk
    BY <1>1, <2>1, <2>2 DEF AtRisk
  <2> QED
    BY <2>1, <2>3, RiskCounted
<1>5. CASE ReplyLost
  <2>1. lp' = "mark" /\ UNCHANGED <<nodes, cur>> /\ Fault
    BY <1>5 DEF ReplyLost
  <2>2. AtRisk' \subseteq AtRisk \cup {cur.id}
    BY <1>1, <2>1 DEF AtRisk
  <2> QED
    BY <2>1, <2>2, RiskCounted, FaultCounted
<1>6. CASE UpdateNodeStatus
  <2>1. /\ lp = "mark" /\ UNCHANGED <<nodes, cur, faults>>
        /\ lp' = "next" \/ (lp' = "put" /\ nodes[cur.id] # Absent)
    BY <1>6 DEF UpdateNodeStatus
  <2>2. AtRisk' \subseteq AtRisk
    BY <1>1, <2>1 DEF AtRisk
  <2> QED
    BY <2>1, <2>2, RiskCounted
<1>7. CASE PutStatus
  <2>1. /\ lp = "put" /\ lp' = "next" /\ UNCHANGED <<cur, faults>>
        /\ \A i \in Ids : i # cur.id => nodes'[i] = nodes[i]
    BY <1>7, PollPut DEF PutStatus
  <2>2. AtRisk' \subseteq AtRisk
    BY <1>1, <2>1 DEF AtRisk
  <2> QED
    BY <2>1, <2>2, RiskCounted
<1>8. CASE Tick
  <2>1. UNCHANGED <<lp, faults>> /\ \A i \in Ids : nodes'[i] = Absent <=> nodes[i] = Absent
    BY <1>0, <1>8, AgedRecords DEF Tick, StoreTypes
  <2>2. lp \in Busy => cur'.id = cur.id
    BY <1>8, ListedParts DEF Tick, LoopOK, Listed
  <2>3. AtRisk' \subseteq AtRisk
    BY <1>1, <2>1, <2>2 DEF AtRisk, Busy
  <2> QED
    BY <2>1, <2>3, RiskCounted
<1> QED
  BY <1>3, <1>4, <1>5, <1>6, <1>7, <1>8 DEF LoopStep

(* There are never more records of no agent than there were faults: the    *)
(* ids at risk are counted instead, which no race adds to without one.     *)
THEOREM OrphansNeedFaults == Spec => []OrphansBounded
<1>1. Init => MonitorsOK
  BY DEF Init, MonitorsOK
<1>2. PollInv /\ MonitorsOK /\ [Next]_vars => MonitorsOK'
  BY MonitorsStep DEF PollInv
<1>3. PollInv /\ MonitorsOK /\ RiskBounded /\ [Next]_vars => RiskBounded'
  <2> SUFFICES ASSUME PollInv, MonitorsOK, RiskBounded, [Next]_vars PROVE RiskBounded'
    OBVIOUS
  <2>1. CASE UNCHANGED vars
    <3>1. AtRisk' \subseteq AtRisk /\ faults' = faults
      BY <2>1 DEF vars, agentVars, loopVars, AtRisk
    <3> QED
      BY <3>1, RiskCounted DEF PollInv
  <2>2. CASE Next
    BY <2>2, RiskAgent, RiskStore, RiskLoop DEF Next, AgentStep
  <2> QED
    BY <2>1, <2>2
<1>4. PollInv /\ RiskBounded => OrphansBounded
  <2> SUFFICES ASSUME PollInv, RiskBounded PROVE Cardinality(Orphans) <= faults
    BY DEF OrphansBounded
  <2>1. Orphans \subseteq AtRisk
    BY DEF Orphans, AtRisk, Present
  <2>2. /\ IsFiniteSet(Orphans) /\ Cardinality(Orphans) <= Cardinality(AtRisk)
        /\ Cardinality(AtRisk) \in Nat /\ Cardinality(Orphans) \in Nat
    BY <2>1, FS_Subset, FS_CardinalityType DEF RiskBounded
  <2>3. faults \in Nat
    BY HeartbeatConstants DEF PollInv, TypeOK
  <2> QED
    BY <2>2, <2>3 DEF RiskBounded
<1> QED
  BY <1>1, <1>2, <1>3, <1>4, RiskInit, PollAlways, PTL DEF Spec


-----------------------------------------------------------------------------
(* Silent nodes.                                                           *)

(* Every step keeps what is known of the silence of online nodes. *)
LEMMA SilenceStep == PollInv /\ SilenceOK /\ [Next]_vars => SilenceOK'
<1> DEFINE Online == ByStatus({"online"})
<1> SUFFICES ASSUME PollInv, SilenceOK, [Next]_vars, Prompt
             PROVE  /\ lp' # "wait" => ~fire'
                    /\ \A i \in Online' :
                          /\ silent'[i] <= 1
                          /\ ~fire' /\ lp' # "list" => silent'[i] = 0 \/ i \in Pending'
  BY DEF SilenceOK
<1> USE DEF PollInv
<1>0. AgentTypes /\ LoopTypes /\ StoreTypes
  BY TypeParts
<1>1. /\ lp # "wait" => ~fire
      /\ \A i \in Online : silent[i] <= 1 /\ (~fire /\ lp # "list" => silent[i] = 0 \/ i \in Pending)
  BY DEF SilenceOK
<1>2. \A i \in Online' : i \in Online /\ i \in Ids
  BY StatusSteps DEF ByStatus, Present
<1>3. \A i \in Online : nodes[i] # Absent
  BY DEF ByStatus, Present
<1>4. \A i \in Online' : nodes'[i].status = "online"
  BY DEF ByStatus
<1>5. \A i \in Online : i \in ByStatus(Polled)
  BY DEF ByStatus, Polled
<1> DEFINE Goal == /\ lp' # "wait" => ~fire'
                   /\ \A i \in Online' :
                         /\ silent'[i] <= 1
                         /\ ~fire' /\ lp' # "list" => silent'[i] = 0 \/ i \in Pending'
<1> HIDE DEF Online
<1>6. ASSUME UNCHANGED loopVars, \A i \in Online' : silent'[i] = silent[i]
      PROVE  Goal
  <2>1. Pending' = Pending /\ UNCHANGED <<lp, fire>>
    BY <1>6 DEF loopVars, Pending
  <2> QED
    BY <1>1, <1>2, <1>6, <2>1
<1>7. CASE UNCHANGED vars
  BY <1>6, <1>7 DEF vars
<1>8. ASSUME NEW a \in Agents,
             \/ CrashAgent(a) \/ CheckStale(a) \/ Deregister(a)
             \/ Partition(a) \/ Heal(a) \/ Freeze(a) \/ Thaw(a)
             \/ \E r \in Replicas : ReplicaFails(a, r)
      PROVE  Goal
  <2>1. UNCHANGED <<loopVars, silent>>
    BY <1>8 DEF CrashAgent, CheckStale, Deregister, Partition, Heal, Freeze, Thaw, ReplicaFails
  <2> QED
    BY <1>6, <2>1
<1>9. ASSUME NEW a \in Agents, StartAgent(a) \/ Reregister(a)
      PROVE  Goal
  <2>1. UNCHANGED loopVars
    BY <1>9 DEF StartAgent, Reregister
  <2>2. silent' = silent \/ \E j \in Fresh : silent' = [silent EXCEPT ![j] = 0]
    BY <1>9 DEF StartAgent, Reregister
  <2>3. \A j \in Fresh : j \notin Online
    BY <1>3 DEF Fresh
  <2>4. \A i \in Online' : silent'[i] = silent[i]
    BY <1>0, <1>2, <2>2, <2>3 DEF StoreTypes
  <2> QED
    BY <1>6, <2>1, <2>4
<1>10. CASE Tick
  <2>1. lp = "wait" /\ ~fire /\ fire' /\ lp' = "wait"
    BY <1>10 DEF Tick
  <2>2. Pending = {}
    BY <2>1 DEF LoopOK, Pending, Busy
  <2>3. \A i \in Online' : silent'[i] = Older(0)
    BY <1>1, <1>2, <1>3, <1>10, <2>1, <2>2 DEF Tick
  <2>4. Older(0) <= 1
    BY HeartbeatConstants DEF Older, Cap
  <2> QED
    BY <2>1, <2>3, <2>4
<1>11. ASSUME LoopStep \/ ReplyLost \/ ControlPlaneRestart PROVE Goal
  <2>1. CASE BuildEndpoints \/ ControlPlaneRestart
    BY <1>1, <1>2, <2>1 DEF BuildEndpoints, ControlPlaneRestart
  <2>2. CASE ListNodesByStatuses
    <3>1. \A i \in Online : [id |-> i, rec |-> nodes[i]] \in queue'
      BY <1>5, <2>2 DEF ListNodesByStatuses, Polled
    <3>2. ASSUME NEW i \in Online PROVE i \in Pending'
      <4>1. PICK n \in queue' : n.id = i
        BY <3>1
      <4> QED
        BY <4>1 DEF Pending
    <3> QED
      BY <1>1, <1>2, <2>2, <3>2 DEF ListNodesByStatuses
  <2>3. ASSUME UNCHANGED <<fire, silent>>, lp # "wait", lp # "list", lp' # "list",
               \A i \in Online' : i \in Pending => i \in Pending'
        PROVE  Goal
    BY <1>1, <1>2, <2>3
  <2>4. CASE FinishRound
    <3>1. Pending' = Pending
      BY <2>4 DEF FinishRound, Pending, Busy
    <3> QED
      BY <2>3, <2>4, <3>1 DEF FinishRound
  <2>5. ASSUME NEW n \in queue, CallHeartbeat(n) PROVE Goal
    <3>1. Pending \subseteq Pending'
      BY <2>5 DEF CallHeartbeat, Pending, Busy
    <3> QED
      BY <2>3, <2>5, <3>1 DEF CallHeartbeat
  <2>6. CASE RequestHeartbeat \/ Unreachable \/ ReplyLost
    <3>1. Pending' = Pending
      BY <2>6 DEF RequestHeartbeat, Unreachable, ReplyLost, Pending, Busy
    <3> QED
      BY <2>3, <2>6, <3>1 DEF RequestHeartbeat, Unreachable, ReplyLost
  <2>7. ASSUME NEW r \in left, SyncReplica(r) PROVE Goal
    <3>1. Pending' = Pending
      BY <2>7 DEF SyncReplica, Pending
    <3> QED
      BY <2>3, <2>7, <3>1 DEF SyncReplica
  <2>8. CASE Answered
    <3>1. \A i \in Ids : i # cur.id => (i \in Pending => i \in Pending') /\ silent'[i] = silent[i]
      BY <1>0, <2>8 DEF Answered, Pending, StoreTypes
    <3>2. cur.id \in Ids => silent'[cur.id] = 0
      BY <1>0, <2>8 DEF Answered, StoreTypes
    <3>3. lp = "reply" /\ lp' = "next" /\ fire' = fire
      BY <2>8 DEF Answered
    <3>4. ASSUME NEW i \in Online'
          PROVE  silent'[i] <= 1 /\ (silent'[i] = 0 \/ i \in Pending')
      BY <1>1, <1>2, <3>1, <3>2, <3>3
    <3> QED
      BY <1>1, <3>3, <3>4
  <2>9. CASE UpdateNodeStatus
    <3>1. \A i \in Online' : i \in Pending => i \in Pending'
      <4>1. CASE nodes[cur.id] = Absent
        BY <1>2, <1>3, <2>9, <4>1 DEF UpdateNodeStatus, Pending
      <4>2. CASE nodes[cur.id] # Absent
        BY <2>9, <4>2 DEF UpdateNodeStatus, Pending, Busy
      <4> QED
        BY <4>1, <4>2
    <3>2. UNCHANGED <<fire, silent>> /\ lp = "mark" /\ lp' # "list"
      BY <2>9 DEF UpdateNodeStatus
    <3> QED
      BY <2>3, <3>1, <3>2
  <2>10. CASE PutStatus
    <3>1. nodes'[cur.id].status # "online"
      BY <2>10, PollPut
    <3>2. \A i \in Online' : i # cur.id
      BY <1>4, <3>1
    <3>3. \A i \in Online' : i \in Pending => i \in Pending'
      BY <2>10, <3>2 DEF PutStatus, Pending
    <3> QED
      BY <2>3, <2>10, <3>3 DEF PutStatus
  <2> QED
    BY <1>11, <2>1, <2>2, <2>4, <2>5, <2>6, <2>7, <2>8, <2>9, <2>10 DEF LoopStep
<1>12. Goal
  BY <1>7, <1>8, <1>9, <1>10, <1>11 DEF Next, AgentStep
<1> QED
  BY <1>12

(* If rounds end within an interval, the endpoints an agent gets are those *)
(* of nodes that answered in this interval or the last one.                *)
THEOREM SilentNodesLeft ==
    ASSUME Prompt
    PROVE  Spec => SilentNotAdvertised
<1> DEFINE Left == lp = "wait" /\ lp' = "list" => \A r \in eps' : \E i \in Present :
                      r \in nodes[i].assigned /\ silent[i] <= 1
<1>1. Init => SilenceOK
  BY DEF Init, SilenceOK, ByStatus, Present
<1>2. PollInv /\ SilenceOK /\ [Next]_vars => [Left]_vars
  <2> SUFFICES ASSUME PollInv, SilenceOK, Next, lp = "wait", lp' = "list", NEW r \in eps'
               PROVE  \E i \in Present : r \in nodes[i].assigned /\ silent[i] <= 1
    BY DEF vars, loopVars
  <2>1. BuildEndpoints
    <3>1. ASSUME NEW a \in Agents,
                 \/ StartAgent(a) \/ CrashAgent(a) \/ AgentStep(a)
                 \/ Partition(a) \/ Heal(a) \/ Freeze(a) \/ Thaw(a)
                 \/ \E q \in Replicas : ReplicaFails(a, q)
          PROVE  lp' = lp
      BY <3>1 DEF StartAgent, CrashAgent, AgentStep, CheckStale, Deregister, Reregister,
                  Partition, Heal, Freeze, Thaw, ReplicaFails, loopVars
    <3>2. ASSUME LoopStep \/ ReplyLost \/ ControlPlaneRestart \/ Tick PROVE BuildEndpoints
      BY <3>2 DEF LoopStep, ListNodesByStatuses, FinishRound, Answered, RequestHeartbeat,
              Unreachable, UpdateNodeStatus, PutStatus, CallHeartbeat, SyncReplica, ReplyLost,
              ControlPlaneRestart, Tick
    <3> QED
      BY <3>1, <3>2 DEF Next
  <2>2. PICK i \in ByStatus({"online"}) : r \in nodes[i].assigned
    BY <2>1 DEF BuildEndpoints
  <2>3. silent[i] <= 1 /\ i \in Present
    BY <2>2 DEF SilenceOK, ByStatus
  <2> QED
    BY <2>2, <2>3
<1> HIDE DEF Left
<1>3. Spec => [][Left]_vars
  BY <1>1, <1>2, SilenceStep, PollAlways, PTL DEF Spec
<1> QED
  BY <1>3 DEF SilentNotAdvertised, Left
=============================================================================
