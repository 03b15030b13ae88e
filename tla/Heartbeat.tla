----------------------------- MODULE Heartbeat -----------------------------
(***************************************************************************)
(* Liveness monitoring: the control plane's polling loop                   *)
(* (controller/heartbeat/heartbeat.go), the agents it polls                *)
(* (agent/api/grpc/monitor.go, agent.go), and each agent's staleness       *)
(* monitor, which re-registers with the control plane                      *)
(* (agent/monitor/monitor.go, agent/api/grpc/register.go).  The node and   *)
(* replica records are in the store; a store call is atomic, a round of    *)
(* the loop is not: agents deregister, restart and answer between its      *)
(* steps, replies are lost, and the control plane crashes.                 *)
(*                                                                         *)
(* One tick is one heartbeat interval (10 s).  A time stamp is represented *)
(* by its age in ticks, which stops growing one tick past the last         *)
(* threshold any comparison uses, so that time itself is unbounded.        *)
(***************************************************************************)
EXTENDS Naturals, FiniteSets

CONSTANTS
    Agents,        \* agent hosts; a node record addresses its host
    Ids, NoId,     \* node UUIDs, and the ID of an agent that has none
    Replicas,      \* model replicas
    Hosted,        \* the replicas deployed on each agent at the start
    Preloaded,     \* agents whose node was stored as online, with its replicas
    OfflineAfter,  \* 40 s in ticks
    StaleAfter,    \* 60 s in ticks
    Prompt,        \* a round finishes within the tick it starts in
    Hangs,         \* an agent may accept a call and never answer it
    MaxFaults,     \* bound: lost messages, crashes and partitions
    Absent         \* no record, no value

Cap == StaleAfter + 1
Ages == 0..Cap
Older(t) == IF t < Cap THEN t + 1 ELSE t

NodeInfo == [status : {"unset", "online", "unknown", "offline"}, agent : Agents,
             hb : Ages, assigned : SUBSET Replicas]
Listed == [id : Ids, rec : NodeInfo]   \* a node as ListNodesByStatuses returns it

ASSUME HeartbeatConstants ==
    /\ NoId \notin Ids /\ Absent \notin NodeInfo \cup Listed
    /\ \E f \in [Agents -> Ids] : \A a, b \in Agents : a # b => f[a] # f[b]
    /\ Hosted \in [Agents -> SUBSET Replicas]
    /\ Preloaded \subseteq Agents
    /\ OfflineAfter \in Nat /\ StaleAfter \in Nat /\ OfflineAfter < StaleAfter
    /\ Prompt \in BOOLEAN /\ Hangs \in BOOLEAN /\ MaxFaults \in Nat

VARIABLES
    cond,     \* each agent: "off", "up", "cut" (partitioned) or "hung"
    nodeId,   \* Agent.ID
    age,      \* age of Agent.LastHeartbeat
    mon,      \* staleness monitor: "wait", "dereg", "reg"
    cache,    \* Agent.endpointCache: the replicas it would route to
    has,      \* Agent.AssignedModels: the status of each replica it reports
    nodes,    \* the store's "node:<id>" records
    reps,     \* the store's "replica:<id>" records: their status
    lp,       \* the loop's step
    fire,     \* a tick waits in the ticker's channel
    eps,      \* the endpoints built for this round
    queue,    \* nodes of this round still to be called
    cur,      \* the node being called, as it was listed
    reply,    \* the response to that call
    left,     \* its replicas still to be synchronised
    copy,     \* the record UpdateNodeStatus will write back
    faults,   \* faults so far
    silent    \* history: ticks since each node last answered

agentVars == <<cond, nodeId, age, mon, cache, has>>
loopVars == <<lp, fire, eps, queue, cur, reply, left, copy>>
vars == <<agentVars, nodes, reps, loopVars, faults, silent>>

Present == {i \in Ids : nodes[i] # Absent}
ByStatus(S) == {i \in Present : nodes[i].status \in S}

(* A UUID is new: nothing in the system refers to it. *)
Fresh == {i \in Ids : /\ nodes[i] = Absent
                      /\ \A a \in Agents : nodeId[a] # i
                      /\ \A n \in queue : n.id # i
                      /\ cur # Absent => cur.id # i}

Fault == faults < MaxFaults /\ faults' = faults + 1

FirstIds == CHOOSE f \in [Agents -> Ids] : \A a, b \in Agents : a # b => f[a] # f[b]

Init ==
    /\ cond = [a \in Agents |-> IF a \in Preloaded THEN "up" ELSE "off"]
    /\ nodeId = [a \in Agents |-> IF a \in Preloaded THEN FirstIds[a] ELSE NoId]
    /\ age = [a \in Agents |-> 0] /\ mon = [a \in Agents |-> "wait"]
    /\ cache = [a \in Agents |-> {}]
    /\ has = [a \in Agents |-> [r \in Replicas |->
                IF a \in Preloaded /\ r \in Hosted[a] THEN "running" ELSE "none"]]
    /\ nodes = [i \in Ids |-> IF \E a \in Preloaded : FirstIds[a] = i
                 THEN LET a == CHOOSE b \in Preloaded : FirstIds[b] = i
                      IN [status |-> "online", agent |-> a, hb |-> 0, assigned |-> Hosted[a]]
                 ELSE Absent]
    /\ reps = [r \in Replicas |-> "running"]
    /\ lp = "wait" /\ fire = TRUE /\ eps = {} /\ queue = {} /\ cur = Absent
    /\ reply = Absent /\ left = {} /\ copy = Absent
    /\ faults = 0 /\ silent = [i \in Ids |-> 0]

-----------------------------------------------------------------------------
(* The clock.  The ticker's channel holds one tick; a tick that finds it   *)
(* full is dropped.                                                        *)
Aged(rec) == IF rec = Absent THEN Absent ELSE [rec EXCEPT !.hb = Older(@)]

Tick ==
    /\ Prompt => lp = "wait" /\ ~fire
    /\ fire' = TRUE
    /\ age' = [a \in Agents |-> IF cond[a] = "off" THEN age[a] ELSE Older(age[a])]
    /\ nodes' = [i \in Ids |-> Aged(nodes[i])]
    /\ queue' = {[n EXCEPT !.rec = Aged(@)] : n \in queue}
    /\ cur' = IF cur = Absent THEN Absent ELSE [cur EXCEPT !.rec = Aged(@)]
    /\ copy' = Aged(copy)
    /\ silent' = [i \in Ids |-> IF nodes[i] = Absent THEN 0 ELSE Older(silent[i])]
    /\ UNCHANGED <<cond, nodeId, mon, cache, has, reps, lp, eps, reply, left, faults>>

-----------------------------------------------------------------------------
(* The polling loop: HandleHeartbeat.                                      *)

(* Mutation: unknown nodes are advertised as well. *)
BuildUnknown ==
    /\ lp = "wait" /\ fire
    /\ fire' = FALSE
    /\ eps' = {r \in Replicas : reps[r] = "running" /\ \E i \in ByStatus({"online", "unknown"}) : r \in nodes[i].assigned}
    /\ lp' = "list"
    /\ UNCHANGED <<agentVars, nodes, reps, queue, cur, reply, left, copy, faults, silent>>

(* buildServiceEndpoints: the running replicas of the online nodes. *)
BuildEndpoints ==
    /\ lp = "wait" /\ fire
    /\ fire' = FALSE
    /\ eps' = {r \in Replicas : reps[r] = "running" /\ \E i \in ByStatus({"online"}) : r \in nodes[i].assigned}
    /\ lp' = "list"
    /\ UNCHANGED <<agentVars, nodes, reps, queue, cur, reply, left, copy, faults, silent>>

(* Mutation: offline nodes are polled as well. *)
ListAll ==
    /\ lp = "list"
    /\ queue' = {[id |-> i, rec |-> nodes[i]] : i \in ByStatus({"online", "unknown", "offline"})}
    /\ lp' = "next"
    /\ UNCHANGED <<agentVars, nodes, reps, fire, eps, cur, reply, left, copy, faults, silent>>

ListNodesByStatuses ==
    /\ lp = "list"
    /\ queue' = {[id |-> i, rec |-> nodes[i]] : i \in ByStatus({"online", "unknown"})}
    /\ lp' = "next"
    /\ UNCHANGED <<agentVars, nodes, reps, fire, eps, cur, reply, left, copy, faults, silent>>

FinishRound ==
    /\ lp = "next" /\ queue = {}
    /\ lp' = "wait" /\ cur' = Absent /\ reply' = Absent /\ copy' = Absent /\ left' = {}
    /\ UNCHANGED <<agentVars, nodes, reps, fire, eps, queue, faults, silent>>

(* The nodes are called one after the other, without a deadline. *)
CallHeartbeat(n) ==
    /\ lp = "next" /\ n \in queue
    /\ queue' = queue \ {n} /\ cur' = n
    /\ lp' = "call"
    /\ UNCHANGED <<agentVars, nodes, reps, fire, eps, reply, left, copy, faults, silent>>

(* Mutation: the endpoints are added to the cache. *)
RequestMerges ==
    /\ lp = "call" /\ cond[cur.rec.agent] = "up"
    /\ LET a == cur.rec.agent IN
       /\ age' = [age EXCEPT ![a] = 0]
       /\ cache' = [cache EXCEPT ![a] = @ \cup eps]
       /\ reply' = has[a]
    /\ left' = cur.rec.assigned
    /\ lp' = "reply"
    /\ UNCHANGED <<cond, nodeId, mon, has, nodes, reps, fire, eps, queue, cur, copy, faults, silent>>

(* The call reaches the host the record addresses, whichever id the agent  *)
(* there has now.  RequestHeartbeat notes the time, replaces the endpoint  *)
(* cache unless the list is empty, and reports its replicas.               *)
RequestHeartbeat ==
    /\ lp = "call" /\ cond[cur.rec.agent] = "up"
    /\ LET a == cur.rec.agent IN
       /\ age' = [age EXCEPT ![a] = 0]
       /\ cache' = [cache EXCEPT ![a] = IF eps # {} THEN eps ELSE @]
       /\ reply' = has[a]
    /\ left' = cur.rec.assigned
    /\ lp' = "reply"
    /\ UNCHANGED <<cond, nodeId, mon, has, nodes, reps, fire, eps, queue, cur, copy, faults, silent>>

Unreachable ==
    /\ lp = "call" /\ cond[cur.rec.agent] \in {"off", "cut"}
    /\ left' = {} /\ lp' = "mark"
    /\ UNCHANGED <<agentVars, nodes, reps, fire, eps, queue, cur, reply, copy, faults, silent>>

ReplyLost ==
    /\ lp = "reply" /\ left = cur.rec.assigned /\ Fault
    /\ left' = {} /\ lp' = "mark"
    /\ UNCHANGED <<agentVars, nodes, reps, fire, eps, queue, cur, reply, copy, silent>>

convertStringToReplicaStatus(s) == IF s \in {"pending", "running", "failed", "unknown"} THEN s ELSE "unknown"

(* One replica of the node: GetReplicaByID, then UpdateReplicaInfo with    *)
(* the reported status, or unknown if the report leaves it out.            *)
SyncReplica(r) ==
    /\ lp = "reply" /\ r \in left
    /\ left' = left \ {r}
    /\ reps' = [reps EXCEPT ![r] = convertStringToReplicaStatus(reply[r])]
    /\ UNCHANGED <<agentVars, nodes, lp, fire, eps, queue, cur, reply, copy, faults, silent>>

Answered ==
    /\ lp = "reply" /\ left = {}
    /\ lp' = "next"
    /\ silent' = [silent EXCEPT ![cur.id] = 0]
    /\ UNCHANGED <<agentVars, nodes, reps, fire, eps, queue, cur, reply, left, copy, faults>>

(* Mutation: the update of a record that has gone is retried. *)
MarkRetry ==
    /\ lp = "mark"
    /\ LET e == nodes[cur.id]
           s == IF cur.rec.hb > OfflineAfter THEN "offline" ELSE "unknown"
       IN  IF e = Absent
           THEN UNCHANGED <<lp, copy>>
           ELSE lp' = "put" /\ copy' = [e EXCEPT !.status = s, !.hb = 0]
    /\ UNCHANGED <<agentVars, nodes, reps, fire, eps, queue, cur, reply, left, faults, silent>>

(* A failed call: offline if the LastHeartbeat of the listed record is     *)
(* more than 40 s old, unknown otherwise.  UpdateNodeStatus reads the      *)
(* record again (an error, ignored, if it has gone) ...                    *)
UpdateNodeStatus ==
    /\ lp = "mark"
    /\ LET e == nodes[cur.id]
           s == IF cur.rec.hb > OfflineAfter THEN "offline" ELSE "unknown"
       IN  IF e = Absent
           THEN lp' = "next" /\ UNCHANGED copy
           ELSE lp' = "put" /\ copy' = [e EXCEPT !.status = s, !.hb = 0]
    /\ UNCHANGED <<agentVars, nodes, reps, fire, eps, queue, cur, reply, left, faults, silent>>

(* ... and Puts the copy, with LastHeartbeat set to now. *)
PutStatus ==
    /\ lp = "put"
    /\ nodes' = [nodes EXCEPT ![cur.id] = copy]
    /\ lp' = "next"
    /\ UNCHANGED <<agentVars, reps, fire, eps, queue, cur, reply, left, copy, faults, silent>>

(* The control plane dies and starts again: the store keeps its records,   *)
(* StartHeartbeatHandler runs a first round at once.                       *)
ControlPlaneRestart ==
    /\ Fault
    /\ lp' = "wait" /\ fire' = TRUE /\ eps' = {} /\ queue' = {} /\ cur' = Absent
    /\ reply' = Absent /\ left' = {} /\ copy' = Absent
    /\ UNCHANGED <<agentVars, nodes, reps, silent>>

LoopStep ==
    \/ BuildEndpoints \/ ListNodesByStatuses \/ FinishRound \/ Answered
    \/ RequestHeartbeat \/ Unreachable \/ UpdateNodeStatus \/ PutStatus
    \/ \E n \in queue : CallHeartbeat(n)
    \/ \E r \in left : SyncReplica(r)

-----------------------------------------------------------------------------
(* The agents.                                                             *)

(* What RegisterNode stores for a registration by RPC: no status, no       *)
(* replicas, and LastHeartbeat at the zero time.                           *)
Registered(a) == [status |-> "unset", agent |-> a, hb |-> Cap, assigned |-> {}]

(* The process starts; it lives on only if its registration succeeds. *)
StartAgent(a) ==
    /\ cond[a] = "off"
    /\ \E i \in Fresh :
          /\ nodes' = [nodes EXCEPT ![i] = Registered(a)]
          /\ silent' = [silent EXCEPT ![i] = 0]
          /\ \/ /\ cond' = [cond EXCEPT ![a] = "up"]
                /\ nodeId' = [nodeId EXCEPT ![a] = i]
                /\ age' = [age EXCEPT ![a] = 0]
                /\ UNCHANGED faults
             \/ Fault /\ UNCHANGED <<cond, nodeId, age>>
    /\ UNCHANGED <<mon, cache, has, reps, loopVars>>

CrashAgent(a) ==
    /\ cond[a] # "off" /\ Fault
    /\ cond' = [cond EXCEPT ![a] = "off"] /\ nodeId' = [nodeId EXCEPT ![a] = NoId]
    /\ age' = [age EXCEPT ![a] = 0] /\ mon' = [mon EXCEPT ![a] = "wait"]
    /\ cache' = [cache EXCEPT ![a] = {}]
    /\ has' = [has EXCEPT ![a] = [r \in Replicas |-> "none"]]
    /\ UNCHANGED <<nodes, reps, loopVars, silent>>

Partition(a) ==
    /\ cond[a] = "up" /\ Fault
    /\ cond' = [cond EXCEPT ![a] = "cut"]
    /\ UNCHANGED <<nodeId, age, mon, cache, has, nodes, reps, loopVars, silent>>

Heal(a) ==
    /\ cond[a] = "cut"
    /\ cond' = [cond EXCEPT ![a] = "up"]
    /\ UNCHANGED <<nodeId, age, mon, cache, has, nodes, reps, loopVars, faults, silent>>

(* The host stops answering with its connections open (a stopped process,  *)
(* a swapping machine): neither its handlers nor its monitor run.          *)
Freeze(a) ==
    /\ Hangs /\ cond[a] = "up" /\ Fault
    /\ cond' = [cond EXCEPT ![a] = "hung"]
    /\ UNCHANGED <<nodeId, age, mon, cache, has, nodes, reps, loopVars, silent>>

Thaw(a) ==
    /\ cond[a] = "hung"
    /\ cond' = [cond EXCEPT ![a] = "up"]
    /\ UNCHANGED <<nodeId, age, mon, cache, has, nodes, reps, loopVars, faults, silent>>

ReplicaFails(a, r) ==
    /\ has[a][r] = "running"
    /\ has' = [has EXCEPT ![a][r] = "failed"]
    /\ UNCHANGED <<cond, nodeId, age, mon, cache, nodes, reps, loopVars, faults, silent>>

(* MonitorHeartbeatStaleness finds the last heartbeat older than 60 s. *)
Stale(a) == age[a] > StaleAfter

CheckStale(a) ==
    /\ cond[a] \in {"up", "cut"} /\ mon[a] = "wait" /\ Stale(a)
    /\ mon' = [mon EXCEPT ![a] = IF nodeId[a] # NoId THEN "dereg" ELSE "reg"]
    /\ UNCHANGED <<cond, nodeId, age, cache, has, nodes, reps, loopVars, faults, silent>>

(* Mutation: re-registration does not deregister the old id. *)
NoDeregister(a) ==
    /\ mon[a] = "dereg"
    /\ mon' = [mon EXCEPT ![a] = "reg"]
    /\ UNCHANGED <<cond, nodeId, age, cache, has, nodes, reps, loopVars, faults, silent>>

(* The error of a failed deregistration is ignored, whether the request or *)
(* the response was lost.                                                  *)
Deregister(a) ==
    /\ mon[a] = "dereg"
    /\ \/ /\ cond[a] = "up"
          /\ nodes' = [nodes EXCEPT ![nodeId[a]] = Absent]
          /\ UNCHANGED faults
       \/ cond[a] = "cut" /\ UNCHANGED <<nodes, faults>>
       \/ cond[a] = "up" /\ Fault /\ UNCHANGED nodes
    /\ mon' = [mon EXCEPT ![a] = "reg"]
    /\ UNCHANGED <<cond, nodeId, age, cache, has, reps, loopVars, silent>>

(* Mutation: the heartbeat timer is not reset after re-registration. *)
ReregisterNoReset(a) ==
    /\ mon[a] = "reg" /\ cond[a] = "up"
    /\ \E i \in Fresh : /\ nodes' = [nodes EXCEPT ![i] = Registered(a)]
                        /\ silent' = [silent EXCEPT ![i] = 0]
                        /\ nodeId' = [nodeId EXCEPT ![a] = i]
    /\ mon' = [mon EXCEPT ![a] = "wait"]
    /\ UNCHANGED <<cond, age, cache, has, reps, loopVars, faults>>

(* Registration under a new UUID.  On success the agent takes the new id   *)
(* and resets its timer; if only the response is lost, the record stays    *)
(* and the agent does not know its id.                                     *)
Reregister(a) ==
    /\ mon[a] = "reg"
    /\ \/ /\ cond[a] = "up"
          /\ \E i \in Fresh :
                /\ nodes' = [nodes EXCEPT ![i] = Registered(a)]
                /\ silent' = [silent EXCEPT ![i] = 0]
                /\ \/ /\ nodeId' = [nodeId EXCEPT ![a] = i]
                      /\ age' = [age EXCEPT ![a] = 0]
                      /\ UNCHANGED faults
                   \/ Fault /\ UNCHANGED <<nodeId, age>>
       \/ cond[a] = "cut" /\ UNCHANGED <<nodeId, age, nodes, faults, silent>>
       \/ cond[a] = "up" /\ Fault /\ UNCHANGED <<nodeId, age, nodes, silent>>
    /\ mon' = [mon EXCEPT ![a] = "wait"]
    /\ UNCHANGED <<cond, cache, has, reps, loopVars>>

AgentStep(a) == CheckStale(a) \/ Deregister(a) \/ Reregister(a)

-----------------------------------------------------------------------------
Next ==
    \/ Tick \/ LoopStep \/ ReplyLost \/ ControlPlaneRestart
    \/ \E a \in Agents : StartAgent(a) \/ CrashAgent(a) \/ AgentStep(a)
    \/ \E a \in Agents : Partition(a) \/ Heal(a) \/ Freeze(a) \/ Thaw(a)
    \/ \E a \in Agents, r \in Replicas : ReplicaFails(a, r)

Spec == Init /\ [][Next]_vars

(* Time passes, the loop and the monitors keep running, and partitions     *)
(* heal.                                                                   *)
FairSpec ==
    /\ Spec /\ WF_vars(Tick) /\ WF_vars(LoopStep)
    /\ \A a \in Agents : WF_vars(AgentStep(a)) /\ WF_vars(Heal(a))

-----------------------------------------------------------------------------
(* Every variable keeps its shape. *)
TypeOK ==
    /\ cond \in [Agents -> {"off", "up", "cut", "hung"}] /\ nodeId \in [Agents -> Ids \cup {NoId}]
    /\ age \in [Agents -> Ages] /\ mon \in [Agents -> {"wait", "dereg", "reg"}]
    /\ cache \in [Agents -> SUBSET Replicas]
    /\ has \in [Agents -> [Replicas -> {"running", "failed", "none"}]]
    /\ nodes \in [Ids -> NodeInfo \cup {Absent}]
    /\ reps \in [Replicas -> {"running", "failed", "unknown"}]
    /\ lp \in {"wait", "list", "next", "call", "reply", "mark", "put"} /\ fire \in BOOLEAN
    /\ eps \subseteq Replicas /\ left \subseteq Replicas
    /\ queue \subseteq Listed /\ cur \in Listed \cup {Absent}
    /\ copy \in NodeInfo \cup {Absent}
    /\ faults \in 0..MaxFaults /\ silent \in [Ids -> Ages]

Orphans == {i \in Present : \A a \in Agents : nodeId[a] # i}

(* Re-registration leaves at most one record behind per fault: an orphan   *)
(* needs a lost call, a crash or a partition of its own, however the       *)
(* monitor's deregistration races with the loop's read-modify-write.       *)
OrphansBounded == Cardinality(Orphans) <= faults

(* Between two rounds. *)
Quiet == lp = "wait" /\ ~fire

(* A node that has not answered for longer than the interval is not        *)
(* advertised: the endpoints sent to agents are those of nodes that        *)
(* answered in the last round, also when the control plane restarts or a   *)
(* reply is lost in the middle of a round.                                 *)
SilentNotAdvertised ==
    [][lp = "wait" /\ lp' = "list" => \A r \in eps' : \E i \in Present :
          r \in nodes[i].assigned /\ silent[i] <= 1]_vars

(* Once offline, a node stays offline until its record is deleted: the     *)
(* loop never writes it again, not even from a listing it made before.     *)
OfflineIsFinal ==
    [][\A i \in Ids : nodes[i] # Absent /\ nodes[i].status = "offline"
          => nodes'[i] = Absent \/ nodes'[i].status = "offline"]_vars

(* "At worst, one heartbeat interval of stale data": between two rounds,   *)
(* an agent that has answered every call so far, the last one included,    *)
(* routes to exactly the endpoints of the last round, through restarts of  *)
(* the control plane and replies that were lost; if there were any: an     *)
(* empty list leaves the cache as it was.                                  *)
CacheIsFresh ==
    Quiet /\ eps # {} =>
        \A a \in Agents : nodeId[a] \in ByStatus({"online"}) => cache[a] = eps

(* "Fail-safe recovery": an agent that is no longer polled gets a fresh    *)
(* registration, or is gone.                                               *)
StaleAgentsRecover ==
    \A a \in Agents : cond[a] \in {"up", "cut"} /\ Stale(a) ~> cond[a] \in {"off", "hung"} \/ ~Stale(a)

(* A round ends: a node that has crashed, is cut off, has deregistered or  *)
(* whose reply is lost does not keep the others from being polled.  Only   *)
(* an agent that accepts its call and never answers does, because the call *)
(* has no deadline.                                                        *)
RoundsEnd == lp # "wait" ~> lp = "wait" \/ \E a \in Agents : cond[a] = "hung"

(* "The Control Plane periodically initiates requests to each registered   *)
(* edge agent": an agent that runs and is registered is called before its  *)
(* monitor would find the last call stale.                                 *)
RegisteredIsPolled ==
    \A a \in Agents : Quiet /\ cond[a] = "up" /\ nodeId[a] \in Present => ~Stale(a)

(* "If a node responds, its status is verified as Online": when the loop   *)
(* is done with an answer, the node's record says online.                  *)
AnswerMeansOnline ==
    [][lp = "reply" /\ lp' = "next" /\ cur.id \in Present => nodes'[cur.id].status = "online"]_vars

(* "If a node fails to respond for more than 40 seconds, its status is     *)
(* transitioned to Offline": by the first round after that.                *)
SilentGoesOffline == Quiet => \A i \in ByStatus({"online", "unknown"}) : silent[i] <= OfflineAfter + 1

(* "If a node fails a single heartbeat but is within the 40s window, it is *)
(* marked as Unknown": a node that answered within 40 s is not offline.    *)
OfflineMeansSilent == \A i \in ByStatus({"offline"}) : silent[i] > OfflineAfter
=============================================================================
