------------------------------- MODULE Routing -------------------------------
(***************************************************************************)
(* Deployment and inference routing on the agents: DeployModel and         *)
(* AssignModel, the endpoint cache, HandleInfer with its one hop to a      *)
(* peer, and the weighted round robin that chooses the peer                *)
(* (internal/agent/agent.go, forward.go, balancer, api/grpc).              *)
(*                                                                         *)
(* A request is handled in legs: leg <<c, 0>> by the agent the client      *)
(* called, leg <<c, h + 1>> by the agent leg <<c, h>> forwarded it to.  A  *)
(* leg whose caller gave up runs on, as the code ignores its context.  A   *)
(* call that has ended may be followed by another one of the same client.  *)
(*                                                                         *)
(* AssignedModels is a slice appended to without a lock.  The first three  *)
(* appends of a process reallocate it (capacities 1, 2, 4), so an append   *)
(* is a read of the slice and a later write of a longer copy; a reader     *)
(* that tears the slice's words faults, which is a Crash.                  *)
(***************************************************************************)
EXTENDS Integers, Sequences, FiniteSets, FiniteSetsExt

CONSTANTS
    Agents, Models,
    Calls,       \* clients that call Infer
    Deploys,     \* DeployModel requests; each makes one replica, known by its name
    Tables,      \* endpoint tables a heartbeat may bring
    Worlds,      \* environments: who deploys, who calls and where, who is polled
                 \* with which tables, and how often agents crash (a bound)
    One          \* the weight 1.0, so that weights are integers

Endpoints == [node : Agents, weight : Nat, healthy : BOOLEAN]
NoEndpoints == [m \in Models |-> << >>]

ASSUME RoutingConstants ==
    /\ Tables \subseteq [Models -> Seq(Endpoints)]
    /\ Worlds \subseteq [deploys : SUBSET Deploys, calls : SUBSET Calls,
                         entries : SUBSET Agents, polled : SUBSET Agents,
                         tables : SUBSET Tables, crashes : Nat]
    /\ One \in Nat \ {0}
    /\ Agents # {} /\ Models # {} /\ Cardinality(Deploys) <= 3

Hops == 0..2             \* one more than a request may take
Legs == Calls \X Hops
Ended == {"idle", "ok", "err", "dead"}

VARIABLES
    world,       \* the environment of this behaviour; never changes
    up, crashes,
    assigned,    \* Agent.AssignedModels: the replicas of each agent, in order
    pools,       \* replicas with a worker pool (runway's workerRegistry)
    dpc, dat, dmodel, seen,  \* each deployment: step, agent, model, slice read
    cache,       \* Agent.endpointCache
    lb,          \* WeightedRoundRobin: currentIndex and currentWeight
    req,         \* ModelId of each call
    pc, at,      \* each leg's step in HandleInfer and its agent
    eps,         \* the healthy endpoints a leg chooses from
    rep,         \* the replica a leg found: a set of at most one
    raced,       \* history: deployments whose append overlapped another's
    cycle        \* history: picks since currentWeight was last reset, where
                 \* all were from one list

deployVars == <<assigned, dpc, dat, dmodel, seen, raced>>
legVars == <<req, pc, at, eps, rep>>
pickVars == <<lb, cycle>>
vars == <<world, up, crashes, pools, cache, deployVars, legVars, pickVars>>

NewWeightedRoundRobin == [index |-> -1, weight |-> 0]
AnAgent == CHOOSE a \in Agents : TRUE   \* where nothing is set yet
AModel == CHOOSE m \in Models : TRUE
Mixed == [eps |-> << >>, n |-> << >>]

Init ==
    /\ world \in Worlds
    /\ up = [a \in Agents |-> TRUE] /\ crashes = 0
    /\ assigned = [a \in Agents |-> << >>] /\ pools = {}
    /\ dpc = [d \in Deploys |-> "new"] /\ dat = [d \in Deploys |-> AnAgent]
    /\ dmodel = [d \in Deploys |-> AModel] /\ seen = [d \in Deploys |-> << >>]
    /\ cache = [a \in Agents |-> NoEndpoints]
    /\ lb = [a \in Agents |-> NewWeightedRoundRobin]
    /\ req = [c \in Calls |-> AModel]
    /\ pc = [l \in Legs |-> "idle"] /\ at = [l \in Legs |-> AnAgent]
    /\ eps = [l \in Legs |-> << >>] /\ rep = [l \in Legs |-> {}]
    /\ raced = {}
    /\ cycle = [a \in Agents |-> Mixed]

-----------------------------------------------------------------------------
(* DeployModel gives the replica a new UUID, so AssignModel finds no       *)
(* replica of that ID and goes on to append: it reads the slice here and   *)
(* writes it in AssignModel.                                               *)
DeployModel(d, a, m) ==
    /\ up[a] /\ dpc[d] = "new"
    /\ dpc' = [dpc EXCEPT ![d] = "append"]
    /\ dat' = [dat EXCEPT ![d] = a] /\ dmodel' = [dmodel EXCEPT ![d] = m]
    /\ seen' = [seen EXCEPT ![d] = assigned[a]]
    /\ LET others == {e \in Deploys : dpc[e] = "append" /\ dat[e] = a} IN
       raced' = IF others = {} THEN raced ELSE raced \cup others \cup {d}
    /\ UNCHANGED <<world, up, crashes, pools, cache, assigned, legVars, pickVars>>

(* Mutation: a replica of a model that is already there is replaced. *)
AppendReplaces(d) ==
    Append(SelectSeq(seen[d], LAMBDA e : dmodel[e] # dmodel[d]), d)

(* The slice as it was read, one replica longer. *)
Appended(d) == Append(seen[d], d)

AssignModel(d) ==
    /\ dpc[d] = "append" /\ dpc' = [dpc EXCEPT ![d] = "acked"]
    /\ assigned' = [assigned EXCEPT ![dat[d]] = Appended(d)]
    /\ seen' = [seen EXCEPT ![d] = << >>]
    /\ UNCHANGED <<world, up, crashes, pools, cache, dat, dmodel, raced, legVars, pickVars>>

(* A worker pool for an assigned replica.  No code of the agent starts     *)
(* one; whoever embeds the runtime does, at any time.                      *)
StartModelWorkers(d) ==
    /\ dpc[d] = "acked" /\ d \notin pools /\ pools' = pools \cup {d}
    /\ UNCHANGED <<world, up, crashes, cache, deployVars, legVars, pickVars>>

(* A heartbeat replaces the cache; models it does not name have none. *)
UpdateEndpoints(a, t) ==
    /\ up[a] /\ cache[a] # t /\ cache' = [cache EXCEPT ![a] = t]
    /\ UNCHANGED <<world, up, crashes, pools, deployVars, legVars, pickVars>>

GetEndpoints(a, m) == cache[a][m]

-----------------------------------------------------------------------------
Goto(l, p) == pc' = [pc EXCEPT ![l] = p]
PeerLeg(l) == <<l[1], l[2] + 1>>

(* Where the agent of a leg has replicas of the model that is asked for. *)
Local(l) == {i \in DOMAIN assigned[at[l]] : dmodel[assigned[at[l]][i]] = req[l[1]]}

(* A client calls Infer at an agent.  (A request without a model ID is     *)
(* refused and changes nothing.)                                           *)
Infer(c, a, m) ==
    /\ up[a] /\ \A h \in Hops : pc[<<c, h>>] \in Ended
    /\ req' = [req EXCEPT ![c] = m]
    /\ pc' = [l \in Legs |-> IF l[1] # c THEN pc[l] ELSE IF l[2] = 0 THEN "check" ELSE "idle"]
    /\ at' = [l \in Legs |-> IF l[1] # c THEN at[l] ELSE IF l[2] = 0 THEN a ELSE AnAgent]
    /\ rep' = [l \in Legs |-> IF l[1] # c THEN rep[l] ELSE {}]
    /\ UNCHANGED <<world, up, crashes, pools, cache, eps, deployVars, pickVars>>

(* Mutation: the flag of a forwarded request is not looked at. *)
NeverForwarded(l) == l[2] > 1

(* The request was forwarded to this agent. *)
IsForwarded(l) == l[2] > 0

(* HandleInfer reads AssignedModels once for whether the model is here ... *)
CheckLocal(l) ==
    /\ pc[l] = "check"
    /\ \/ Local(l) # {} /\ Goto(l, "resolve")
       \/ Local(l) = {} /\ IsForwarded(l) /\ Goto(l, "err")
       \/ Local(l) = {} /\ ~IsForwarded(l) /\ Goto(l, "route")
    /\ UNCHANGED <<world, up, crashes, pools, cache, req, at, eps, rep, deployVars, pickVars>>

(* Mutation: the first replica of the agent, of whatever model. *)
FirstAssigned(l) ==
    IF assigned[at[l]] = << >> THEN {} ELSE {Head(assigned[at[l]])}

(* The first replica of the model; none if the slice was replaced. *)
FirstReplica(l) ==
    {assigned[at[l]][i] : i \in {j \in Local(l) : \A k \in Local(l) : j <= k}}

(* ... and again for its replica. *)
ResolveReplica(l) ==
    /\ pc[l] = "resolve" /\ Goto(l, "run")
    /\ rep' = [rep EXCEPT ![l] = FirstReplica(l)]
    /\ UNCHANGED <<world, up, crashes, pools, cache, req, at, eps, deployVars, pickVars>>

(* ModelInference: an error without a pool; with one, module Runway says   *)
(* how it comes to a result or an error.  Either is the answer: peers are  *)
(* not tried.                                                              *)
RunLocal(l) ==
    /\ pc[l] = "run"
    /\ \/ rep[l] # {} /\ rep[l] \subseteq pools /\ Goto(l, "ok")
       \/ Goto(l, "err")
    /\ UNCHANGED <<world, up, crashes, pools, cache, req, at, eps, rep, deployVars, pickVars>>

FilterHealthy(s) ==
    LET healthy[i \in 0..Len(s)] ==
            IF i = 0 THEN << >>
            ELSE IF s[i].healthy THEN Append(healthy[i - 1], s[i]) ELSE healthy[i - 1]
    IN  healthy[Len(s)]

(* No endpoints, or none that is healthy, is an error. *)
Route(l) ==
    /\ pc[l] = "route"
    /\ LET s == FilterHealthy(GetEndpoints(at[l], req[l[1]])) IN
       \/ s = << >> /\ Goto(l, "err") /\ UNCHANGED eps
       \/ s # << >> /\ Goto(l, "lock") /\ eps' = [eps EXCEPT ![l] = s]
    /\ UNCHANGED <<world, up, crashes, pools, cache, req, at, rep, deployVars, pickVars>>

-----------------------------------------------------------------------------
(* Pick holds the balancer's mutex for its loop. *)
LockBalancer(l) ==
    /\ pc[l] = "lock" /\ Goto(l, "pick")
    /\ \A k \in Legs : pc[k] = "pick" => at[k] # at[l]
    /\ UNCHANGED <<world, up, crashes, pools, cache, req, at, eps, rep, deployVars, pickVars>>

MaxWeight(s) == Max({s[i].weight : i \in DOMAIN s})

(* Mutation: a level of weight zero is gone through too. *)
ResetsBelow(w, i) == i = 0 /\ w - One < 0

(* The loop wraps to the first endpoint and finds no level left below. *)
Resets(w, i) == i = 0 /\ w - One <= 0

(* currentWeight after currentIndex has moved to i. *)
NextWeight(w, i, top) ==
    IF Resets(w, i) THEN top ELSE IF i = 0 THEN w - One ELSE w

(* forwardInfer: the peer's leg starts, if there is a peer. *)
ForwardInfer(l, a) ==
    /\ pc' = [pc EXCEPT ![l] = "wait", ![PeerLeg(l)] = IF up[a] THEN "check" ELSE "dead"]
    /\ at' = [at EXCEPT ![PeerLeg(l)] = a]
    /\ eps' = [eps EXCEPT ![l] = << >>]

(* One turn of Pick's loop. *)
Pick(l) ==
    LET a == at[l]
        s == eps[l]
        i == (lb[a].index + 1) % Len(s)
        w == NextWeight(lb[a].weight, i, MaxWeight(s))
        reset == Resets(lb[a].weight, i)
        chosen == (reset /\ w = 0) \/ s[i + 1].weight >= w
        now == IF reset THEN [eps |-> s, n |-> [j \in DOMAIN s |-> 0]]
               ELSE IF cycle[a].eps = s THEN cycle[a] ELSE Mixed
    IN
    /\ pc[l] = "pick"
    /\ lb' = [lb EXCEPT ![a] = [index |-> i, weight |-> w]]
    /\ cycle' = [cycle EXCEPT ![a] =
                   IF chosen /\ now # Mixed THEN [now EXCEPT !.n[i + 1] = @ + 1] ELSE now]
    /\ \/ chosen /\ ForwardInfer(l, s[i + 1].node)
       \/ ~chosen /\ UNCHANGED <<pc, at, eps>>
    /\ UNCHANGED <<world, up, crashes, pools, cache, req, rep, deployVars>>

-----------------------------------------------------------------------------
(* The peer's response, a failure in its body included. *)
Reply(l) ==
    /\ pc[l] = "wait" /\ pc[PeerLeg(l)] \in {"ok", "err"} /\ Goto(l, pc[PeerLeg(l)])
    /\ UNCHANGED <<world, up, crashes, pools, cache, req, at, eps, rep, deployVars, pickVars>>

(* The connection breaks, or cannot be made. *)
PeerFails(l) ==
    /\ pc[l] = "wait" /\ pc[PeerLeg(l)] = "dead" /\ Goto(l, "err")
    /\ UNCHANGED <<world, up, crashes, pools, cache, req, at, eps, rep, deployVars, pickVars>>

(* Mutation: the call has no deadline. *)
NoTimeout(l) == FALSE /\ UNCHANGED vars

(* 15 s pass. *)
Timeout(l) ==
    /\ pc[l] = "wait" /\ Goto(l, "err")
    /\ UNCHANGED <<world, up, crashes, pools, cache, req, at, eps, rep, deployVars, pickVars>>

HandleInfer(l) ==
    \/ CheckLocal(l) \/ ResolveReplica(l) \/ RunLocal(l)
    \/ Route(l) \/ LockBalancer(l) \/ Pick(l) \/ Reply(l) \/ Timeout(l)

(* The process ends: what an agent knows is in memory only. *)
Crash(a) ==
    /\ up[a] /\ crashes < world.crashes /\ crashes' = crashes + 1
    /\ up' = [up EXCEPT ![a] = FALSE]
    /\ LET gone == {d \in Deploys : dat[d] = a /\ dpc[d] # "new"} IN
       /\ dpc' = [d \in Deploys |-> IF d \in gone THEN "gone" ELSE dpc[d]]
       /\ seen' = [d \in Deploys |-> IF d \in gone THEN << >> ELSE seen[d]]
       /\ pools' = pools \ gone
    /\ LET dead == {l \in Legs : at[l] = a /\ pc[l] \notin Ended} IN
       /\ pc' = [l \in Legs |-> IF l \in dead THEN "dead" ELSE pc[l]]
       /\ eps' = [l \in Legs |-> IF l \in dead THEN << >> ELSE eps[l]]
    /\ assigned' = [assigned EXCEPT ![a] = << >>] /\ cache' = [cache EXCEPT ![a] = NoEndpoints]
    /\ lb' = [lb EXCEPT ![a] = NewWeightedRoundRobin]
    /\ cycle' = [cycle EXCEPT ![a] = Mixed]
    /\ UNCHANGED <<world, dat, dmodel, raced, req, at, rep>>

(* The agent starts again, with the empty state Crash left. *)
GetAgentInfo(a) ==
    /\ ~up[a] /\ up' = [up EXCEPT ![a] = TRUE]
    /\ UNCHANGED <<world, crashes, pools, cache, deployVars, legVars, pickVars>>

Next ==
    \/ \E d \in world.deploys : \/ \E a \in Agents, m \in Models : DeployModel(d, a, m)
                                \/ AssignModel(d) \/ StartModelWorkers(d)
    \/ \E a \in Agents : Crash(a) \/ GetAgentInfo(a)
    \/ \E a \in world.polled, t \in world.tables : UpdateEndpoints(a, t)
    \/ \E c \in world.calls, a \in world.entries, m \in Models : Infer(c, a, m)
    \/ \E l \in Legs : HandleInfer(l) \/ PeerFails(l)

Spec == Init /\ [][Next]_vars

(* Goroutines run, timers fire, and Go's Mutex starves no one.  (Strong    *)
(* fairness is for the mutex; the other steps stay enabled until taken.)   *)
(* Whether a broken connection is noticed is up to the network.            *)
FairSpec == Spec /\ \A l \in Legs : SF_vars(HandleInfer(l))

-----------------------------------------------------------------------------
DeployTypes ==
    /\ assigned \in [Agents -> Seq(Deploys)] /\ seen \in [Deploys -> Seq(Deploys)]
    /\ dpc \in [Deploys -> {"new", "append", "acked", "gone"}]
    /\ dat \in [Deploys -> Agents] /\ dmodel \in [Deploys -> Models]
    /\ pools \subseteq Deploys /\ raced \subseteq Deploys

LegTypes ==
    /\ req \in [Calls -> Models] /\ at \in [Legs -> Agents]
    /\ pc \in [Legs -> Ended \cup {"check", "resolve", "run", "route", "lock", "pick", "wait"}]
    /\ eps \in [Legs -> Seq(Endpoints)] /\ rep \in [Legs -> SUBSET Deploys]

AgentTypes ==
    /\ world \in Worlds /\ up \in [Agents -> BOOLEAN] /\ crashes \in 0..world.crashes
    /\ cache \in [Agents -> Tables \cup {NoEndpoints}]
    /\ lb \in [Agents -> [index : Nat \cup {-1}, weight : Nat]]

PickersHaveEndpoints == \A l \in Legs : pc[l] \in {"lock", "pick"} <=> eps[l] # << >>

OnePicker == \A k, l \in Legs : pc[k] = "pick" /\ pc[l] = "pick" /\ at[k] = at[l] => k = l

(* The types (currentWeight is never negative), and: a leg that picks has  *)
(* endpoints to pick from, one leg at a time is in an agent's Pick.        *)
TypeOK == AgentTypes /\ DeployTypes /\ LegTypes /\ PickersHaveEndpoints /\ OnePicker

(* A request is forwarded at most once, whatever the caches say: also when *)
(* they name each other's agents, or the agent itself, for a model that    *)
(* neither has (HandleInfer, isForwarded).                                 *)
ForwardedOnce == \A c \in Calls : pc[<<c, 2>>] = "idle"

(* An inference that succeeded was made by a replica of the model it asked *)
(* for, on an agent that was told to deploy it, although AssignedModels is *)
(* read twice and may be replaced in between.                              *)
RightReplica ==
    \A l \in Legs : pc[l] = "ok" =>
        \E h \in Hops : \E d \in rep[<<l[1], h>>] :
            h >= l[2] /\ dmodel[d] = req[l[1]] /\ dat[d] = at[<<l[1], h>>]

(* A deployment that was acknowledged is in AssignedModels while the agent *)
(* runs, unless the unlocked append of another one overlapped it.          *)
LostDeploysNeedRace ==
    \A d \in Deploys \ raced : dpc[d] = "acked" =>
        \E i \in DOMAIN assigned[dat[d]] : assigned[dat[d]][i] = d

CycleEnds(a) ==
    \E l \in Legs : /\ at[l] = a /\ eps[l] = cycle[a].eps /\ Pick(l)
                    /\ Resets(lb[a].weight, lb'[a].index)

(* A full cycle of the balancer over one list picks every endpoint as      *)
(* often as its weight says, rounded up or down, from whatever position    *)
(* and level earlier lists left it at (Pick's shared cursor).              *)
SharesFollowWeights ==
    [][\A a \in Agents : cycle[a] # Mixed /\ CycleEnds(a) =>
         LET s == cycle[a].eps IN
         MaxWeight(s) > 0 =>
            \A i \in DOMAIN s : LET e == cycle[a].n[i] * One - s[i].weight IN
                -One < e /\ e < One]_vars

(* Every call of Infer returns: Pick's loop ends on every list from every  *)
(* cursor, the mutex is released, and a peer that is gone is given up.     *)
InferencesReturn ==
    \A c \in Calls : pc[<<c, 0>>] \notin Ended ~> pc[<<c, 0>>] \in Ended

(* Not checked by a run, and not so: an endpoint of weight zero is chosen  *)
(* only where all have weight zero.  A list of zeros leaves currentWeight  *)
(* at 0, and the next list may be entered past its first endpoint.         *)
ZeroWeightUnused ==
    [][\A l \in Legs : pc[l] = "pick" /\ pc'[l] = "wait" =>
         \/ eps[l][lb'[at[l]].index + 1].weight > 0
         \/ MaxWeight(eps[l]) = 0]_vars

(* Not checked by a run, and not so: a deployment that was acknowledged is *)
(* there, whatever else is being deployed.                                 *)
DeploysKept ==
    \A d \in Deploys : dpc[d] = "acked" =>
        \E i \in DOMAIN assigned[dat[d]] : assigned[dat[d]][i] = d
==============================================================================
