--------------------------- MODULE RoutingProofs ---------------------------
(***************************************************************************)
(* Machine-checked theorems about deployment and inference routing, for    *)
(* any number of agents, models, clients and deployments, any endpoint     *)
(* tables and any weights.                                                 *)
(***************************************************************************)
EXTENDS Routing, SequenceTheorems, WellFoundedInduction, TLAPS

-----------------------------------------------------------------------------
(* Induction over the natural numbers, for sets.                           *)

Less == {x \in Nat \X Nat : x[1] < x[2]}

(* Every non-empty set of natural numbers has a least element. *)
LEMMA LeastElement ==
    ASSUME NEW T \in SUBSET Nat, T # {}
    PROVE  \E m \in T : \A k \in T : m <= k
<1>1. IsWellFoundedOn(Less, Nat)
  BY NatLessThanWellFounded, Zenon DEF OpToRel, Less
<1>2. PICK m \in T : \A k \in T : <<k, m>> \notin Less
  BY <1>1, WFMin
<1>3. \A k \in T : ~(k < m)
  <2> SUFFICES ASSUME NEW k \in T, k < m PROVE FALSE
    OBVIOUS
  <2>1. <<k, m>> \in Nat \X Nat /\ <<k, m>>[1] < <<k, m>>[2]
    OBVIOUS
  <2> QED
    BY <1>2, <2>1 DEF Less
<1> QED
  BY <1>3

(* A set that has 0 and with every number the next one has all of them. *)
LEMMA SetInduction ==
    ASSUME NEW S, 0 \in S, \A k \in Nat : k \in S => k + 1 \in S
    PROVE  Nat \subseteq S
<1> DEFINE T == Nat \ S
<1> SUFFICES ASSUME T # {} PROVE FALSE
  OBVIOUS
<1>1. PICK m \in T : \A k \in T : m <= k
  <2>1. T \in SUBSET Nat
    OBVIOUS
  <2> QED
    BY <2>1, LeastElement
<1>2. m # 0 /\ m - 1 \in Nat /\ m - 1 \notin T
  BY <1>1
<1>3. (m - 1) + 1 = m
  BY <1>1
<1> QED
  BY <1>1, <1>2, <1>3

-----------------------------------------------------------------------------
(* The balancer's operators.                                               *)

(* FilterHealthy makes a list of endpoints from a list of endpoints. *)
LEMMA FilteredLists ==
    ASSUME NEW s \in Seq(Endpoints)
    PROVE  FilterHealthy(s) \in Seq(Endpoints)
<1> DEFINE n == Len(s)
           Step(f, i) == IF i = 0 THEN << >>
                         ELSE IF s[i].healthy THEN Append(f[i - 1], s[i]) ELSE f[i - 1]
           Loops(k) == \E f : f = [i \in 0..k |-> Step(f, i)]
           F == CHOOSE f : f = [i \in 0..n |-> Step(f, i)]
<1>1. FilterHealthy(s) = F[n]
  BY Zenon DEF FilterHealthy
<1>2. n \in Nat /\ \A i \in 1..n : s[i] \in Endpoints
  OBVIOUS
<1>3. /\ \A f : Step(f, 0) = << >>
      /\ \A f, g : \A i \in Nat : i = 0 \/ f[i - 1] = g[i - 1] => Step(f, i) = Step(g, i)
      /\ \A f : \A i \in 1..n : f[i - 1] \in Seq(Endpoints) => Step(f, i) \in Seq(Endpoints)
  BY <1>2
<1> HIDE DEF n, Step
<1>4. Loops(n)
  <2> DEFINE S == {k \in Nat : Loops(k)}
  <2>1. 0 \in S
    <3> DEFINE g == [i \in 0..0 |-> << >>]
    <3>1. \A i \in 0..0 : g[i] = Step(g, i)
      BY <1>3
    <3>2. g = [i \in 0..0 |-> Step(g, i)]
      BY <3>1
    <3> HIDE DEF g
    <3>3. Loops(0)
      BY <3>2, Zenon
    <3> QED
      BY <3>3
  <2>2. ASSUME NEW k \in Nat, k \in S PROVE k + 1 \in S
    <3>1. PICK f : f = [i \in 0..k |-> Step(f, i)]
      BY <2>2, Zenon
    <3> DEFINE g == [i \in 0..(k + 1) |-> IF i \in 0..k THEN f[i] ELSE Step(f, i)]
    <3>2. \A i \in 0..k : f[i] = Step(f, i)
      BY <3>1, Zenon
    <3>3. \A i \in 0..(k + 1) : g[i] = Step(f, i)
      BY <3>2, Zenon
    <3>4. \A i \in 0..k : g[i] = f[i]
      OBVIOUS
    <3>5. \A i \in 0..(k + 1) : i \in Nat /\ (i = 0 \/ i - 1 \in 0..k)
      OBVIOUS
    <3>6. \A i \in 0..(k + 1) : g[i] = Step(g, i)
      <4> HIDE DEF g
      <4> QED
        BY <1>3, <3>3, <3>4, <3>5, Zenon
    <3>7. g = [i \in 0..(k + 1) |-> g[i]]
      BY Zenon
    <3> HIDE DEF g
    <3>8. g = [i \in 0..(k + 1) |-> Step(g, i)]
      BY <3>6, <3>7
    <3>9. Loops(k + 1)
      BY <3>8, Zenon
    <3> HIDE DEF Loops
    <3> QED
      BY <3>9
  <2> HIDE DEF S
  <2>3. Nat \subseteq S
    BY <2>1, <2>2, SetInduction
  <2> QED
    BY <1>2, <2>3 DEF S
<1>5. F = [i \in 0..n |-> Step(F, i)]
  BY <1>4, Zenon
<1> HIDE DEF F
<1>6. \A i \in 0..n : F[i] = Step(F, i)
  BY <1>5, Zenon
<1>7. n \in {k \in Nat : k <= n => F[k] \in Seq(Endpoints)}
  <2> DEFINE S == {k \in Nat : k <= n => F[k] \in Seq(Endpoints)}
  <2>1. 0 \in S
    <3>1. 0 \in 0..n /\ << >> \in Seq(Endpoints)
      BY <1>2
    <3>2. F[0] = << >>
      BY <1>3, <1>6, <3>1, Zenon
    <3> QED
      BY <3>1, <3>2
  <2>2. ASSUME NEW k \in Nat, k \in S PROVE k + 1 \in S
    <3> SUFFICES ASSUME k + 1 <= n PROVE F[k + 1] \in Seq(Endpoints)
      OBVIOUS
    <3>1. F[k] \in Seq(Endpoints) /\ k + 1 \in 0..n /\ k + 1 \in 1..n /\ (k + 1) - 1 = k
      BY <1>2, <2>2
    <3>2. F[k + 1] = Step(F, k + 1)
      BY <1>6, <3>1
    <3> QED
      BY <1>3, <3>1, <3>2
  <2> HIDE DEF S
  <2>3. Nat \subseteq S
    BY <2>1, <2>2, SetInduction
  <2> QED
    BY <1>2, <2>3 DEF S
<1> QED
  BY <1>1, <1>2, <1>7

(* MaxWeight is a weight of the list, and the largest one. *)
LEMMA LargestWeight ==
    ASSUME NEW s \in Seq(Endpoints), s # << >>
    PROVE  /\ MaxWeight(s) \in Nat /\ \A i \in DOMAIN s : s[i].weight <= MaxWeight(s)
           /\ \E i \in DOMAIN s : s[i].weight = MaxWeight(s)
<1> DEFINE n == Len(s)
           W == {s[i].weight : i \in DOMAIN s}
           Bounds(b, k) == \A i \in 1..k : i <= n => s[i].weight <= b
<1>1. n \in Nat /\ n >= 1 /\ DOMAIN s = 1..n /\ \A i \in 1..n : s[i].weight \in Nat
  <2>1. \A i \in 1..n : s[i] \in Endpoints
    OBVIOUS
  <2>2. n \in Nat /\ DOMAIN s = 1..n /\ n # 0
    BY EmptySeq
  <2> QED
    BY <2>1, <2>2 DEF Endpoints
<1>2. \E b \in Nat : Bounds(b, n)
  <2> DEFINE S == {k \in Nat : \E b \in Nat : Bounds(b, k)}
  <2>1. 0 \in S
    OBVIOUS
  <2>2. ASSUME NEW k \in Nat, k \in S PROVE k + 1 \in S
    <3>1. PICK b \in Nat : Bounds(b, k)
      BY <2>2
    <3>2. CASE k + 1 <= n
      <4> DEFINE c == IF b <= s[k + 1].weight THEN s[k + 1].weight ELSE b
      <4>1. c \in Nat /\ b <= c /\ s[k + 1].weight <= c
        BY <1>1, <3>2
      <4>2. Bounds(c, k + 1)
        <5> SUFFICES ASSUME NEW i \in 1..(k + 1), i <= n PROVE s[i].weight <= c
          OBVIOUS
        <5>1. i = k + 1 \/ (i \in 1..k /\ s[i].weight <= b /\ s[i].weight \in Nat)
          BY <1>1, <3>1
        <5> HIDE DEF c
        <5> QED
          BY <4>1, <5>1
      <4> HIDE DEF c, Bounds
      <4> QED
        BY <4>1, <4>2
    <3>3. CASE ~(k + 1 <= n)
      <4>1. Bounds(b, k + 1)
        BY <1>1, <3>1, <3>3
      <4> QED
        BY <4>1
    <3> QED
      BY <3>2, <3>3
  <2> HIDE DEF S
  <2>3. Nat \subseteq S
    BY <2>1, <2>2, SetInduction
  <2> QED
    BY <1>1, <2>3 DEF S
<1>3. PICK b \in Nat : /\ \A x \in W : x <= b
                       /\ \A c \in Nat : (\A x \in W : x <= c) => b <= c
  <2> DEFINE U == {c \in Nat : \A x \in W : x <= c}
  <2>1. U \in SUBSET Nat /\ U # {}
    <3>1. PICK c \in Nat : Bounds(c, n)
      BY <1>2
    <3>2. \A i \in 1..n : s[i].weight <= c
      BY <1>1, <3>1
    <3>3. c \in U
      BY <1>1, <3>2
    <3> QED
      BY <3>3
  <2>2. PICK m \in U : \A k \in U : m <= k
    BY <2>1, LeastElement
  <2> QED
    BY <2>2
<1>4. W \subseteq Nat /\ W # {}
  BY <1>1
<1> HIDE DEF W
<1>5. b \in W
  <2> SUFFICES ASSUME b \notin W PROVE FALSE
    OBVIOUS
  <2>1. \A x \in W : x <= b - 1
    BY <1>3, <1>4
  <2>2. b - 1 \in Nat
    <3>1. PICK x \in W : x \in Nat /\ x <= b - 1
      BY <1>4, <2>1
    <3> QED
      BY <1>3, <3>1
  <2>3. b <= b - 1
    BY <1>3, <2>1, <2>2
  <2> QED
    BY <2>3
<1>6. Max(W) \in W /\ \A x \in W : Max(W) >= x
  <2>1. \E x \in W : \A y \in W : x >= y
    BY <1>3, <1>4, <1>5
  <2> QED
    BY <2>1 DEF Max
<1>7. MaxWeight(s) = Max(W)
  BY DEF MaxWeight, W
<1>8. MaxWeight(s) \in Nat /\ MaxWeight(s) \in W /\ \A x \in W : x <= MaxWeight(s)
  BY <1>4, <1>6, <1>7
<1> QED
  BY <1>1, <1>8 DEF W

-----------------------------------------------------------------------------
(* The legs of a request.                                                  *)

(* Before its agent has answered or forwarded the request. *)
Early == {"check", "resolve", "run", "route", "lock", "pick"}

(* Only the first agent routes a request, the second one gets it only when *)
(* it was forwarded, and there is no third.                                *)
HopsOK ==
    \A l \in Legs :
        /\ pc[l] \in {"route", "lock", "pick", "wait"} => l[2] = 0
        /\ l[2] = 2 => pc[l] = "idle"
        /\ l[2] = 0 /\ pc[l] \in Early => pc[PeerLeg(l)] = "idle"

BaseInv == TypeOK /\ HopsOK

Steps == Ended \cup {"check", "resolve", "run", "route", "lock", "pick", "wait"}

(* A leg is a call and a hop; the peer of a first leg is a leg. *)
LEMMA LegPairs ==
    /\ \A l \in Legs : l[1] \in Calls /\ l[2] \in {0, 1, 2}
    /\ \A k, l \in Legs : k[1] = l[1] /\ k[2] = l[2] => k = l
    /\ \A l \in Legs : l[2] \in {0, 1} =>
          PeerLeg(l) \in Legs /\ PeerLeg(l) # l /\ PeerLeg(l)[1] = l[1] /\ PeerLeg(l)[2] = l[2] + 1
    /\ \A c \in Calls, h \in {0, 1, 2} : <<c, h>> \in Legs
<1>1. Hops = {0, 1, 2}
  BY DEF Hops
<1> QED
  BY <1>1 DEF Legs, PeerLeg

(* The tables have lists of endpoints. *)
LEMMA CachedLists ==
    ASSUME AgentTypes, NEW a \in Agents, NEW m \in Models
    PROVE  GetEndpoints(a, m) \in Seq(Endpoints)
<1>1. << >> \in Seq(Endpoints)
  OBVIOUS
<1>2. NoEndpoints \in [Models -> Seq(Endpoints)]
  BY <1>1 DEF NoEndpoints
<1>3. cache[a] \in [Models -> Seq(Endpoints)]
  BY <1>2, RoutingConstants DEF AgentTypes
<1> QED
  BY <1>3 DEF GetEndpoints

(* No request, no deployment. *)
LEMMA BaseInit == Init => BaseInv
<1> SUFFICES ASSUME Init PROVE BaseInv
  OBVIOUS
<1>1. AnAgent \in Agents /\ AModel \in Models
  BY RoutingConstants DEF AnAgent, AModel
<1>2. << >> \in Seq(Deploys) /\ << >> \in Seq(Endpoints)
  OBVIOUS
<1>3. DeployTypes
  BY <1>1, <1>2 DEF Init, DeployTypes
<1>4. LegTypes
  BY <1>1, <1>2 DEF Init, LegTypes, Ended
<1>5. AgentTypes
  <2>1. up \in [Agents -> BOOLEAN] /\ cache \in [Agents -> Tables \cup {NoEndpoints}]
    BY DEF Init
  <2>2. crashes \in 0..world.crashes /\ world \in Worlds
    BY RoutingConstants DEF Init
  <2>3. lb \in [Agents -> [index : Nat \cup {-1}, weight : Nat]]
    BY DEF Init, NewWeightedRoundRobin
  <2> QED
    BY <2>1, <2>2, <2>3 DEF AgentTypes
<1>6. \A l \in Legs : pc[l] = "idle" /\ eps[l] = << >>
  BY DEF Init
<1> QED
  BY <1>3, <1>4, <1>5, <1>6, LegPairs DEF BaseInv, TypeOK, HopsOK, PickersHaveEndpoints, OnePicker, Early

(* A step of a leg that is under way, from one point of HandleInfer to     *)
(* another, preserves the base invariant.                                  *)
LEMMA Moves ==
    ASSUME BaseInv, NEW l \in Legs, NEW p \in Steps, Goto(l, p), pc[l] # "idle",
           UNCHANGED <<world, up, crashes, pools, cache, req, at, eps, deployVars, pickVars>>,
           rep' \in [Legs -> SUBSET Deploys],
           p \in {"lock", "pick"} <=> pc[l] \in {"lock", "pick"},
           p = "pick" => \A k \in Legs : pc[k] = "pick" => at[k] # at[l],
           p \in {"route", "lock", "pick", "wait"} => l[2] = 0,
           p \in Early => pc[l] \in Early
    PROVE  BaseInv'
<1> USE DEF BaseInv, TypeOK, deployVars, pickVars
<1>1. pc'[l] = p /\ \A k \in Legs : k # l => pc'[k] = pc[k]
  BY DEF Goto, LegTypes
<1>2. AgentTypes' /\ DeployTypes'
  BY DEF AgentTypes, DeployTypes
<1>3. LegTypes'
  BY DEF Goto, LegTypes, Steps
<1>4. PickersHaveEndpoints'
  BY <1>1 DEF PickersHaveEndpoints
<1>5. OnePicker'
  BY <1>1 DEF OnePicker
<1>6. HopsOK'
  BY <1>1, LegPairs DEF HopsOK
<1> QED
  BY <1>2, <1>3, <1>4, <1>5, <1>6

(* Every step of HandleInfer preserves the base invariant. *)
LEMMA BaseLegStep ==
    ASSUME BaseInv, NEW l \in Legs, HandleInfer(l) \/ PeerFails(l)
    PROVE  BaseInv'
<1> USE RoutingConstants DEF BaseInv, TypeOK
<1>0. l[1] \in Calls /\ l[2] \in {0, 1, 2} /\ at[l] \in Agents /\ req[l[1]] \in Models
  BY LegPairs DEF LegTypes
<1>1. ASSUME CheckLocal(l) PROVE BaseInv'
  <2>1. PICK p \in {"resolve", "err", "route"} : Goto(l, p) /\ (p = "route" => ~IsForwarded(l))
    BY <1>1 DEF CheckLocal
  <2>2. p \in Steps /\ (p = "route" => l[2] = 0) /\ pc[l] = "check"
    BY <1>0, <1>1, <2>1 DEF CheckLocal, IsForwarded, Steps, Ended
  <2>3. rep' \in [Legs -> SUBSET Deploys]
    BY <1>1 DEF CheckLocal, LegTypes
  <2> QED
    BY <1>1, <2>1, <2>2, <2>3, Moves DEF CheckLocal, Early
<1>2. ASSUME ResolveReplica(l) PROVE BaseInv'
  <2>1. FirstReplica(l) \in SUBSET Deploys
    <3>1. \A i \in DOMAIN assigned[at[l]] : assigned[at[l]][i] \in Deploys
      BY <1>0 DEF DeployTypes
    <3> QED
      BY <3>1 DEF FirstReplica, Local
  <2>2. rep' \in [Legs -> SUBSET Deploys]
    BY <1>2, <2>1 DEF ResolveReplica, LegTypes
  <2> QED
    BY <1>2, <2>2, Moves DEF ResolveReplica, Early, Steps
<1>3. ASSUME RunLocal(l) PROVE BaseInv'
  <2>1. PICK p \in {"ok", "err"} : Goto(l, p)
    BY <1>3 DEF RunLocal
  <2>2. rep' \in [Legs -> SUBSET Deploys]
    BY <1>3 DEF RunLocal, LegTypes
  <2> QED
    BY <1>3, <2>1, <2>2, Moves DEF RunLocal, Early, Steps, Ended
<1>4. ASSUME Route(l) PROVE BaseInv'
  <2> DEFINE s == FilterHealthy(GetEndpoints(at[l], req[l[1]]))
  <2>1. s \in Seq(Endpoints)
    BY <1>0, CachedLists, FilteredLists
  <2>2. CASE s = << >> /\ Goto(l, "err") /\ UNCHANGED eps
    <3>1. rep' \in [Legs -> SUBSET Deploys]
      BY <1>4 DEF Route, LegTypes
    <3> QED
      BY <1>4, <2>2, <3>1, Moves DEF Route, Early, Steps, Ended
  <2>3. CASE s # << >> /\ Goto(l, "lock") /\ eps' = [eps EXCEPT ![l] = s]
    <3> HIDE DEF s
    <3>1. /\ pc'[l] = "lock" /\ eps'[l] = s /\ pc[l] = "route"
          /\ \A k \in Legs : k # l => pc'[k] = pc[k] /\ eps'[k] = eps[k]
      BY <1>4, <2>3 DEF Route, Goto, LegTypes
    <3>2. AgentTypes' /\ DeployTypes'
      BY <1>4 DEF Route, AgentTypes, DeployTypes, deployVars, pickVars
    <3>3. LegTypes'
      BY <1>4, <2>1, <2>3 DEF Route, Goto, LegTypes
    <3>4. PickersHaveEndpoints'
      BY <2>3, <3>1 DEF PickersHaveEndpoints
    <3>5. OnePicker'
      BY <1>4, <3>1 DEF Route, OnePicker
    <3>6. HopsOK'
      BY <1>4, <3>1, LegPairs DEF Route, HopsOK, Early
    <3> QED
      BY <3>2, <3>3, <3>4, <3>5, <3>6
  <2> QED
    BY <1>4, <2>2, <2>3 DEF Route
<1>5. ASSUME LockBalancer(l) PROVE BaseInv'
  <2>1. l[2] = 0
    BY <1>5 DEF LockBalancer, HopsOK
  <2>2. rep' \in [Legs -> SUBSET Deploys]
    BY <1>5 DEF LockBalancer, LegTypes
  <2> QED
    BY <1>5, <2>1, <2>2, Moves DEF LockBalancer, Early, Steps
<1>6. ASSUME Pick(l) PROVE BaseInv'
  <2> DEFINE a == at[l]
             s == eps[l]
             i == (lb[a].index + 1) % Len(s)
             w == NextWeight(lb[a].weight, i, MaxWeight(s))
  <2>1. s \in Seq(Endpoints) /\ s # << >> /\ Len(s) \in Nat \ {0} /\ l[2] = 0 /\ pc[l] = "pick"
    <3>1. s \in Seq(Endpoints) /\ s # << >> /\ l[2] = 0 /\ pc[l] = "pick"
      BY <1>6 DEF Pick, LegTypes, PickersHaveEndpoints, HopsOK
    <3> QED
      BY <3>1, EmptySeq
  <2>2. lb[a].index \in Nat \cup {-1} /\ lb[a].weight \in Nat /\ One \in Nat
    BY <1>0 DEF AgentTypes
  <2>3. i \in 0..(Len(s) - 1) /\ i \in Nat
    <3>1. lb[a].index + 1 \in Nat
      BY <2>2
    <3> QED
      BY <2>1, <3>1
  <2>4. w \in Nat
    <3>1. MaxWeight(s) \in Nat
      BY <2>1, LargestWeight
    <3> HIDE DEF a, s, i
    <3> QED
      BY <2>2, <3>1 DEF NextWeight, Resets
  <2>5. s[i + 1].node \in Agents
    <3>1. s[i + 1] \in Endpoints
      BY <2>1, <2>3
    <3> QED
      BY <3>1 DEF Endpoints
  <2>6. lb' = [lb EXCEPT ![a] = [index |-> i, weight |-> w]]
    BY <1>6 DEF Pick
  <2> HIDE DEF i, w
  <2>7. AgentTypes'
    <3>1. lb' \in [Agents -> [index : Nat \cup {-1}, weight : Nat]]
      BY <2>3, <2>4, <2>6 DEF AgentTypes
    <3> QED
      BY <1>6, <3>1 DEF Pick, AgentTypes
  <2>8. DeployTypes'
    BY <1>6 DEF Pick, DeployTypes, deployVars
  <2>9. CASE UNCHANGED <<pc, at, eps>>
    BY <1>6, <2>7, <2>8, <2>9 DEF Pick, LegTypes, PickersHaveEndpoints, OnePicker, HopsOK
  <2>10. CASE ForwardInfer(l, s[i + 1].node)
    <3> DEFINE q == PeerLeg(l)
    <3>1. q \in Legs /\ q # l /\ q[2] = 1 /\ q[1] = l[1] /\ pc[q] = "idle"
      BY <2>1, LegPairs DEF HopsOK, Early
    <3>2. eps[q] = << >>
      BY <3>1 DEF PickersHaveEndpoints
    <3> HIDE DEF q
    <3>3. /\ pc'[l] = "wait" /\ pc'[q] \in {"check", "dead"} /\ eps'[l] = << >> /\ eps'[q] = << >>
          /\ \A k \in Legs : k # l => eps'[k] = eps[k]
          /\ \A k \in Legs : k # l /\ k # q => pc'[k] = pc[k]
          /\ \A k \in Legs : k # q => at'[k] = at[k]
      BY <2>10, <3>1, <3>2 DEF ForwardInfer, LegTypes, q
    <3>4. LegTypes'
      <4>1. << >> \in Seq(Endpoints)
        OBVIOUS
      <4>2. at' \in [Legs -> Agents] /\ eps' \in [Legs -> Seq(Endpoints)]
        BY <2>5, <2>10, <4>1 DEF ForwardInfer, LegTypes
      <4>3. pc' \in [Legs -> Steps]
        BY <2>10 DEF ForwardInfer, LegTypes, Steps, Ended
      <4> QED
        BY <1>6, <4>2, <4>3 DEF Pick, LegTypes, Steps
    <3>5. PickersHaveEndpoints'
      BY <3>1, <3>3 DEF PickersHaveEndpoints
    <3>6. OnePicker'
      BY <3>1, <3>3 DEF OnePicker
    <3>7. HopsOK'
      <4> SUFFICES ASSUME NEW k \in Legs
                   PROVE  /\ pc'[k] \in {"route", "lock", "pick", "wait"} => k[2] = 0
                          /\ k[2] = 2 => pc'[k] = "idle"
                          /\ k[2] = 0 /\ pc'[k] \in Early => pc'[PeerLeg(k)] = "idle"
        BY DEF HopsOK
      <4>1. CASE k = l
        BY <2>1, <3>3, <4>1 DEF Early
      <4>2. CASE k = q
        BY <3>1, <3>3, <4>2
      <4>3. CASE k # l /\ k # q
        <5>1. pc'[k] = pc[k]
          BY <3>3, <4>3
        <5>2. ASSUME k[2] = 0, pc[k] \in Early PROVE pc'[PeerLeg(k)] = "idle"
          <6> DEFINE r == PeerLeg(k)
          <6>1. r \in Legs /\ r[1] = k[1] /\ r[2] = 1 /\ k[1] # l[1]
            BY <2>1, <4>3, <5>2, LegPairs
          <6>2. pc[r] = "idle"
            BY <5>2 DEF HopsOK
          <6> HIDE DEF r
          <6>3. r # l /\ r # q
            BY <2>1, <3>1, <6>1
          <6>4. pc'[r] = "idle"
            BY <3>3, <6>1, <6>2, <6>3
          <6> QED
            BY <6>4 DEF r
        <5> QED
          BY <5>1, <5>2 DEF HopsOK
      <4> QED
        BY <4>1, <4>2, <4>3
    <3> QED
      BY <2>7, <2>8, <3>4, <3>5, <3>6, <3>7
  <2> QED
    BY <1>6, <2>9, <2>10 DEF Pick, i
<1>7. ASSUME Reply(l) \/ PeerFails(l) \/ Timeout(l) PROVE BaseInv'
  <2>1. PICK p \in {"ok", "err"} : Goto(l, p)
    BY <1>7 DEF Reply, PeerFails, Timeout
  <2>2. /\ UNCHANGED <<world, up, crashes, pools, cache, req, at, eps, rep, deployVars, pickVars>>
        /\ pc[l] = "wait"
    BY <1>7 DEF Reply, PeerFails, Timeout
  <2>3. rep' \in [Legs -> SUBSET Deploys]
    BY <2>2 DEF LegTypes
  <2> QED
    BY <2>1, <2>2, <2>3, Moves DEF Early, Steps, Ended
<1> QED
  BY <1>1, <1>2, <1>3, <1>4, <1>5, <1>6, <1>7 DEF HandleInfer


(* What the environments hold. *)
LEMMA WorldParts ==
    ASSUME AgentTypes
    PROVE  /\ world.deploys \subseteq Deploys /\ world.calls \subseteq Calls
           /\ world.entries \subseteq Agents /\ world.polled \subseteq Agents
           /\ world.tables \subseteq Tables /\ world.crashes \in Nat
BY RoutingConstants DEF AgentTypes

(* The steps of a deployment and of the endpoint cache, and a restart,     *)
(* touch no leg.                                                           *)
LEMMA BaseAgentStep ==
    ASSUME BaseInv, UNCHANGED <<world, crashes, legVars, pickVars>>,
           DeployTypes', up' \in [Agents -> BOOLEAN],
           cache' \in [Agents -> Tables \cup {NoEndpoints}]
    PROVE  BaseInv'
<1> USE DEF BaseInv, TypeOK, legVars, pickVars
<1>1. AgentTypes'
  BY DEF AgentTypes
<1>2. LegTypes' /\ PickersHaveEndpoints' /\ OnePicker' /\ HopsOK'
  BY DEF LegTypes, PickersHaveEndpoints, OnePicker, HopsOK
<1> QED
  BY <1>1, <1>2

(* A call of Infer starts the first leg of a client that is not waiting. *)
LEMMA BaseInfer ==
    ASSUME BaseInv, NEW c \in Calls, NEW a \in Agents, NEW m \in Models, Infer(c, a, m)
    PROVE  BaseInv'
<1> USE DEF BaseInv, TypeOK
<1>1. AnAgent \in Agents
  BY RoutingConstants DEF AnAgent
<1>2. \A l \in Legs : /\ l[1] # c => pc'[l] = pc[l] /\ at'[l] = at[l]
                      /\ l[1] = c => pc'[l] = IF l[2] = 0 THEN "check" ELSE "idle"
                      /\ l[1] = c => pc[l] \in Ended
                      /\ eps'[l] = eps[l]
  <2>1. \A l \in Legs : l[1] = c => pc[l] \in Ended
    BY DEF Infer, Legs
  <2> QED
    BY <2>1 DEF Infer
<1>3. AgentTypes' /\ DeployTypes'
  BY DEF Infer, AgentTypes, DeployTypes, deployVars, pickVars
<1>4. LegTypes'
  <2>1. req' \in [Calls -> Models] /\ eps' \in [Legs -> Seq(Endpoints)]
    BY DEF Infer, LegTypes
  <2>2. at' \in [Legs -> Agents]
    BY <1>1 DEF Infer, LegTypes
  <2>3. pc' \in [Legs -> Steps] /\ rep' \in [Legs -> SUBSET Deploys]
    BY DEF Infer, LegTypes, Steps, Ended
  <2> QED
    BY <2>1, <2>2, <2>3 DEF LegTypes, Steps
<1>5. PickersHaveEndpoints'
  BY <1>2 DEF PickersHaveEndpoints, Ended
<1>6. OnePicker'
  BY <1>2 DEF OnePicker
<1>7. HopsOK'
  <2> SUFFICES ASSUME NEW k \in Legs
               PROVE  /\ pc'[k] \in {"route", "lock", "pick", "wait"} => k[2] = 0
                      /\ k[2] = 2 => pc'[k] = "idle"
                      /\ k[2] = 0 /\ pc'[k] \in Early => pc'[PeerLeg(k)] = "idle"
    BY DEF HopsOK
  <2>1. k[2] = 0 => PeerLeg(k) \in Legs /\ PeerLeg(k)[1] = k[1] /\ PeerLeg(k)[2] = 1
    BY LegPairs
  <2>2. CASE k[1] = c
    BY <1>2, <2>1, <2>2
  <2>3. CASE k[1] # c
    BY <1>2, <2>1, <2>3 DEF HopsOK
  <2> QED
    BY <2>2, <2>3
<1> QED
  BY <1>3, <1>4, <1>5, <1>6, <1>7

(* A crash ends the legs of its agent. *)
LEMMA BaseCrash ==
    ASSUME BaseInv, NEW a \in Agents, Crash(a)
    PROVE  BaseInv'
<1> USE DEF BaseInv, TypeOK
<1>1. << >> \in Seq(Deploys) /\ << >> \in Seq(Endpoints)
  OBVIOUS
<1>2. \A l \in Legs : \/ pc'[l] = "dead" /\ eps'[l] = << >> /\ pc[l] \notin Ended
                      \/ pc'[l] = pc[l] /\ eps'[l] = eps[l]
  BY DEF Crash
<1>3. AgentTypes'
  <2>1. up' \in [Agents -> BOOLEAN]
    BY DEF Crash, AgentTypes
  <2>2. crashes' \in 0..world'.crashes /\ world' \in Worlds
    BY WorldParts DEF Crash, AgentTypes
  <2>3. cache' \in [Agents -> Tables \cup {NoEndpoints}]
    BY DEF Crash, AgentTypes
  <2>4. lb' \in [Agents -> [index : Nat \cup {-1}, weight : Nat]]
    BY DEF Crash, AgentTypes, NewWeightedRoundRobin
  <2> QED
    BY <2>1, <2>2, <2>3, <2>4 DEF AgentTypes
<1>4. DeployTypes'
  BY <1>1 DEF Crash, DeployTypes
<1>5. LegTypes'
  <2>1. pc' \in [Legs -> Steps]
    BY DEF Crash, LegTypes, Steps, Ended
  <2>2. eps' \in [Legs -> Seq(Endpoints)]
    BY <1>1 DEF Crash, LegTypes
  <2> QED
    BY <2>1, <2>2 DEF Crash, LegTypes, Steps
<1>6. PickersHaveEndpoints'
  BY <1>2 DEF PickersHaveEndpoints
<1>7. OnePicker'
  BY <1>2 DEF Crash, OnePicker
<1>8. HopsOK'
  <2> SUFFICES ASSUME NEW k \in Legs
               PROVE  /\ pc'[k] \in {"route", "lock", "pick", "wait"} => k[2] = 0
                      /\ k[2] = 2 => pc'[k] = "idle"
                      /\ k[2] = 0 /\ pc'[k] \in Early => pc'[PeerLeg(k)] = "idle"
    BY DEF HopsOK
  <2>1. k[2] = 0 => PeerLeg(k) \in Legs
    BY LegPairs
  <2> QED
    BY <1>2, <2>1 DEF HopsOK, Early, Ended
<1> QED
  BY <1>3, <1>4, <1>5, <1>6, <1>7, <1>8

(* Every step preserves the base invariant. *)
LEMMA BaseStep == BaseInv /\ [Next]_vars => BaseInv'
<1> SUFFICES ASSUME BaseInv, [Next]_vars PROVE BaseInv'
  OBVIOUS
<1> USE DEF BaseInv, TypeOK
<1>1. ASSUME NEW d \in Deploys, NEW a \in Agents, NEW m \in Models, DeployModel(d, a, m)
      PROVE  BaseInv'
  <2>1. DeployTypes'
    BY <1>1 DEF DeployModel, DeployTypes
  <2>2. up' \in [Agents -> BOOLEAN] /\ cache' \in [Agents -> Tables \cup {NoEndpoints}]
    BY <1>1 DEF DeployModel, AgentTypes
  <2> QED
    BY <1>1, <2>1, <2>2, BaseAgentStep DEF DeployModel
<1>2. ASSUME NEW d \in Deploys, AssignModel(d) PROVE BaseInv'
  <2>1. DeployTypes'
    <3>1. Appended(d) \in Seq(Deploys) /\ << >> \in Seq(Deploys)
      BY DEF DeployTypes, Appended
    <3> QED
      BY <1>2, <3>1 DEF AssignModel, DeployTypes
  <2>2. up' \in [Agents -> BOOLEAN] /\ cache' \in [Agents -> Tables \cup {NoEndpoints}]
    BY <1>2 DEF AssignModel, AgentTypes
  <2> QED
    BY <1>2, <2>1, <2>2, BaseAgentStep DEF AssignModel
<1>3. ASSUME NEW d \in Deploys, StartModelWorkers(d) PROVE BaseInv'
  <2>1. DeployTypes'
    BY <1>3 DEF StartModelWorkers, DeployTypes, deployVars
  <2>2. up' \in [Agents -> BOOLEAN] /\ cache' \in [Agents -> Tables \cup {NoEndpoints}]
    BY <1>3 DEF StartModelWorkers, AgentTypes
  <2> QED
    BY <1>3, <2>1, <2>2, BaseAgentStep DEF StartModelWorkers
<1>4. ASSUME NEW a \in Agents, NEW t \in Tables, UpdateEndpoints(a, t) PROVE BaseInv'
  <2>1. DeployTypes'
    BY <1>4 DEF UpdateEndpoints, DeployTypes, deployVars
  <2>2. up' \in [Agents -> BOOLEAN] /\ cache' \in [Agents -> Tables \cup {NoEndpoints}]
    BY <1>4 DEF UpdateEndpoints, AgentTypes
  <2> QED
    BY <1>4, <2>1, <2>2, BaseAgentStep DEF UpdateEndpoints
<1>5. ASSUME NEW a \in Agents, GetAgentInfo(a) PROVE BaseInv'
  <2>1. DeployTypes'
    BY <1>5 DEF GetAgentInfo, DeployTypes, deployVars
  <2>2. up' \in [Agents -> BOOLEAN] /\ cache' \in [Agents -> Tables \cup {NoEndpoints}]
    BY <1>5 DEF GetAgentInfo, AgentTypes
  <2> QED
    BY <1>5, <2>1, <2>2, BaseAgentStep DEF GetAgentInfo
<1>6. CASE UNCHANGED vars
  <2>1. DeployTypes'
    BY <1>6 DEF vars, DeployTypes, deployVars
  <2>2. up' \in [Agents -> BOOLEAN] /\ cache' \in [Agents -> Tables \cup {NoEndpoints}]
    BY <1>6 DEF vars, AgentTypes
  <2> QED
    BY <1>6, <2>1, <2>2, BaseAgentStep DEF vars
<1> QED
  BY <1>1, <1>2, <1>3, <1>4, <1>5, <1>6, WorldParts, BaseInfer, BaseCrash, BaseLegStep DEF Next

(* The base invariant holds in every reachable state. *)
LEMMA BaseAlways == Spec => []BaseInv
BY BaseInit, BaseStep, PTL DEF Spec

(* Type correctness; an agent's balancer is used by one request at a time, *)
(* with a weight that is never negative, and on a list that has endpoints. *)
THEOREM RoutingTypeCorrect == Spec => []TypeOK
<1>1. BaseInv => TypeOK
  BY DEF BaseInv
<1> QED
  BY <1>1, BaseAlways, PTL

(* A request is forwarded at most once, whatever the endpoint caches of    *)
(* any number of agents say.                                               *)
THEOREM OneHop == Spec => []ForwardedOnce
<1>1. BaseInv => ForwardedOnce
  <2>1. \A c \in Calls : <<c, 2>> \in Legs /\ <<c, 2>>[2] = 2
    BY LegPairs
  <2> QED
    BY <2>1 DEF BaseInv, HopsOK, ForwardedOnce
<1> QED
  BY <1>1, BaseAlways, PTL


-----------------------------------------------------------------------------
(* The unlocked append to AssignedModels.                                  *)

(* A slice has the acknowledged replicas of its agent. *)
SlicesOK ==
    /\ \A a \in Agents : \A i \in DOMAIN assigned[a] :
          dat[assigned[a][i]] = a /\ dpc[assigned[a][i]] = "acked"
    /\ \A e \in Deploys : \A i \in DOMAIN seen[e] :
          /\ dat[seen[e][i]] = dat[e] /\ dpc[seen[e][i]] = "acked" /\ dpc[e] = "append"

(* Two appends that are under way at an agent overlap, and one that is     *)
(* under way has read every replica that it may not lose.                  *)
AppendsOK ==
    /\ \A d, e \in Deploys :
          d # e /\ dpc[d] = "append" /\ dpc[e] = "append" /\ dat[d] = dat[e] => d \in raced
    /\ \A e \in Deploys, d \in Deploys \ raced :
          dpc[e] = "append" /\ dpc[d] = "acked" /\ dat[d] = dat[e] =>
             \E i \in DOMAIN seen[e] : seen[e][i] = d

DeployInv == BaseInv /\ SlicesOK /\ AppendsOK /\ LostDeploysNeedRace

(* No deployment, nothing assigned. *)
LEMMA DeployInit == Init => DeployInv
<1> SUFFICES ASSUME Init PROVE DeployInv
  OBVIOUS
<1>1. /\ \A a \in Agents : DOMAIN assigned[a] = {}
      /\ \A d \in Deploys : DOMAIN seen[d] = {} /\ dpc[d] = "new"
  BY DEF Init
<1> QED
  BY <1>1, BaseInit DEF DeployInv, SlicesOK, AppendsOK, LostDeploysNeedRace

(* DeployModel reads the slice. *)
LEMMA DeployBegins ==
    ASSUME DeployInv, NEW d \in Deploys, NEW a \in Agents, NEW m \in Models, DeployModel(d, a, m)
    PROVE  SlicesOK' /\ AppendsOK' /\ LostDeploysNeedRace'
<1> USE DEF DeployInv, BaseInv, TypeOK
<1>1. /\ dpc[d] = "new" /\ dpc'[d] = "append" /\ dat'[d] = a /\ seen'[d] = assigned[a]
      /\ \A e \in Deploys : e # d => dpc'[e] = dpc[e] /\ dat'[e] = dat[e] /\ seen'[e] = seen[e]
      /\ assigned' = assigned
      /\ raced \subseteq raced'
  BY DEF DeployModel, DeployTypes
<1>2. \A e \in Deploys : dpc[e] = "append" /\ dat[e] = a => e \in raced' /\ d \in raced'
  BY DEF DeployModel
<1>3. /\ \A b \in Agents : \A i \in DOMAIN assigned[b] : assigned[b][i] \in Deploys
      /\ \A e \in Deploys : \A i \in DOMAIN seen[e] : seen[e][i] \in Deploys
  BY DEF DeployTypes
<1>4. SlicesOK'
  <2>1. \A b \in Agents : \A i \in DOMAIN assigned'[b] :
            dat'[assigned'[b][i]] = b /\ dpc'[assigned'[b][i]] = "acked"
    BY <1>1, <1>3 DEF SlicesOK
  <2>2. ASSUME NEW e \in Deploys, NEW i \in DOMAIN seen'[e]
        PROVE  dat'[seen'[e][i]] = dat'[e] /\ dpc'[seen'[e][i]] = "acked" /\ dpc'[e] = "append"
    <3>1. CASE e = d
      BY <1>1, <1>3, <3>1 DEF SlicesOK
    <3>2. CASE e # d
      BY <1>1, <1>3, <2>2, <3>2 DEF SlicesOK
    <3> QED
      BY <3>1, <3>2
  <2> QED
    BY <2>1, <2>2 DEF SlicesOK
<1>5. AppendsOK'
  <2>1. ASSUME NEW e \in Deploys, NEW f \in Deploys, e # f,
               dpc'[e] = "append", dpc'[f] = "append", dat'[e] = dat'[f]
        PROVE  e \in raced'
    BY <1>1, <1>2, <2>1 DEF AppendsOK
  <2>2. ASSUME NEW e \in Deploys, NEW f \in Deploys \ raced',
               dpc'[e] = "append", dpc'[f] = "acked", dat'[f] = dat'[e]
        PROVE  \E i \in DOMAIN seen'[e] : seen'[e][i] = f
    <3>1. f # d /\ f \in Deploys \ raced /\ dpc[f] = "acked" /\ dat[f] = dat'[e]
      BY <1>1, <2>2
    <3>2. CASE e = d
      BY <1>1, <3>1, <3>2 DEF LostDeploysNeedRace
    <3>3. CASE e # d
      BY <1>1, <2>2, <3>1, <3>3 DEF AppendsOK
    <3> QED
      BY <3>2, <3>3
  <2> QED
    BY <2>1, <2>2 DEF AppendsOK
<1>6. LostDeploysNeedRace'
  BY <1>1 DEF LostDeploysNeedRace
<1> QED
  BY <1>4, <1>5, <1>6

(* AssignModel writes the slice it read, one replica longer. *)
LEMMA DeployEnds ==
    ASSUME DeployInv, NEW d \in Deploys, AssignModel(d)
    PROVE  SlicesOK' /\ AppendsOK' /\ LostDeploysNeedRace'
<1> USE DEF DeployInv, BaseInv, TypeOK
<1> DEFINE a == dat[d]
           s == seen[d]
<1>1. a \in Agents /\ s \in Seq(Deploys) /\ Appended(d) = Append(s, d)
  BY DEF DeployTypes, Appended
<1>2. /\ dpc[d] = "append" /\ dpc'[d] = "acked" /\ DOMAIN seen'[d] = {} /\ dat' = dat /\ raced' = raced
      /\ \A e \in Deploys : e # d => dpc'[e] = dpc[e] /\ seen'[e] = seen[e]
      /\ assigned'[a] = Append(s, d)
      /\ \A b \in Agents : b # a => assigned'[b] = assigned[b]
  BY <1>1 DEF AssignModel, DeployTypes
<1>3. /\ DOMAIN Append(s, d) = 1..(Len(s) + 1) /\ DOMAIN s = 1..Len(s) /\ Len(s) \in Nat
      /\ \A i \in DOMAIN s : s[i] \in Deploys /\ Append(s, d)[i] = s[i] /\ i \in DOMAIN Append(s, d)
      /\ Append(s, d)[Len(s) + 1] = d
  BY <1>1
<1>4. \A i \in DOMAIN assigned'[a] : i \in DOMAIN s \/ i = Len(s) + 1
  BY <1>2, <1>3
<1>5. /\ \A b \in Agents : \A i \in DOMAIN assigned[b] : assigned[b][i] \in Deploys
      /\ \A e \in Deploys : \A i \in DOMAIN seen[e] : seen[e][i] \in Deploys
  BY DEF DeployTypes
<1>6. \A i \in DOMAIN s : dat[s[i]] = a /\ dpc[s[i]] = "acked"
  BY DEF SlicesOK
<1>7. \A e \in Deploys \ raced : dpc[e] = "acked" /\ dat[e] = a => \E i \in DOMAIN s : s[i] = e
  BY <1>2 DEF AppendsOK
<1> HIDE DEF a, s
<1>8. SlicesOK'
  <2>1. ASSUME NEW b \in Agents, NEW i \in DOMAIN assigned'[b]
        PROVE  dat'[assigned'[b][i]] = b /\ dpc'[assigned'[b][i]] = "acked"
    <3>1. CASE b = a /\ i \in DOMAIN s
      <4>1. assigned'[b][i] = s[i] /\ s[i] \in Deploys
        BY <1>2, <1>3, <3>1
      <4> QED
        BY <1>2, <1>6, <3>1, <4>1
    <3>2. CASE b = a /\ i = Len(s) + 1
      BY <1>2, <1>3, <3>2 DEF a
    <3>3. CASE b # a
      BY <1>2, <1>5, <2>1, <3>3 DEF SlicesOK
    <3> QED
      BY <1>4, <3>1, <3>2, <3>3
  <2>2. ASSUME NEW e \in Deploys, NEW i \in DOMAIN seen'[e]
        PROVE  dat'[seen'[e][i]] = dat'[e] /\ dpc'[seen'[e][i]] = "acked" /\ dpc'[e] = "append"
    BY <1>2, <1>5, <2>2 DEF SlicesOK
  <2> QED
    BY <2>1, <2>2 DEF SlicesOK
<1>9. AppendsOK'
  <2>1. \A e, f \in Deploys : dpc'[e] = "append" => e # d /\ dpc[e] = "append"
    BY <1>2
  <2>2. ASSUME NEW e \in Deploys, NEW f \in Deploys \ raced',
               dpc'[e] = "append", dpc'[f] = "acked", dat'[f] = dat'[e]
        PROVE  \E i \in DOMAIN seen'[e] : seen'[e][i] = f
    <3>1. CASE f = d
      BY <1>2, <2>1, <2>2, <3>1 DEF AppendsOK
    <3>2. CASE f # d
      BY <1>2, <2>1, <2>2, <3>2 DEF AppendsOK
    <3> QED
      BY <3>1, <3>2
  <2> QED
    BY <1>2, <2>1, <2>2 DEF AppendsOK
<1>10. LostDeploysNeedRace'
  <2> SUFFICES ASSUME NEW e \in Deploys \ raced', dpc'[e] = "acked"
               PROVE  \E i \in DOMAIN assigned'[dat'[e]] : assigned'[dat'[e]][i] = e
    BY DEF LostDeploysNeedRace
  <2>1. CASE e = d
    BY <1>2, <1>3, <2>1 DEF a
  <2>2. CASE e # d /\ dat[e] = a
    <3>1. PICK i \in DOMAIN s : s[i] = e
      BY <1>2, <1>7, <2>2
    <3> QED
      BY <1>2, <1>3, <2>2, <3>1
  <2>3. CASE e # d /\ dat[e] # a
    <3>1. dat[e] \in Agents
      BY DEF DeployTypes
    <3> QED
      BY <1>2, <2>3, <3>1 DEF LostDeploysNeedRace
  <2> QED
    BY <2>1, <2>2, <2>3
<1> QED
  BY <1>8, <1>9, <1>10

(* A crash empties the slices of its agent. *)
LEMMA DeployCrash ==
    ASSUME DeployInv, NEW a \in Agents, Crash(a)
    PROVE  SlicesOK' /\ AppendsOK' /\ LostDeploysNeedRace'
<1> USE DEF DeployInv, BaseInv, TypeOK
<1>1. /\ \A d \in Deploys : dat[d] = a => dpc'[d] \in {"new", "gone"}
      /\ \A d \in Deploys : dat[d] = a /\ dpc[d] # "new" => DOMAIN seen'[d] = {}
      /\ \A d \in Deploys : dat[d] = a /\ dpc[d] = "new" => seen'[d] = seen[d]
      /\ \A d \in Deploys : dat[d] # a => dpc'[d] = dpc[d] /\ seen'[d] = seen[d]
      /\ DOMAIN assigned'[a] = {} /\ \A b \in Agents : b # a => assigned'[b] = assigned[b]
      /\ dat' = dat /\ raced' = raced
  BY DEF Crash, DeployTypes
<1>2. /\ \A b \in Agents : \A i \in DOMAIN assigned[b] : assigned[b][i] \in Deploys
      /\ \A e \in Deploys : dat[e] \in Agents /\ \A i \in DOMAIN seen[e] : seen[e][i] \in Deploys
  BY DEF DeployTypes
<1>3. SlicesOK'
  <2>1. ASSUME NEW b \in Agents, NEW i \in DOMAIN assigned'[b]
        PROVE  dat'[assigned'[b][i]] = b /\ dpc'[assigned'[b][i]] = "acked"
    BY <1>1, <1>2, <2>1 DEF SlicesOK
  <2>2. ASSUME NEW e \in Deploys, NEW i \in DOMAIN seen'[e]
        PROVE  dat'[seen'[e][i]] = dat'[e] /\ dpc'[seen'[e][i]] = "acked" /\ dpc'[e] = "append"
    BY <1>1, <1>2, <2>2 DEF SlicesOK
  <2> QED
    BY <2>1, <2>2 DEF SlicesOK
<1>4. AppendsOK'
  BY <1>1 DEF AppendsOK
<1>5. LostDeploysNeedRace'
  BY <1>1, <1>2 DEF LostDeploysNeedRace
<1> QED
  BY <1>3, <1>4, <1>5

(* Every step preserves the invariant of deployments. *)
LEMMA DeployStep == DeployInv /\ [Next]_vars => DeployInv'
<1> SUFFICES ASSUME DeployInv, [Next]_vars PROVE SlicesOK' /\ AppendsOK' /\ LostDeploysNeedRace'
  BY BaseStep DEF DeployInv
<1>1. ASSUME UNCHANGED deployVars PROVE SlicesOK' /\ AppendsOK' /\ LostDeploysNeedRace'
  BY <1>1 DEF DeployInv, deployVars, SlicesOK, AppendsOK, LostDeploysNeedRace
<1>2. ASSUME NEW l \in Legs, HandleInfer(l) \/ PeerFails(l) PROVE UNCHANGED deployVars
  BY <1>2 DEF HandleInfer, CheckLocal, ResolveReplica, RunLocal, Route, LockBalancer, Pick,
              Reply, Timeout, PeerFails
<1>3. ASSUME NEW d, StartModelWorkers(d) PROVE UNCHANGED deployVars
  BY <1>3 DEF StartModelWorkers
<1>4. ASSUME NEW a, GetAgentInfo(a) \/ (\E t : UpdateEndpoints(a, t)) \/ (\E c, m : Infer(c, a, m))
      PROVE UNCHANGED deployVars
  BY <1>4 DEF GetAgentInfo, UpdateEndpoints, Infer
<1>5. UNCHANGED vars => UNCHANGED deployVars
  BY DEF vars
<1>6. world.deploys \subseteq Deploys
  BY WorldParts DEF DeployInv, BaseInv, TypeOK
<1> QED
  BY <1>1, <1>2, <1>3, <1>4, <1>5, <1>6, DeployBegins, DeployEnds, DeployCrash DEF Next

(* The invariant of deployments holds in every reachable state. *)
LEMMA DeployAlways == Spec => []DeployInv
BY DeployInit, DeployStep, PTL DEF Spec

(* An acknowledged deployment is lost from AssignedModels only to a crash  *)
(* or to another deployment whose append overlapped it.                    *)
THEOREM DeploysLostOnlyInRaces == Spec => []LostDeploysNeedRace
<1>1. DeployInv => LostDeploysNeedRace
  BY DEF DeployInv
<1> QED
  BY <1>1, DeployAlways, PTL


-----------------------------------------------------------------------------
(* The replica that answers.                                               *)

(* The replica a leg found is one of its model and of its agent. *)
Found ==
    \A l \in Legs : \A d \in rep[l] :
        dpc[d] # "new" /\ dmodel[d] = req[l[1]] /\ dat[d] = at[l]

(* A replica is found just before it is run, and a success has one: of the *)
(* leg itself or of the peer's leg that ended before it.                   *)
Answered ==
    \A l \in Legs :
        /\ rep[l] # {} => pc[l] \in {"run", "ok", "err", "dead"}
        /\ pc[l] = "ok" =>
              \/ rep[l] # {}
              \/ l[2] = 0 /\ pc[PeerLeg(l)] = "ok" /\ rep[PeerLeg(l)] # {}

ReplicaInv == DeployInv /\ Found /\ Answered

(* No request has been made. *)
LEMMA ReplicaInit == Init => ReplicaInv
<1> SUFFICES ASSUME Init PROVE ReplicaInv
  OBVIOUS
<1>1. \A l \in Legs : rep[l] = {} /\ pc[l] = "idle"
  BY DEF Init
<1> QED
  BY <1>1, DeployInit DEF ReplicaInv, Found, Answered

(* A leg moves on, with the replica it has or will run. *)
LEMMA ReplicaMoves ==
    ASSUME ReplicaInv, NEW l \in Legs, NEW p, Goto(l, p), pc[l] \notin Ended,
           UNCHANGED <<req, at, deployVars>>,
           \A k \in Legs : k # l => rep'[k] = rep[k],
           \A d \in rep'[l] : dpc[d] # "new" /\ dmodel[d] = req[l[1]] /\ dat[d] = at[l],
           rep'[l] # {} => p \in {"run", "ok", "err"},
           p = "ok" => \/ rep'[l] # {}
                       \/ l[2] = 0 /\ pc[PeerLeg(l)] = "ok" /\ rep[PeerLeg(l)] # {}
    PROVE  Found' /\ Answered'
<1> USE DEF ReplicaInv, DeployInv, BaseInv, TypeOK, deployVars
<1>1. pc'[l] = p /\ \A k \in Legs : k # l => pc'[k] = pc[k]
  BY DEF Goto, LegTypes
<1>2. Found'
  BY DEF Found
<1>3. \A k \in Legs : rep'[k] # {} => pc'[k] \in {"run", "ok", "err", "dead"}
  BY <1>1 DEF Answered
<1>4. ASSUME NEW k \in Legs, pc'[k] = "ok"
      PROVE  \/ rep'[k] # {}
             \/ k[2] = 0 /\ pc'[PeerLeg(k)] = "ok" /\ rep'[PeerLeg(k)] # {}
  <2> DEFINE q == PeerLeg(k)
  <2>1. k[2] = 0 => q \in Legs /\ q # k
    BY LegPairs
  <2>2. \/ rep'[k] # {}
        \/ k[2] = 0 /\ pc[q] = "ok" /\ rep[q] # {}
    BY <1>1, <1>4 DEF Answered
  <2>3. pc[l] # "ok"
    BY DEF Ended
  <2> HIDE DEF q
  <2>4. \/ rep'[k] # {}
        \/ k[2] = 0 /\ pc'[q] = "ok" /\ rep'[q] # {}
    BY <1>1, <2>1, <2>2, <2>3
  <2> QED
    BY <2>4 DEF q
<1>5. Answered'
  BY <1>3, <1>4 DEF Answered
<1> QED
  BY <1>2, <1>5

(* Every step of HandleInfer keeps the replicas right. *)
LEMMA ReplicaLegStep ==
    ASSUME ReplicaInv, NEW l \in Legs, HandleInfer(l) \/ PeerFails(l)
    PROVE  Found' /\ Answered'
<1> USE DEF ReplicaInv, DeployInv, BaseInv, TypeOK
<1>0. l[1] \in Calls /\ l[2] \in {0, 1, 2} /\ at[l] \in Agents
  BY LegPairs DEF LegTypes
<1>1. ASSUME NEW p, Goto(l, p), pc[l] \notin Ended, UNCHANGED <<req, at, rep, deployVars>>,
             rep[l] # {} => p \in {"ok", "err"},
             p = "ok" => \/ rep[l] # {}
                         \/ l[2] = 0 /\ pc[PeerLeg(l)] = "ok" /\ rep[PeerLeg(l)] # {}
      PROVE  Found' /\ Answered'
  <2>1. /\ \A k \in Legs : rep'[k] = rep[k]
        /\ \A d \in rep'[l] : dpc[d] # "new" /\ dmodel[d] = req[l[1]] /\ dat[d] = at[l]
    BY <1>1 DEF Found
  <2> QED
    BY <1>1, <2>1, ReplicaMoves
<1>2. pc[l] # "run" /\ pc[l] \notin Ended => rep[l] = {}
  BY DEF Answered, Ended
<1>3. ASSUME CheckLocal(l) PROVE Found' /\ Answered'
  <2>1. PICK p \in {"resolve", "err", "route"} : Goto(l, p)
    BY <1>3 DEF CheckLocal
  <2>2. UNCHANGED <<req, at, rep, deployVars>> /\ pc[l] = "check"
    BY <1>3 DEF CheckLocal
  <2> QED
    BY <1>1, <1>2, <2>1, <2>2 DEF Ended
<1>4. ASSUME ResolveReplica(l) PROVE Found' /\ Answered'
  <2>1. /\ UNCHANGED <<req, at, deployVars>> /\ pc[l] = "resolve" /\ Goto(l, "run")
        /\ rep'[l] = FirstReplica(l) /\ \A k \in Legs : k # l => rep'[k] = rep[k]
    BY <1>4 DEF ResolveReplica, LegTypes
  <2>2. \A d \in FirstReplica(l) : dpc[d] # "new" /\ dmodel[d] = req[l[1]] /\ dat[d] = at[l]
    <3> SUFFICES ASSUME NEW i \in DOMAIN assigned[at[l]], dmodel[assigned[at[l]][i]] = req[l[1]],
                        NEW d, d = assigned[at[l]][i]
                 PROVE  dpc[d] # "new" /\ dmodel[d] = req[l[1]] /\ dat[d] = at[l]
      BY DEF FirstReplica, Local
    <3> QED
      BY <1>0 DEF SlicesOK
  <2> QED
    BY <2>1, <2>2, ReplicaMoves DEF Ended
<1>5. ASSUME RunLocal(l) PROVE Found' /\ Answered'
  <2>1. PICK p \in {"ok", "err"} : Goto(l, p) /\ (p = "ok" => rep[l] # {})
    BY <1>5 DEF RunLocal
  <2>2. UNCHANGED <<req, at, rep, deployVars>> /\ pc[l] = "run"
    BY <1>5 DEF RunLocal
  <2> QED
    BY <1>1, <2>1, <2>2 DEF Ended
<1>6. ASSUME Route(l) \/ LockBalancer(l) PROVE Found' /\ Answered'
  <2>1. PICK p \in {"lock", "err", "pick"} : Goto(l, p)
    BY <1>6 DEF Route, LockBalancer
  <2>2. UNCHANGED <<req, at, rep, deployVars>> /\ pc[l] \in {"route", "lock"}
    BY <1>6 DEF Route, LockBalancer
  <2> QED
    BY <1>1, <1>2, <2>1, <2>2 DEF Ended
<1>7. ASSUME Pick(l) PROVE Found' /\ Answered'
  <2>1. UNCHANGED <<req, rep, deployVars>> /\ pc[l] = "pick"
    BY <1>7 DEF Pick
  <2>2. CASE UNCHANGED <<pc, at, eps>>
    BY <2>1, <2>2 DEF Found, Answered, deployVars
  <2>3. ASSUME NEW b, ForwardInfer(l, b) PROVE Found' /\ Answered'
    <3> DEFINE q == PeerLeg(l)
    <3>1. q \in Legs /\ q # l /\ q[2] = 1 /\ q[1] = l[1] /\ pc[q] = "idle" /\ l[2] = 0
      BY <2>1, LegPairs DEF HopsOK, Early
    <3>2. rep[q] = {} /\ rep[l] = {}
      BY <2>1, <3>1 DEF Answered
    <3> HIDE DEF q
    <3>3. /\ pc'[l] = "wait" /\ pc'[q] \in {"check", "dead"}
          /\ \A k \in Legs : k # l /\ k # q => pc'[k] = pc[k]
          /\ \A k \in Legs : k # q => at'[k] = at[k]
      BY <2>3, <3>1 DEF ForwardInfer, LegTypes, q
    <3>4. Found'
      BY <2>1, <3>2, <3>3 DEF Found, deployVars
    <3>5. \A k \in Legs : rep'[k] # {} => pc'[k] \in {"run", "ok", "err", "dead"}
      BY <2>1, <3>2, <3>3 DEF Answered
    <3>6. ASSUME NEW k \in Legs, pc'[k] = "ok"
          PROVE  \/ rep'[k] # {}
                 \/ k[2] = 0 /\ pc'[PeerLeg(k)] = "ok" /\ rep'[PeerLeg(k)] # {}
      <4> DEFINE r == PeerLeg(k)
      <4>1. k[2] = 0 => r \in Legs
        BY LegPairs
      <4>2. k # l /\ k # q /\ pc[k] = "ok"
        BY <3>3, <3>6
      <4>3. rep[k] # {} \/ (k[2] = 0 /\ pc[r] = "ok" /\ rep[r] # {})
        BY <4>2 DEF Answered
      <4> HIDE DEF r
      <4>4. rep'[k] # {} \/ (k[2] = 0 /\ pc'[r] = "ok" /\ rep'[r] # {})
        BY <2>1, <3>1, <3>3, <4>1, <4>3
      <4> QED
        BY <4>4 DEF r
    <3> QED
      BY <3>4, <3>5, <3>6 DEF Answered
  <2> QED
    BY <1>7, <2>2, <2>3 DEF Pick
<1>8. ASSUME Reply(l) \/ PeerFails(l) \/ Timeout(l) PROVE Found' /\ Answered'
  <2>1. /\ UNCHANGED <<req, at, rep, deployVars>> /\ pc[l] = "wait"
    BY <1>8 DEF Reply, PeerFails, Timeout
  <2>2. l[2] = 0 /\ PeerLeg(l) \in Legs /\ PeerLeg(l)[2] = 1
    BY <2>1, LegPairs DEF HopsOK
  <2>3. pc[PeerLeg(l)] = "ok" => rep[PeerLeg(l)] # {}
    BY <2>2 DEF Answered
  <2>4. PICK p \in {"ok", "err"} : Goto(l, p) /\ (p = "ok" => pc[PeerLeg(l)] = "ok")
    BY <1>8 DEF Reply, PeerFails, Timeout
  <2> QED
    BY <1>1, <2>1, <2>2, <2>3, <2>4 DEF Ended
<1> QED
  BY <1>3, <1>4, <1>5, <1>6, <1>7, <1>8 DEF HandleInfer

(* Every step keeps the replicas right. *)
LEMMA ReplicaStep == ReplicaInv /\ [Next]_vars => ReplicaInv'
<1> SUFFICES ASSUME ReplicaInv, [Next]_vars PROVE Found' /\ Answered'
  BY DeployStep DEF ReplicaInv
<1> USE DEF ReplicaInv, DeployInv, BaseInv, TypeOK
<1>1. ASSUME UNCHANGED legVars,
             \A d \in Deploys : dpc[d] # "new" =>
                dpc'[d] # "new" /\ dmodel'[d] = dmodel[d] /\ dat'[d] = dat[d]
      PROVE  Found' /\ Answered'
  <2>1. \A l \in Legs : rep[l] \subseteq Deploys
    BY DEF LegTypes
  <2> QED
    BY <1>1, <2>1 DEF Found, Answered, legVars
<1>2. ASSUME NEW d \in Deploys, NEW a \in Agents, NEW m \in Models, DeployModel(d, a, m)
      PROVE  Found' /\ Answered'
  BY <1>1, <1>2 DEF DeployModel, DeployTypes
<1>3. ASSUME NEW d \in Deploys, AssignModel(d) PROVE Found' /\ Answered'
  BY <1>1, <1>3 DEF AssignModel, DeployTypes
<1>4. ASSUME UNCHANGED <<deployVars, legVars>> PROVE Found' /\ Answered'
  BY <1>1, <1>4 DEF deployVars
<1>5. ASSUME NEW d, StartModelWorkers(d) PROVE UNCHANGED <<deployVars, legVars>>
  BY <1>5 DEF StartModelWorkers
<1>6. ASSUME NEW a, GetAgentInfo(a) \/ (\E t : UpdateEndpoints(a, t)) \/ UNCHANGED vars
      PROVE  UNCHANGED <<deployVars, legVars>>
  BY <1>6 DEF GetAgentInfo, UpdateEndpoints, vars
<1>7. ASSUME NEW c \in Calls, NEW a, NEW m, Infer(c, a, m) PROVE Found' /\ Answered'
  <2>1. /\ \A l \in Legs : l[1] # c => pc'[l] = pc[l] /\ at'[l] = at[l] /\ rep'[l] = rep[l] /\ req'[l[1]] = req[l[1]]
        /\ \A l \in Legs : l[1] = c => rep'[l] = {} /\ pc'[l] \in {"check", "idle"}
        /\ UNCHANGED deployVars
    BY <1>7, LegPairs DEF Infer, LegTypes
  <2>2. Found'
    BY <2>1 DEF Found, deployVars
  <2>3. ASSUME NEW k \in Legs
        PROVE  /\ rep'[k] # {} => pc'[k] \in {"run", "ok", "err", "dead"}
               /\ pc'[k] = "ok" =>
                     \/ rep'[k] # {}
                     \/ k[2] = 0 /\ pc'[PeerLeg(k)] = "ok" /\ rep'[PeerLeg(k)] # {}
    <3>1. k[2] = 0 => PeerLeg(k) \in Legs /\ PeerLeg(k)[1] = k[1]
      BY LegPairs
    <3> QED
      BY <2>1, <3>1 DEF Answered
  <2> QED
    BY <2>2, <2>3 DEF Answered
<1>8. ASSUME NEW a \in Agents, Crash(a) PROVE Found' /\ Answered'
  <2>1. /\ \A d \in Deploys : dpc[d] # "new" => dpc'[d] # "new"
        /\ UNCHANGED <<dat, dmodel, req, at, rep>>
        /\ \A l \in Legs : pc'[l] = pc[l] \/ (pc'[l] = "dead" /\ pc[l] \notin Ended)
    BY <1>8 DEF Crash
  <2>2. \A l \in Legs : rep[l] \subseteq Deploys
    BY DEF LegTypes
  <2>3. Found'
    BY <2>1, <2>2 DEF Found
  <2>4. ASSUME NEW k \in Legs
        PROVE  /\ rep'[k] # {} => pc'[k] \in {"run", "ok", "err", "dead"}
               /\ pc'[k] = "ok" =>
                     \/ rep'[k] # {}
                     \/ k[2] = 0 /\ pc'[PeerLeg(k)] = "ok" /\ rep'[PeerLeg(k)] # {}
    <3>1. k[2] = 0 => PeerLeg(k) \in Legs
      BY LegPairs
    <3> QED
      BY <2>1, <3>1 DEF Answered, Ended
  <2> QED
    BY <2>3, <2>4 DEF Answered
<1> QED
  BY <1>2, <1>3, <1>4, <1>5, <1>6, <1>7, <1>8, WorldParts, ReplicaLegStep DEF Next

(* A successful inference was made by a replica of the model it asked for, *)
(* deployed at the agent that ran it.                                      *)
THEOREM RightReplicaAnswers == Spec => []RightReplica
<1>1. ReplicaInv => RightReplica
  <2> SUFFICES ASSUME ReplicaInv, NEW l \in Legs, pc[l] = "ok"
               PROVE  \E h \in Hops : \E d \in rep[<<l[1], h>>] :
                         h >= l[2] /\ dmodel[d] = req[l[1]] /\ dat[d] = at[<<l[1], h>>]
    BY DEF RightReplica
  <2>1. /\ l[1] \in Calls /\ l[2] \in Hops /\ l[2] \in Nat
        /\ l = <<l[1], l[2]>> /\ PeerLeg(l) = <<l[1], l[2] + 1>>
    BY DEF Legs, PeerLeg, Hops
  <2>2. CASE rep[l] # {}
    BY <2>1, <2>2 DEF ReplicaInv, Found
  <2>3. CASE l[2] = 0 /\ rep[PeerLeg(l)] # {}
    <3>1. PeerLeg(l) \in Legs /\ PeerLeg(l)[1] = l[1] /\ PeerLeg(l) = <<l[1], 1>>
      BY <2>1, <2>3, LegPairs
    <3>2. PICK d \in rep[<<l[1], 1>>] : TRUE
      BY <2>3, <3>1
    <3>3. dmodel[d] = req[l[1]] /\ dat[d] = at[<<l[1], 1>>]
      BY <3>1, <3>2 DEF ReplicaInv, Found
    <3> QED
      BY <2>3, <3>2, <3>3 DEF Hops
  <2> QED
    BY <2>2, <2>3 DEF ReplicaInv, Answered
<1> QED
  BY <1>1, ReplicaInit, ReplicaStep, PTL DEF Spec


-----------------------------------------------------------------------------
(* The weighted round robin.                                               *)

(* The picks of an endpoint of weight x, times One, once all levels above  *)
(* v are done.  The levels are the weights that the balancer goes down by  *)
(* One at a time; an endpoint is picked on each that does not exceed x.    *)
Fair(x, v, y) == IF x >= v + One THEN x - v - One < y /\ y <= x - v ELSE y = 0

(* A cycle over s that has come to endpoint j + 1 of level w, with n picks *)
(* so far.                                                                 *)
FairCycle(s, n, j, w) ==
    /\ s \in Seq(Endpoints) /\ s # << >> /\ n \in [DOMAIN s -> Nat]
    /\ j \in 0..(Len(s) - 1) /\ w \in Nat
    /\ MaxWeight(s) > 0 =>
          /\ w > 0
          /\ \A i \in DOMAIN s :
                Fair(s[i].weight, IF i - 1 <= j THEN w - One ELSE w, n[i] * One)

CyclesOK ==
    /\ cycle \in [Agents -> [eps : Seq(Endpoints), n : Seq(Nat)]]
    /\ \A a \in Agents : cycle[a] # Mixed =>
          FairCycle(cycle[a].eps, cycle[a].n, lb[a].index, lb[a].weight)

(* An endpoint that is picked on a level, one that is not, and the end. *)
LEMMA Levels ==
    ASSUME NEW x \in Nat, NEW w \in Int, NEW y \in Nat
    PROVE  /\ Fair(x, w, y) /\ x >= w => Fair(x, w - One, y + One)
           /\ Fair(x, w, y) /\ ~(x >= w) => Fair(x, w - One, y)
           /\ Fair(x, w - One, y) /\ w > 0 /\ w - One <= 0 => -One < y - x /\ y - x < One
BY RoutingConstants DEF Fair

(* Multiples of One. *)
LEMMA Multiples ==
    /\ \A k \in Nat : k * One \in Nat /\ (k + 1) * One = k * One + One
    /\ 0 * One = 0
BY RoutingConstants

(* The weights of a list, and its first place. *)
LEMMA Weights ==
    ASSUME NEW s \in Seq(Endpoints), s # << >>
    PROVE  /\ Len(s) \in Nat \ {0} /\ DOMAIN s = 1..Len(s) /\ 1 \in DOMAIN s
           /\ \A i \in DOMAIN s : s[i].weight \in Nat /\ s[i].weight <= MaxWeight(s)
           /\ MaxWeight(s) \in Nat
<1>1. Len(s) \in Nat \ {0} /\ DOMAIN s = 1..Len(s) /\ 1 \in 1..Len(s)
  BY EmptySeq
<1>2. \A i \in DOMAIN s : s[i] \in Endpoints
  OBVIOUS
<1> QED
  BY <1>1, <1>2, LargestWeight DEF Endpoints

(* The cursor's next place. *)
LEMMA NextPlace ==
    ASSUME NEW n \in Nat \ {0}, NEW j \in 0..(n - 1)
    PROVE  (j + 1) % n = IF j = n - 1 THEN 0 ELSE j + 1
<1>1. CASE j = n - 1
  BY <1>1
<1>2. CASE j # n - 1
  BY <1>2
<1> QED
  BY <1>1, <1>2

(* A reset starts a fair cycle, from whatever the balancer did before. *)
LEMMA CycleStarts ==
    ASSUME NEW s \in Seq(Endpoints), s # << >>, NEW n \in [DOMAIN s -> Nat],
           \A i \in DOMAIN s \ {1} : n[i] = 0,
           n[1] = IF s[1].weight >= MaxWeight(s) THEN 1 ELSE 0
    PROVE  FairCycle(s, n, 0, MaxWeight(s))
<1> DEFINE top == MaxWeight(s)
<1>1. /\ Len(s) \in Nat \ {0} /\ DOMAIN s = 1..Len(s) /\ top \in Nat /\ 0 \in 0..(Len(s) - 1)
      /\ \A i \in DOMAIN s : s[i].weight \in Nat /\ s[i].weight <= top
  BY Weights
<1> HIDE DEF top
<1>2. ASSUME NEW i \in DOMAIN s, top > 0
      PROVE  Fair(s[i].weight, IF i - 1 <= 0 THEN top - One ELSE top, n[i] * One)
  <2>1. Fair(s[i].weight, top, 0)
    BY <1>1, RoutingConstants DEF Fair
  <2>2. CASE i = 1
    <3>1. n[1] * One = IF s[1].weight >= top THEN 0 + One ELSE 0
      BY Multiples DEF top
    <3>2. /\ s[1].weight >= top => Fair(s[1].weight, top - One, 0 + One)
          /\ ~(s[1].weight >= top) => Fair(s[1].weight, top - One, 0)
      <4> DEFINE x == s[1].weight
      <4>1. x \in Nat /\ top \in Int /\ Fair(x, top, 0)
        BY <1>1, <2>1, <2>2
      <4> HIDE DEF x
      <4>2. (x >= top => Fair(x, top - One, 0 + One)) /\ (~(x >= top) => Fair(x, top - One, 0))
        BY <4>1, Levels
      <4> QED
        BY <4>2 DEF x
    <3>3. Fair(s[1].weight, top - One, n[1] * One)
      BY <3>1, <3>2, Zenon
    <3> QED
      BY <2>2, <3>3
  <2>3. CASE i # 1
    <3>1. n[i] * One = 0 /\ ~(i - 1 <= 0)
      BY <1>1, <2>3, Multiples
    <3> QED
      BY <2>1, <3>1
  <2> QED
    BY <2>2, <2>3
<1> QED
  BY <1>1, <1>2 DEF FairCycle, top

(* A turn that does not reset keeps a cycle fair. *)
LEMMA CycleGoesOn ==
    ASSUME NEW s, NEW n, NEW j, NEW w, FairCycle(s, n, j, w),
           NEW i, i = IF j = Len(s) - 1 THEN 0 ELSE j + 1, ~Resets(w, i),
           NEW u, u = NextWeight(w, i, MaxWeight(s)),
           NEW m \in [DOMAIN s -> Nat],
           \A k \in DOMAIN s \ {i + 1} : m[k] = n[k],
           m[i + 1] = IF s[i + 1].weight >= u THEN n[i + 1] + 1 ELSE n[i + 1]
    PROVE  FairCycle(s, m, i, u)
<1>1. /\ s \in Seq(Endpoints) /\ s # << >> /\ n \in [DOMAIN s -> Nat]
      /\ j \in 0..(Len(s) - 1) /\ w \in Nat /\ One \in Nat \ {0}
  BY RoutingConstants DEF FairCycle
<1>2. /\ Len(s) \in Nat \ {0} /\ DOMAIN s = 1..Len(s)
      /\ \A k \in DOMAIN s : s[k].weight \in Nat
  BY <1>1, Weights
<1>3. (j = Len(s) - 1 /\ i = 0) \/ (j # Len(s) - 1 /\ i = j + 1)
  BY Zenon
<1>4. i \in 0..(Len(s) - 1) /\ i + 1 \in DOMAIN s
  <2> DEFINE n0 == Len(s)
  <2>1. n0 \in Nat \ {0} /\ DOMAIN s = 1..n0 /\ j \in 0..(n0 - 1)
    BY <1>1, <1>2
  <2>2. (j = n0 - 1 /\ i = 0) \/ (j # n0 - 1 /\ i = j + 1)
    BY <1>3
  <2> HIDE DEF n0
  <2>3. i \in 0..(n0 - 1) /\ i + 1 \in 1..n0
    BY <2>1, <2>2
  <2> QED
    BY <2>1, <2>3 DEF n0
<1>5. u = (IF i = 0 THEN w - One ELSE w) /\ (i = 0 => u > 0) /\ u \in Nat
  BY <1>1, <1>4 DEF NextWeight, Resets
<1>6. ASSUME MaxWeight(s) > 0
      PROVE  u > 0 /\ \A k \in DOMAIN s : Fair(s[k].weight, IF k - 1 <= i THEN u - One ELSE u, m[k] * One)
  <2>1. w > 0 /\ \A k \in DOMAIN s : Fair(s[k].weight, IF k - 1 <= j THEN w - One ELSE w, n[k] * One)
    BY <1>6 DEF FairCycle
  <2>2. u > 0
    BY <1>5, <2>1
  <2>3. \A k \in DOMAIN s : (k - 1 <= j) <=> (k - 1 < i \/ i = 0)
    <3> DEFINE n0 == Len(s)
    <3>1. n0 \in Nat \ {0} /\ DOMAIN s = 1..n0 /\ j \in 0..(n0 - 1)
      BY <1>1, <1>2
    <3>2. (j = n0 - 1 /\ i = 0) \/ (j # n0 - 1 /\ i = j + 1)
      BY <1>3
    <3> HIDE DEF n0
    <3>3. \A k \in 1..n0 : (k - 1 <= j) <=> (k - 1 < i \/ i = 0)
      BY <3>1, <3>2
    <3> QED
      BY <3>1, <3>3
  <2>4. \A k \in DOMAIN s : Fair(s[k].weight, IF k - 1 < i THEN u - One ELSE u, n[k] * One)
    <3> SUFFICES ASSUME NEW k \in DOMAIN s
                 PROVE  Fair(s[k].weight, IF k - 1 < i THEN u - One ELSE u, n[k] * One)
      OBVIOUS
    <3>1. (IF k - 1 < i THEN u - One ELSE u) = (IF k - 1 <= j THEN w - One ELSE w)
      <4>1. k \in Nat \ {0}
        BY <1>2
      <4>2. i = 0 => ~(k - 1 < i) /\ k - 1 <= j
        BY <2>3, <4>1
      <4>3. i # 0 => (k - 1 <= j <=> k - 1 < i)
        BY <2>3
      <4> QED
        BY <1>5, <4>2, <4>3
    <3> QED
      BY <2>1, <3>1
  <2>5. ASSUME NEW k \in DOMAIN s
        PROVE  Fair(s[k].weight, IF k - 1 <= i THEN u - One ELSE u, m[k] * One)
    <3>1. CASE k = i + 1
      <4>1. n[k] \in Nat /\ n[k] * One \in Nat /\ (n[k] + 1) * One = n[k] * One + One
        BY <1>1, Multiples
      <4>2. Fair(s[k].weight, u, n[k] * One)
        <5>1. ~(k - 1 < i)
          BY <1>4, <3>1
        <5> QED
          BY <2>4, <5>1
      <4>3. Fair(s[k].weight, u - One, m[k] * One)
        <5> DEFINE x == s[k].weight
                   y == n[k] * One
        <5>1. x \in Nat /\ u \in Int /\ y \in Nat /\ Fair(x, u, y)
          BY <1>2, <1>5, <4>1, <4>2
        <5>2. m[k] * One = IF x >= u THEN y + One ELSE y
          BY <3>1, <4>1
        <5> HIDE DEF x, y
        <5>3. (x >= u => Fair(x, u - One, y + One)) /\ (~(x >= u) => Fair(x, u - One, y))
          BY <5>1, Levels
        <5>4. Fair(x, u - One, m[k] * One)
          BY <5>2, <5>3, Zenon
        <5> QED
          BY <5>4 DEF x
      <4>4. k - 1 <= i
        BY <1>4, <3>1
      <4> QED
        BY <4>3, <4>4
    <3>2. CASE k # i + 1
      <4>1. m[k] = n[k] /\ (k - 1 <= i <=> k - 1 < i)
        BY <1>2, <1>4, <3>2
      <4> QED
        BY <2>4, <4>1
    <3> QED
      BY <3>1, <3>2
  <2> QED
    BY <2>2, <2>5
<1> QED
  BY <1>1, <1>4, <1>5, <1>6 DEF FairCycle

(* A fair cycle that comes to a reset has given every endpoint its share. *)
LEMMA CycleDone ==
    ASSUME NEW s, NEW n, NEW j, NEW w, FairCycle(s, n, j, w), MaxWeight(s) > 0,
           j = Len(s) - 1, w - One <= 0, NEW i \in DOMAIN s
    PROVE  -One < n[i] * One - s[i].weight /\ n[i] * One - s[i].weight < One
<1>1. /\ s \in Seq(Endpoints) /\ s # << >> /\ n \in [DOMAIN s -> Nat]
      /\ j \in 0..(Len(s) - 1) /\ w \in Nat /\ w > 0
      /\ Fair(s[i].weight, IF i - 1 <= j THEN w - One ELSE w, n[i] * One)
  BY DEF FairCycle
<1>2. Len(s) \in Nat \ {0} /\ DOMAIN s = 1..Len(s) /\ s[i].weight \in Nat /\ n[i] * One \in Nat
  BY <1>1, Weights, Multiples
<1>3. i - 1 <= j
  BY <1>2
<1> DEFINE x == s[i].weight
           y == n[i] * One
<1>4. x \in Nat /\ w \in Int /\ y \in Nat /\ Fair(x, w - One, y)
  BY <1>1, <1>2, <1>3
<1> HIDE DEF x, y
<1>5. -One < y - x /\ y - x < One
  BY <1>1, <1>4, Levels
<1> QED
  BY <1>5 DEF x, y


(* What one turn of Pick does to the balancer and to its history. *)
LEMMA PickTurn ==
    ASSUME BaseInv, NEW l \in Legs, Pick(l), NEW s, s = eps[l], NEW a, a = at[l]
    PROVE  /\ s \in Seq(Endpoints) /\ s # << >> /\ a \in Agents
           /\ lb[a].index \in Nat \cup {-1} /\ lb[a].weight \in Nat
           /\ lb'[a].index = (lb[a].index + 1) % Len(s) /\ lb'[a].index \in 0..(Len(s) - 1)
           /\ lb'[a].weight = NextWeight(lb[a].weight, lb'[a].index, MaxWeight(s))
           /\ \A b \in Agents : b # a => lb'[b] = lb[b]
<1> USE DEF BaseInv, TypeOK
<1>1. s \in Seq(Endpoints) /\ s # << >> /\ a \in Agents
  BY DEF Pick, LegTypes, PickersHaveEndpoints
<1>2. Len(s) \in Nat \ {0}
  BY <1>1, EmptySeq
<1> DEFINE i == (lb[a].index + 1) % Len(s)
           w == NextWeight(lb[a].weight, i, MaxWeight(s))
<1>3. lb[a].index \in Nat \cup {-1} /\ lb[a].weight \in Nat
  BY <1>1 DEF AgentTypes
<1>4. i \in 0..(Len(s) - 1)
  <2>1. lb[a].index + 1 \in Nat
    BY <1>3
  <2> QED
    BY <1>2, <2>1
<1>5. lb' = [lb EXCEPT ![a] = [index |-> i, weight |-> w]]
  BY DEF Pick
<1> HIDE DEF i, w
<1>6. lb'[a].index = i /\ lb'[a].weight = w /\ \A b \in Agents : b # a => lb'[b] = lb[b]
  BY <1>1, <1>5 DEF AgentTypes
<1> QED
  BY <1>1, <1>3, <1>4, <1>6 DEF i, w

(* A turn of Pick keeps every cycle fair. *)
LEMMA CyclePick ==
    ASSUME BaseInv, CyclesOK, NEW l \in Legs, Pick(l)
    PROVE  CyclesOK'
<1> DEFINE a == at[l]
           s == eps[l]
           j == lb[a].index
           v == lb[a].weight
           i == lb'[a].index
           w == lb'[a].weight
           reset == Resets(v, i)
           zeros == [k \in DOMAIN s |-> 0]
           now == IF reset THEN [eps |-> s, n |-> zeros]
                  ELSE IF cycle[a].eps = s THEN cycle[a] ELSE Mixed
           chosen == (reset /\ w = 0) \/ s[i + 1].weight >= w
           next == IF chosen /\ now # Mixed THEN [now EXCEPT !.n[i + 1] = @ + 1] ELSE now
<1>1. /\ s \in Seq(Endpoints) /\ s # << >> /\ a \in Agents
      /\ j \in Nat \cup {-1} /\ v \in Nat
      /\ i = (j + 1) % Len(s) /\ i \in 0..(Len(s) - 1)
      /\ w = NextWeight(v, i, MaxWeight(s))
      /\ \A b \in Agents : b # a => lb'[b] = lb[b]
  BY PickTurn
<1>2. cycle' = [cycle EXCEPT ![a] = next]
  <2> DEFINE Turn(x, y) ==
               LET r == Resets(v, x)
                   c == (r /\ y = 0) \/ s[x + 1].weight >= y
                   t == IF r THEN [eps |-> s, n |-> zeros]
                        ELSE IF cycle[a].eps = s THEN cycle[a] ELSE Mixed
               IN  IF c /\ t # Mixed THEN [t EXCEPT !.n[x + 1] = @ + 1] ELSE t
             x0 == (j + 1) % Len(s)
             y0 == NextWeight(v, x0, MaxWeight(s))
  <2>1. cycle' = [cycle EXCEPT ![a] = Turn(x0, y0)]
    BY DEF Pick
  <2>2. x0 = i /\ y0 = w
    BY <1>1
  <2>3. Turn(i, w) = next
    OBVIOUS
  <2> HIDE DEF Turn, x0, y0, next, i, w
  <2> QED
    BY <2>1, <2>2, <2>3
<1>3. cycle[a] \in [eps : Seq(Endpoints), n : Seq(Nat)]
  BY <1>1 DEF CyclesOK
<1>4. /\ Len(s) \in Nat \ {0} /\ DOMAIN s = 1..Len(s) /\ 1 \in DOMAIN s /\ i + 1 \in DOMAIN s
      /\ \A k \in DOMAIN s : s[k].weight \in Nat
  BY <1>1, Weights
<1>5. chosen <=> s[i + 1].weight >= w
  <2>1. s[i + 1].weight \in Nat
    BY <1>4
  <2> QED
    BY <2>1
<1> HIDE DEF a, s, j, v, i, w, chosen
<1>6. zeros \in Seq(Nat) /\ zeros \in [DOMAIN s -> Nat] /\ Mixed.eps = << >>
  BY <1>4 DEF Mixed
<1>7. next \in [eps : Seq(Endpoints), n : Seq(Nat)] /\ (next # Mixed => FairCycle(next.eps, next.n, i, w))
  <2>1. CASE reset
    <3> DEFINE m == IF chosen THEN [zeros EXCEPT ![i + 1] = @ + 1] ELSE zeros
    <3>1. i = 0 /\ w = MaxWeight(s)
      BY <1>1, <2>1 DEF Resets, NextWeight
    <3>2. now = [eps |-> s, n |-> zeros] /\ now # Mixed
      BY <1>1, <1>6, <2>1 DEF Mixed
    <3>3. next = [eps |-> s, n |-> m]
      BY <3>2
    <3>4. m \in [DOMAIN s -> Nat] /\ m \in Seq(Nat)
      BY <1>4, <1>6
    <3>5. /\ \A k \in DOMAIN s \ {1} : m[k] = 0
          /\ m[1] = IF s[1].weight >= MaxWeight(s) THEN 1 ELSE 0
      BY <1>4, <1>5, <3>1
    <3> HIDE DEF m, next
    <3>6. FairCycle(s, m, 0, MaxWeight(s))
      BY <1>1, <3>4, <3>5, CycleStarts
    <3>7. FairCycle(s, m, i, w)
      BY <3>1, <3>6, Zenon
    <3>8. next.eps = s /\ next.n = m
      BY <3>3
    <3> QED
      BY <1>1, <3>3, <3>4, <3>7, <3>8
  <2>2. CASE ~reset /\ cycle[a].eps = s
    <3> DEFINE n == cycle[a].n
               m == IF chosen THEN [n EXCEPT ![i + 1] = @ + 1] ELSE n
    <3>1. now = cycle[a] /\ cycle[a] # Mixed /\ cycle[a] = [eps |-> s, n |-> n]
      BY <1>1, <1>3, <1>6, <2>2
    <3>2. FairCycle(s, n, j, v)
      BY <1>1, <2>2, <3>1 DEF CyclesOK, j, v
    <3>3. n \in [DOMAIN s -> Nat] /\ n \in Seq(Nat) /\ j \in 0..(Len(s) - 1)
      BY <1>3, <3>2 DEF FairCycle
    <3>4. i = IF j = Len(s) - 1 THEN 0 ELSE j + 1
      BY <1>1, <1>4, <3>3, NextPlace
    <3>5. next = [eps |-> s, n |-> m]
      BY <3>1
    <3>6. m \in [DOMAIN s -> Nat] /\ m \in Seq(Nat)
      BY <1>4, <3>3
    <3>7. /\ \A k \in DOMAIN s \ {i + 1} : m[k] = n[k]
          /\ m[i + 1] = IF s[i + 1].weight >= w THEN n[i + 1] + 1 ELSE n[i + 1]
      BY <1>4, <1>5, <3>3
    <3> HIDE DEF m, n, next
    <3>8. FairCycle(s, m, i, w)
      BY <1>1, <2>2, <3>2, <3>4, <3>6, <3>7, CycleGoesOn
    <3>9. next.eps = s /\ next.n = m
      BY <3>5
    <3> QED
      BY <1>1, <3>5, <3>6, <3>8, <3>9
  <2>3. CASE ~reset /\ cycle[a].eps # s
    <3>1. next = Mixed
      BY <2>3
    <3>2. << >> \in Seq(Endpoints) /\ << >> \in Seq(Nat)
      OBVIOUS
    <3> QED
      BY <3>1, <3>2 DEF Mixed
  <2> QED
    BY <2>1, <2>2, <2>3
<1> HIDE DEF next
<1>8. /\ cycle' \in [Agents -> [eps : Seq(Endpoints), n : Seq(Nat)]]
      /\ cycle'[a] = next /\ \A b \in Agents : b # a => cycle'[b] = cycle[b]
  BY <1>1, <1>2, <1>7 DEF CyclesOK
<1>9. FairCycle(next.eps, next.n, lb'[a].index, lb'[a].weight) \/ next = Mixed
  BY <1>7 DEF i, w
<1> QED
  BY <1>1, <1>8, <1>9 DEF CyclesOK

(* Every step keeps every cycle fair. *)
LEMMA CycleStep == BaseInv /\ CyclesOK /\ [Next]_vars => CyclesOK'
<1> SUFFICES ASSUME BaseInv, CyclesOK, [Next]_vars PROVE CyclesOK'
  OBVIOUS
<1>1. ASSUME UNCHANGED pickVars PROVE CyclesOK'
  BY <1>1 DEF pickVars, CyclesOK
<1>2. ASSUME NEW l \in Legs, HandleInfer(l) \/ PeerFails(l) PROVE UNCHANGED pickVars \/ Pick(l)
  BY <1>2 DEF HandleInfer, CheckLocal, ResolveReplica, RunLocal, Route, LockBalancer,
              Reply, Timeout, PeerFails
<1>3. ASSUME NEW a \in Agents, Crash(a) PROVE CyclesOK'
  <2>1. << >> \in Seq(Endpoints) /\ << >> \in Seq(Nat)
    OBVIOUS
  <2>2. Mixed \in [eps : Seq(Endpoints), n : Seq(Nat)]
    BY <2>1 DEF Mixed
  <2>3. /\ cycle' \in [Agents -> [eps : Seq(Endpoints), n : Seq(Nat)]] /\ cycle'[a] = Mixed
        /\ \A b \in Agents : b # a => cycle'[b] = cycle[b] /\ lb'[b] = lb[b]
    BY <1>3, <2>2 DEF Crash, CyclesOK, BaseInv, TypeOK, AgentTypes
  <2> QED
    BY <2>3 DEF CyclesOK
<1>4. ASSUME NEW d, StartModelWorkers(d) \/ AssignModel(d) \/ (\E a, m : DeployModel(d, a, m))
      PROVE  UNCHANGED pickVars
  BY <1>4 DEF StartModelWorkers, AssignModel, DeployModel
<1>5. ASSUME NEW a, \/ GetAgentInfo(a) \/ (\E t : UpdateEndpoints(a, t))
                    \/ (\E c, m : Infer(c, a, m)) \/ UNCHANGED vars
      PROVE  UNCHANGED pickVars
  BY <1>5 DEF GetAgentInfo, UpdateEndpoints, Infer, vars
<1> QED
  BY <1>1, <1>2, <1>3, <1>4, <1>5, CyclePick DEF Next

(* No cycle has begun. *)
LEMMA CycleInit == Init => CyclesOK
<1> SUFFICES ASSUME Init PROVE CyclesOK
  OBVIOUS
<1>1. << >> \in Seq(Endpoints) /\ << >> \in Seq(Nat)
  OBVIOUS
<1> QED
  BY <1>1 DEF Init, CyclesOK, Mixed

(* Over a full cycle of the balancer on one list of endpoints, each of     *)
(* them is chosen as often as its weight says, rounded up or down.         *)
THEOREM FairShares == Spec => SharesFollowWeights
<1> DEFINE Shares(a) ==
             cycle[a] # Mixed /\ CycleEnds(a) =>
               LET s == cycle[a].eps IN
               MaxWeight(s) > 0 =>
                  \A i \in DOMAIN s : LET e == cycle[a].n[i] * One - s[i].weight IN
                      -One < e /\ e < One
<1>1. BaseInv /\ CyclesOK /\ [Next]_vars => [\A a \in Agents : Shares(a)]_vars
  <2> SUFFICES ASSUME BaseInv, CyclesOK, NEW a \in Agents, cycle[a] # Mixed, CycleEnds(a),
                      MaxWeight(cycle[a].eps) > 0, NEW i \in DOMAIN cycle[a].eps
               PROVE  /\ -One < cycle[a].n[i] * One - cycle[a].eps[i].weight
                      /\ cycle[a].n[i] * One - cycle[a].eps[i].weight < One
    OBVIOUS
  <2> DEFINE s == cycle[a].eps
             n == cycle[a].n
             j == lb[a].index
             w == lb[a].weight
  <2>1. PICK l \in Legs : at[l] = a /\ eps[l] = s /\ Pick(l) /\ Resets(w, lb'[a].index)
    BY DEF CycleEnds
  <2>2. lb'[a].index = (j + 1) % Len(s)
    BY <2>1, PickTurn
  <2>3. FairCycle(s, n, j, w)
    BY DEF CyclesOK
  <2> HIDE DEF s, n, j, w
  <2>4. j \in 0..(Len(s) - 1) /\ Len(s) \in Nat \ {0}
    BY <2>3, Weights DEF FairCycle
  <2>5. w - One <= 0 /\ (j + 1) % Len(s) = 0
    BY <2>1, <2>2 DEF Resets
  <2>6. (j + 1) % Len(s) = IF j = Len(s) - 1 THEN 0 ELSE j + 1
    BY <2>4, NextPlace
  <2>7. j = Len(s) - 1
    <3>1. j + 1 # 0
      BY <2>4
    <3> QED
      BY <2>5, <2>6, <3>1, Zenon
  <2>8. -One < n[i] * One - s[i].weight /\ n[i] * One - s[i].weight < One
    BY <2>3, <2>5, <2>7, CycleDone DEF s
  <2> QED
    BY <2>8 DEF s, n
<1> HIDE DEF Shares
<1>2. Spec => [][\A a \in Agents : Shares(a)]_vars
  BY <1>1, BaseAlways, CycleInit, CycleStep, PTL DEF Spec
<1> QED
  BY <1>2 DEF SharesFollowWeights, Shares

-----------------------------------------------------------------------------
(* The end of Pick's loop.                                                 *)

(* An endpoint of the largest weight: on a level it reaches the loop ends  *)
(* there at the latest.                                                    *)
TopPlace(s) == CHOOSE p \in DOMAIN s : s[p].weight = MaxWeight(s)

(* A level left by a list of larger weights, which no endpoint reaches. *)
Excess(s, w) == IF w <= MaxWeight(s) THEN 0 ELSE w

(* The turns from index j to that endpoint, or to the next level. *)
Away(s, j, w) ==
    LET p == IF w <= MaxWeight(s) THEN TopPlace(s) - 1 ELSE 0
    IN  IF j \notin 0..(Len(s) - 1) THEN Len(s) + 1 ELSE IF j < p THEN p - j ELSE Len(s) + p - j

(* The cursor <<i, v>> is nearer to the end of the loop than <<j, w>>. *)
Nearer(s, i, v, j, w) ==
    \/ Excess(s, v) < Excess(s, w)
    \/ Excess(s, v) = Excess(s, w) /\ Away(s, i, v) < Away(s, j, w)

(* The loop goes on only nearer to its end, and nothing else moves its     *)
(* cursor or its list.                                                     *)
PickNearsEnd ==
    [][\A l \in Legs : pc[l] = "pick" /\ pc'[l] = "pick" =>
         LET c == lb[at[l]]
             d == lb'[at[l]]
         IN  /\ eps'[l] = eps[l] /\ at'[l] = at[l]
             /\ d # c \/ Pick(l) => Nearer(eps[l], d.index, d.weight, c.index, c.weight)]_vars

(* The distances are natural numbers. *)
LEMMA Distances ==
    ASSUME NEW s \in Seq(Endpoints), s # << >>, NEW j \in Nat \cup {-1}, NEW w \in Nat
    PROVE  /\ TopPlace(s) \in DOMAIN s /\ s[TopPlace(s)].weight = MaxWeight(s)
           /\ Excess(s, w) \in Nat /\ Away(s, j, w) \in Nat
<1>1. Len(s) \in Nat \ {0} /\ DOMAIN s = 1..Len(s) /\ MaxWeight(s) \in Nat
  BY Weights
<1>2. \E p \in DOMAIN s : s[p].weight = MaxWeight(s)
  BY LargestWeight
<1>3. TopPlace(s) \in DOMAIN s /\ s[TopPlace(s)].weight = MaxWeight(s)
  BY <1>2 DEF TopPlace
<1> QED
  BY <1>1, <1>3 DEF Excess, Away

(* A turn that chooses nothing comes nearer to the end. *)
LEMMA TurnNearer ==
    ASSUME NEW s \in Seq(Endpoints), s # << >>, NEW j \in Nat \cup {-1}, NEW w \in Nat,
           NEW i, i = (j + 1) % Len(s), NEW v, v = NextWeight(w, i, MaxWeight(s)),
           ~(Resets(w, i) /\ v = 0), ~(s[i + 1].weight >= v)
    PROVE  Nearer(s, i, v, j, w)
<1> DEFINE n == Len(s)
           p == TopPlace(s)
           top == MaxWeight(s)
<1>1. n \in Nat \ {0} /\ DOMAIN s = 1..n /\ top \in Nat /\ \A k \in 1..n : s[k].weight \in Nat
  BY Weights
<1>2. p \in 1..n /\ s[p].weight = top
  BY <1>1, Distances
<1>3. i \in 0..(n - 1)
  <2>1. j + 1 \in Nat
    OBVIOUS
  <2> QED
    BY <1>1, <2>1
<1>4. j \in 0..(n - 1) => i = IF j = n - 1 THEN 0 ELSE j + 1
  BY <1>1, NextPlace
<1>5. One \in Nat \ {0}
  BY RoutingConstants
<1>6. v = IF i = 0 THEN (IF w - One <= 0 THEN top ELSE w - One) ELSE w
  BY DEF NextWeight, Resets
<1>7. v \in Nat
  BY <1>1, <1>5, <1>6
<1> HIDE DEF n, p, top
<1>8. CASE v <= top
  <2>1. i # p - 1
    BY <1>1, <1>2, <1>8
  <2>2. Excess(s, v) = 0
    BY <1>8 DEF Excess, top
  <2>3. CASE w <= top
    <3>1. Excess(s, w) = 0
      BY <2>3 DEF Excess, top
    <3>2. Away(s, i, v) = IF i < p - 1 THEN (p - 1) - i ELSE n + (p - 1) - i
      BY <1>3, <1>8 DEF Away, n, p, top
    <3>3. Away(s, j, w) = IF j \notin 0..(n - 1) THEN n + 1 ELSE IF j < p - 1 THEN (p - 1) - j ELSE n + (p - 1) - j
      BY <2>3 DEF Away, n, p, top
    <3>4. Away(s, i, v) < Away(s, j, w)
      <4>1. Away(s, i, v) \in Int /\ Away(s, i, v) <= n
        BY <1>1, <1>2, <1>3, <3>2
      <4>2. CASE j \notin 0..(n - 1)
        BY <1>1, <3>3, <4>1, <4>2
      <4>3. CASE j = n - 1
        <5>1. i = 0 /\ Away(s, j, w) = n + (p - 1) - (n - 1)
          BY <1>1, <1>2, <1>4, <3>3, <4>3
        <5>2. Away(s, i, v) = p - 1
          BY <1>2, <2>1, <3>2, <5>1
        <5> QED
          BY <1>1, <1>2, <5>1, <5>2
      <4>4. CASE j \in 0..(n - 1) /\ j # n - 1
        <5>1. i = j + 1 /\ j \in Nat
          BY <1>4, <4>4
        <5> QED
          BY <1>1, <1>2, <2>1, <3>2, <3>3, <4>4, <5>1
      <4> QED
        BY <4>2, <4>3, <4>4
    <3> QED
      BY <2>2, <3>1, <3>4 DEF Nearer
  <2>4. CASE ~(w <= top)
    <3>1. Excess(s, w) = w /\ w > 0
      BY <1>1, <2>4 DEF Excess, top
    <3> QED
      BY <2>2, <3>1 DEF Nearer
  <2> QED
    BY <2>3, <2>4
<1>9. CASE ~(v <= top)
  <2>1. ~(w <= top) /\ v <= w /\ (i = 0 => v < w)
    BY <1>1, <1>5, <1>6, <1>9
  <2>2. Excess(s, v) = v /\ Excess(s, w) = w
    BY <1>9, <2>1 DEF Excess, top
  <2>3. CASE i = 0
    BY <2>1, <2>2, <2>3 DEF Nearer
  <2>4. CASE i # 0
    <3>1. v = w
      BY <1>6, <2>4
    <3>2. Away(s, i, v) = n - i
      BY <1>1, <1>3, <1>9 DEF Away, n, top
    <3>3. Away(s, j, w) = IF j \notin 0..(n - 1) THEN n + 1 ELSE n - j
      BY <1>1, <2>1 DEF Away, n, top
    <3>4. Away(s, i, v) < Away(s, j, w)
      BY <1>1, <1>3, <1>4, <2>4, <3>2, <3>3
    <3> QED
      BY <2>2, <3>1, <3>4 DEF Nearer
  <2> QED
    BY <2>3, <2>4
<1> QED
  BY <1>8, <1>9

(* No step but a turn of its own loop moves what a leg picks with. *)
LEMMA PickAlone ==
    ASSUME BaseInv, [Next]_vars, NEW l \in Legs, pc[l] = "pick", pc'[l] = "pick"
    PROVE  /\ eps'[l] = eps[l] /\ at'[l] = at[l]
           /\ lb'[at[l]] = lb[at[l]] \/ Pick(l)
<1> USE DEF BaseInv, TypeOK
<1>1. l[2] = 0 /\ l \in Calls \X Hops /\ at[l] \in Agents
  BY DEF HopsOK, LegTypes, Legs
<1>2. CASE UNCHANGED <<legVars, pickVars>>
  BY <1>2 DEF legVars, pickVars
<1>3. ASSUME NEW a \in Agents, Crash(a)
      PROVE  eps'[l] = eps[l] /\ at'[l] = at[l] /\ lb'[at[l]] = lb[at[l]]
  <2>1. at[l] # a
    BY <1>3 DEF Crash, Ended
  <2> QED
    BY <1>1, <1>3, <2>1 DEF Crash, AgentTypes
<1>4. ASSUME NEW c \in Calls, NEW a \in Agents, NEW m \in Models, Infer(c, a, m)
      PROVE  eps'[l] = eps[l] /\ at'[l] = at[l] /\ lb'[at[l]] = lb[at[l]]
  <2>1. l[1] # c
    <3>1. l = <<l[1], 0>> /\ 0 \in Hops
      BY <1>1 DEF Hops
    <3>2. pc[<<c, 0>>] \in Ended
      BY <1>4, <3>1 DEF Infer
    <3> QED
      BY <3>1, <3>2 DEF Ended
  <2> QED
    BY <1>4, <2>1 DEF Infer, pickVars
<1>5. ASSUME NEW k \in Legs, HandleInfer(k) \/ PeerFails(k)
      PROVE  /\ eps'[l] = eps[l] /\ at'[l] = at[l]
             /\ lb'[at[l]] = lb[at[l]] \/ Pick(l)
  <2>1. CASE Pick(k)
    <3>1. CASE k = l
      <4>1. UNCHANGED <<pc, at, eps>>
        <5>1. \A b : ~ForwardInfer(l, b)
          <6>1. PeerLeg(l) # l
            BY <1>1 DEF PeerLeg
          <6> QED
            BY <6>1 DEF ForwardInfer, LegTypes
        <5> QED
          BY <2>1, <3>1, <5>1 DEF Pick
      <4> QED
        BY <2>1, <3>1, <4>1
    <3>2. CASE k # l
      <4>1. pc[k] = "pick" /\ at[k] # at[l] /\ at[k] \in Agents /\ k[2] = 0
        BY <2>1, <3>2 DEF Pick, OnePicker, LegTypes, HopsOK
      <4>2. PeerLeg(k) # l
        BY <1>1, <4>1 DEF PeerLeg
      <4>3. lb'[at[l]] = lb[at[l]]
        BY <1>1, <2>1, <4>1 DEF Pick, AgentTypes
      <4>4. eps'[l] = eps[l] /\ at'[l] = at[l]
        BY <2>1, <3>2, <4>2 DEF Pick, ForwardInfer, LegTypes
      <4> QED
        BY <4>3, <4>4
    <3> QED
      BY <3>1, <3>2
  <2>2. CASE Route(k)
    <3>1. k # l
      BY <2>2 DEF Route
    <3> QED
      BY <2>2, <3>1 DEF Route, pickVars, LegTypes
  <2>3. CASE ~Pick(k) /\ ~Route(k)
    BY <1>5, <2>3 DEF HandleInfer, CheckLocal, ResolveReplica, RunLocal, LockBalancer,
                      Reply, Timeout, PeerFails, pickVars
  <2> QED
    BY <2>1, <2>2, <2>3
<1>6. ASSUME NEW d, StartModelWorkers(d) \/ AssignModel(d) \/ (\E a, m : DeployModel(d, a, m))
      PROVE  UNCHANGED <<legVars, pickVars>>
  BY <1>6 DEF StartModelWorkers, AssignModel, DeployModel
<1>7. ASSUME NEW a, GetAgentInfo(a) \/ (\E t : UpdateEndpoints(a, t)) \/ UNCHANGED vars
      PROVE  UNCHANGED <<legVars, pickVars>>
  BY <1>7 DEF GetAgentInfo, UpdateEndpoints, vars
<1>8. world.calls \subseteq Calls /\ world.entries \subseteq Agents
  BY WorldParts
<1> QED
  BY <1>2, <1>3, <1>4, <1>5, <1>6, <1>7, <1>8 DEF Next

(* Pick's loop has an end, on every list and from every cursor: each turn  *)
(* comes nearer to it in an order without infinite descent (Distances),    *)
(* and neither crashes elsewhere nor other calls take that back.           *)
THEOREM PickEnds == Spec => PickNearsEnd
<1> DEFINE Nears(l) ==
             pc[l] = "pick" /\ pc'[l] = "pick" =>
               LET c == lb[at[l]]
                   d == lb'[at[l]]
               IN  /\ eps'[l] = eps[l] /\ at'[l] = at[l]
                   /\ d # c \/ Pick(l) => Nearer(eps[l], d.index, d.weight, c.index, c.weight)
<1>1. BaseInv /\ [Next]_vars => [\A l \in Legs : Nears(l)]_vars
  <2> SUFFICES ASSUME BaseInv, [Next]_vars, NEW l \in Legs, pc[l] = "pick", pc'[l] = "pick"
               PROVE  /\ eps'[l] = eps[l] /\ at'[l] = at[l]
                      /\ lb'[at[l]] # lb[at[l]] \/ Pick(l) =>
                           Nearer(eps[l], lb'[at[l]].index, lb'[at[l]].weight, lb[at[l]].index, lb[at[l]].weight)
    OBVIOUS
  <2>1. eps'[l] = eps[l] /\ at'[l] = at[l] /\ (lb'[at[l]] = lb[at[l]] \/ Pick(l))
    BY PickAlone
  <2>2. ASSUME Pick(l)
        PROVE  Nearer(eps[l], lb'[at[l]].index, lb'[at[l]].weight, lb[at[l]].index, lb[at[l]].weight)
    <3> DEFINE a == at[l]
               s == eps[l]
               i == (lb[a].index + 1) % Len(s)
               w == NextWeight(lb[a].weight, i, MaxWeight(s))
    <3>1. /\ s \in Seq(Endpoints) /\ s # << >>
          /\ lb[a].index \in Nat \cup {-1} /\ lb[a].weight \in Nat
          /\ lb'[a].index = i /\ lb'[a].weight = w
      BY <2>2, PickTurn
    <3>2. ~((Resets(lb[a].weight, i) /\ w = 0) \/ s[i + 1].weight >= w)
      <4>1. PeerLeg(l) # l /\ l \in DOMAIN pc
        BY DEF PeerLeg, Legs, Hops, BaseInv, TypeOK, LegTypes
      <4>2. ~ForwardInfer(l, s[i + 1].node)
        BY <4>1 DEF ForwardInfer, BaseInv, TypeOK, LegTypes
      <4> QED
        BY <2>2, <4>2 DEF Pick
    <3> QED
      BY <3>1, <3>2, TurnNearer
  <2> QED
    BY <2>1, <2>2
<1> QED
  BY <1>1, BaseAlways, PTL DEF Spec, PickNearsEnd
=============================================================================
