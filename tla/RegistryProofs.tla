--------------------------- MODULE RegistryProofs ---------------------------
(***************************************************************************)
(* Machine-checked theorems about the model registry, for any number of    *)
(* concurrent handlers, models, namespaces and names, and about edgectl at *)
(* work on it, for any number of terminals.                                *)
(***************************************************************************)
EXTENDS Client, TLAPS

InFlight == {p \in Procs : pc[p] # "idle"}

(* The UUID of a call in flight is new: no client has seen it, no other    *)
(* call in flight holds it, and two calls in flight are known to overlap.  *)
FreshIds ==
    /\ \A p \in InFlight : id[p] \in used \ known
    /\ \A p, q \in InFlight : p # q => id[p] # id[q] /\ {id[p], id[q]} \in overlap

(* What the scan has still to read, with the registrations that ran beside *)
(* it, covers every record that clashes with the one about to be Put.      *)
ScanCovers ==
    \A p \in Procs, j \in Present :
        pc[p] = "scan" /\ models[j] = info[p]
            => j \in todo[p] \/ j \in updated \/ {id[p], j} \in overlap

(* The inductive invariant of the registry. *)
RegistryInv ==
    /\ TypeOK
    /\ Present \subseteq known
    /\ FreshIds
    /\ ScanCovers
    /\ DuplicatesNeedOverlap
    /\ RemovedStaysRemoved

(* The empty registry satisfies the invariant. *)
LEMMA RegistryInit == Init => RegistryInv
<1> SUFFICES ASSUME Init PROVE RegistryInv
  OBVIOUS
<1>1. PICK ns \in Namespaces, name \in Names : TRUE
  BY ModelConstants
<1>2. [ns |-> ns, name |-> name] \in Named
  BY <1>1, ModelConstants DEF Named, Infos
<1>3. (CHOOSE r \in Named : TRUE) \in Named /\ (CHOOSE i \in Ids : TRUE) \in Ids
  BY <1>2, ModelConstants
<1>4. TypeOK
  BY <1>3 DEF Init, TypeOK
<1>5. Present = {} /\ InFlight = {}
  BY DEF Init, Present, InFlight
<1> QED
  BY <1>4, <1>5 DEF Init, RegistryInv, FreshIds, ScanCovers, DuplicatesNeedOverlap,
     RemovedStaysRemoved

(* Every store call of every handler preserves the invariant. *)
LEMMA RegistryStep == RegistryInv /\ [Next]_vars => RegistryInv'
<1> SUFFICES ASSUME RegistryInv, [Next]_vars PROVE RegistryInv'
  OBVIOUS
<1> USE ModelConstants DEF RegistryInv
<1>1. ASSUME NEW p \in Procs, RegisterModel(p) PROVE RegistryInv'
  <2>1. PICK i \in Ids \ used, ns \in Namespaces, name \in Names \cup {NoName} :
          /\ name # NoName
          /\ id' = [id EXCEPT ![p] = i]
          /\ info' = [info EXCEPT ![p] = [ns |-> ns, name |-> name]]
          /\ used' = used \cup {i}
          /\ overlap' = overlap \cup {{i, id[q]} : q \in {r \in Procs : pc[r] # "idle"}}
    BY <1>1 DEF RegisterModel
  <2>2. [ns |-> ns, name |-> name] \in Named
    BY <2>1 DEF Named, Infos
  <2>3. \A q \in InFlight : q # p /\ id[q] \in used /\ {i, id[q]} \in overlap'
    BY <1>1, <2>1 DEF RegisterModel, InFlight, TypeOK, FreshIds
  <2>4. overlap' \subseteq SUBSET used'
    BY <2>1, <2>3 DEF TypeOK, InFlight
  <2>5. TypeOK'
    BY <1>1, <2>1, <2>2, <2>4 DEF RegisterModel, TypeOK
  <2>6. Present' = Present
    BY <1>1 DEF RegisterModel, Present
  <2>7. InFlight' = InFlight \cup {p} /\ \A q \in InFlight : id'[q] = id[q]
    BY <1>1, <2>1, <2>3 DEF RegisterModel, InFlight, TypeOK
  <2>8. id'[p] = i /\ i \notin used
    BY <2>1 DEF TypeOK
  <2>9. FreshIds'
    <3>1. \A q \in InFlight' : id'[q] \in used' \ known'
      BY <1>1, <2>1, <2>3, <2>7, <2>8 DEF RegisterModel, FreshIds, TypeOK
    <3>2. ASSUME NEW q \in InFlight', NEW r \in InFlight', q # r
          PROVE  id'[q] # id'[r] /\ {id'[q], id'[r]} \in overlap'
      <4>1. CASE q = p
        BY <3>2, <4>1, <2>3, <2>7, <2>8
      <4>2. CASE r = p
        <5>1. {id'[q], id'[r]} = {id'[r], id'[q]}
          OBVIOUS
        <5> QED
          BY <3>2, <4>2, <2>3, <2>7, <2>8, <5>1
      <4>3. CASE q # p /\ r # p
        BY <3>2, <4>3, <2>1, <2>7 DEF FreshIds
      <4> QED
        BY <4>1, <4>2, <4>3
    <3> QED
      BY <3>1, <3>2 DEF FreshIds
  <2>10. ScanCovers'
    BY <1>1, <2>1, <2>6 DEF RegisterModel, ScanCovers, TypeOK
  <2> QED
    BY <1>1, <2>1, <2>5, <2>6, <2>9, <2>10 DEF RegisterModel, DuplicatesNeedOverlap, RemovedStaysRemoved
<1>2. ASSUME NEW p \in Procs, ListKeys(p) PROVE RegistryInv'
  BY <1>2 DEF ListKeys, TypeOK, Present, FreshIds, InFlight, ScanCovers, DuplicatesNeedOverlap,
     RemovedStaysRemoved
<1>3. ASSUME NEW p \in Procs, NEW i \in Ids, Scan(p, i) PROVE RegistryInv'
  <2>1. TypeOK' /\ Present' = Present
    BY <1>3 DEF Scan, TypeOK, Present
  <2>2. FreshIds'
    BY <1>3 DEF Scan, TypeOK, FreshIds, InFlight
  <2>3. ScanCovers'
    BY <1>3, <2>1 DEF Scan, TypeOK, ScanCovers
  <2> QED
    BY <1>3, <2>1, <2>2, <2>3 DEF Scan, DuplicatesNeedOverlap, RemovedStaysRemoved
<1>4. ASSUME NEW p \in Procs, PutModel(p) PROVE RegistryInv'
  <2>1. /\ pc[p] = "scan" /\ todo[p] = {} /\ id[p] \in Ids /\ id[p] \in used \ known
        /\ info[p] \in Infos /\ info[p] # Absent /\ p \in InFlight
    BY <1>4 DEF PutModel, TypeOK, FreshIds, InFlight, Named, Infos
  <2>2. InFlight' = InFlight \ {p}
    BY <1>4 DEF PutModel, TypeOK, InFlight
  <2>3. CASE UNCHANGED <<models, known>>
    BY <1>4, <2>2, <2>3 DEF PutModel, TypeOK, Present, FreshIds, ScanCovers,
       DuplicatesNeedOverlap, RemovedStaysRemoved
  <2>4. CASE models' = [models EXCEPT ![id[p]] = info[p]] /\ known' = known \cup {id[p]}
    <3>1. Present' = Present \cup {id[p]} /\ id[p] \notin Present /\ models'[id[p]] = info[p]
          /\ \A j \in Present : models'[j] = models[j]
      BY <2>1, <2>4 DEF TypeOK, Present
    <3>2. TypeOK'
      BY <1>4, <2>1, <2>4 DEF PutModel, TypeOK
    <3>3. FreshIds'
      BY <1>4, <2>1, <2>2, <2>4 DEF PutModel, TypeOK, FreshIds
    <3>4. ScanCovers'
      <4> SUFFICES ASSUME NEW q \in Procs, NEW j \in Present', pc'[q] = "scan", models'[j] = info'[q]
                   PROVE  j \in todo'[q] \/ j \in updated' \/ {id'[q], j} \in overlap'
        BY DEF ScanCovers
      <4>1. q # p /\ pc[q] = "scan" /\ q \in InFlight
        BY <1>4 DEF PutModel, TypeOK, InFlight
      <4>2. CASE j = id[p]
        BY <1>4, <2>1, <4>1, <4>2 DEF PutModel, FreshIds
      <4>3. CASE j # id[p]
        BY <1>4, <3>1, <4>1, <4>3 DEF PutModel, ScanCovers
      <4> QED
        BY <4>2, <4>3
    <3>5. DuplicatesNeedOverlap'
      <4>1. \A j \in Present : models[j] = info[p]
               => j \in updated \/ ({id[p], j} \in overlap /\ {j, id[p]} \in overlap)
        <5>1. \A j \in Present : {id[p], j} = {j, id[p]}
          OBVIOUS
        <5> QED
          BY <2>1, <5>1 DEF ScanCovers
      <4> QED
        BY <1>4, <3>1, <4>1 DEF PutModel, DuplicatesNeedOverlap
    <3>6. RemovedStaysRemoved'
      BY <1>4, <2>1, <2>4 DEF PutModel, TypeOK, RemovedStaysRemoved
    <3> QED
      BY <2>4, <3>1, <3>2, <3>3, <3>4, <3>5, <3>6
  <2> QED
    BY <1>4, <2>3, <2>4 DEF PutModel
<1>5. ASSUME NEW i \in Ids, DeRegisterModel(i) PROVE RegistryInv'
  <2>1. Present' = Present \ {i} /\ \A j \in Present' : models'[j] = models[j]
    BY <1>5 DEF DeRegisterModel, Present, TypeOK
  <2>2. TypeOK'
    BY <1>5 DEF DeRegisterModel, TypeOK
  <2>3. FreshIds'
    BY <1>5 DEF DeRegisterModel, FreshIds, InFlight
  <2>4. ScanCovers' /\ DuplicatesNeedOverlap'
    BY <1>5, <2>1 DEF DeRegisterModel, ScanCovers, DuplicatesNeedOverlap
  <2>5. RemovedStaysRemoved'
    BY <1>5 DEF DeRegisterModel, RemovedStaysRemoved, TypeOK
  <2> QED
    BY <1>5, <2>1, <2>2, <2>3, <2>4, <2>5 DEF DeRegisterModel
<1>6. ASSUME NEW i \in Ids, NEW r \in Infos, UpdateModel(i, r) PROVE RegistryInv'
  <2>1. Present' = Present \cup {i} /\ i \in known /\ i \in updated'
        /\ \A j \in Present : j # i => models'[j] = models[j]
    BY <1>6 DEF UpdateModel, Present, TypeOK, Infos
  <2>2. TypeOK'
    BY <1>6 DEF UpdateModel, TypeOK
  <2>3. FreshIds'
    BY <1>6 DEF UpdateModel, FreshIds, InFlight
  <2>4. ScanCovers' /\ DuplicatesNeedOverlap'
    BY <1>6, <2>1 DEF UpdateModel, ScanCovers, DuplicatesNeedOverlap
  <2>5. RemovedStaysRemoved'
    BY <1>6 DEF UpdateModel, RemovedStaysRemoved, TypeOK
  <2> QED
    BY <1>6, <2>1, <2>2, <2>3, <2>4, <2>5 DEF UpdateModel
<1>7. CASE UNCHANGED vars
  BY <1>7 DEF vars, TypeOK, Present, FreshIds, InFlight, ScanCovers, DuplicatesNeedOverlap,
     RemovedStaysRemoved
<1> QED
  BY <1>1, <1>2, <1>3, <1>4, <1>5, <1>6, <1>7 DEF Next, Register

(* The registry's invariant holds in every reachable state. *)
LEMMA RegistryInvariant == Spec => []RegistryInv
<1>1. Init => RegistryInv
  BY RegistryInit
<1>2. RegistryInv /\ [Next]_vars => RegistryInv'
  BY RegistryStep
<1> QED
  BY <1>1, <1>2, PTL DEF Spec

(* Every variable of the registry keeps its shape, whatever the handlers   *)
(* interleave.                                                             *)
THEOREM RegistryTypeCorrect == Spec => []TypeOK
<1>1. RegistryInv => TypeOK
  BY DEF RegistryInv
<1> QED
  BY <1>1, RegistryInvariant, PTL

(* However many RegisterModel calls run at once and whatever is removed or *)
(* renamed meanwhile, two stored models share a name only if their         *)
(* registrations overlapped or one was renamed.                            *)
THEOREM ClashesNeedOverlap == Spec => []DuplicatesNeedOverlap
<1>1. RegistryInv => DuplicatesNeedOverlap
  BY DEF RegistryInv
<1> QED
  BY <1>1, RegistryInvariant, PTL

(* No handler in flight Puts a deregistered model again: only UpdateModel  *)
(* brings one back.                                                        *)
THEOREM NoRegistrationRevives == Spec => []RemovedStaysRemoved
<1>1. RegistryInv => RemovedStaysRemoved
  BY DEF RegistryInv
<1> QED
  BY <1>1, RegistryInvariant, PTL


-----------------------------------------------------------------------------
(* The clients.  The invariants.                                           *)

ClientTypes ==
    /\ phase \in [Users -> {"shell", "send", "wait", "save", "write"}]
    /\ cfg \in [Users -> Configs] /\ setting \in [Users -> Formats \cup Namespaces]
    /\ file \in Configs \cup {Missing, Empty, Bad} /\ kept \in Configs
    /\ call \in [Users -> Procs \cup {NoCall}] /\ DOMAIN answer = Users
    /\ late \subseteq [id : Ids, request : Infos \cup {Absent}]
    /\ owner \in [Ids -> Users \cup {NoCall}] /\ gaveUp \subseteq Ids
    /\ events \in Nat

(* As long as saves did not overlap, at most one command is saving, it     *)
(* will write what was acknowledged with its own setting changed, and      *)
(* between saves the file says what was acknowledged.                      *)
Savers == {u \in Users : phase[u] \in {"save", "write"}}

ConfigOK ==
    clash \/ /\ \A u, v \in Savers : u = v
             /\ \A u \in Savers : cfg[u] = Set(kept, setting[u])
             /\ \A u \in Users : phase[u] = "write" => file = Empty
             /\ (\A u \in Users : phase[u] # "write") => file # Bad /\ LoadConfig = kept

(* A client waits for one handler, and a handler in flight has a client    *)
(* that waits or one that gave up; so registrations from one terminal      *)
(* overlap only if one was given up.                                       *)
CallsOK ==
    /\ \A u \in Users : call[u] # NoCall => phase[u] = "wait" /\ answer[u] = NoCall /\ pc[call[u]] # "idle"
    /\ \A u \in Users : answer[u] # NoCall => phase[u] = "wait"
    /\ \A p \in InFlight : id[p] \in gaveUp \/ \E u \in Users : owner[id[p]] = u /\ call[u] = p
    /\ \A i, j \in Ids : i # j /\ {i, j} \in overlap => owner[i] # owner[j] \/ i \in gaveUp \/ j \in gaveUp

(* A command's outcomes so far are true, the one on its way is true, and   *)
(* the handler works on the model it will be the outcome of.               *)
Outcomes == {"ok", "exists", "failed"}

Fits(ph, list, outcomes, ans, stored) ==
    /\ list \in Seq(Infos) /\ outcomes \in Seq(Outcomes) /\ Len(outcomes) <= Len(list)
    /\ ph \in {"shell", "save", "write"} => Len(outcomes) = 0
    /\ ph = "wait" => Len(outcomes) < Len(list)
    /\ \A k \in 1..Len(outcomes) : outcomes[k] # "failed" => list[k] \in stored
    /\ ans \in Outcomes \cup {NoCall}
    /\ ans \in {"ok", "exists"} => list[Len(outcomes) + 1] \in stored

ReportsOK ==
    /\ DOMAIN jobs = Users /\ DOMAIN report = Users
    /\ \A u \in Users : Fits(phase[u], jobs[u], report[u], answer[u], seen[u])
    /\ \A u \in Users : call[u] # NoCall => info[call[u]] = jobs[u][Len(report[u]) + 1]

ClientInv == RegistryInv /\ ClientTypes /\ ConfigOK /\ CallsOK /\ ReportsOK


-----------------------------------------------------------------------------
(* A namespace is always resolved to one. *)
LEMMA Resolves ==
  ASSUME ClientTypes, file # Bad,
         NEW flag \in Namespaces \cup {NoNs}, NEW a \in Namespaces \cup {NoNs}, NEW b \in Namespaces \cup {NoNs}
  PROVE  /\ LoadConfig \in Configs
         /\ ResolveNamespace(flag, a, b, LoadConfig.ns) \in Namespaces
<1>1. DefaultConfig \in Configs
  BY ClientConstants DEF DefaultConfig, Configs
<1>2. LoadConfig \in Configs
  BY <1>1 DEF LoadConfig, ClientTypes
<1>3. LoadConfig.ns \in Namespaces \cup {NoNs}
  BY <1>2 DEF Configs
<1> QED
  BY <1>2, <1>3, ClientConstants DEF ResolveNamespace

(* The steps of the composition, with the requests they carry. *)
LEMMA StepCases ==
  ASSUME ClientTypes, Step
  PROVE  \/ \E u \in Users, p \in Procs : Send(u, p)
         \/ \E u \in Users : Refused(u) \/ Receive(u) \/ Finish(u) \/ TruncateFile(u) \/ WriteFile(u)
                               \/ Timeout(u) \/ Kill(u)
         \/ \E u \in Users, s \in Formats \cup Namespaces : SetConfig(u, s)
         \/ \E u \in Users, list \in Seq(Infos) : Begin(u, list)
         \/ \E p \in Procs : Handle(p)
         \/ \E i \in Ids : DeRegisterModel(i) /\ UNCHANGED clientVars
         \/ \E u \in Users, i \in Ids, r \in Infos \cup {Absent} : CallTimesOut(u, i, r)
         \/ \E i \in Ids, r \in Infos :
               /\ UpdateModel(i, r) /\ Event
               /\ UNCHANGED <<phase, cfg, setting, jobs, report, call, answer, file, late, owner, gaveUp, kept, clash>>
         \/ \E m \in late : LateCall(m)
<1>0. NoNs \in Namespaces \cup {NoNs} /\ Flags \subseteq Namespaces \cup {NoNs}
  BY ClientConstants
<1>1. ASSUME NEW u \in Users, NEW m \in Manifests, NEW flag \in Flags, Apply(u, m, flag)
      PROVE  \E list \in Seq(Infos) : Begin(u, list)
  <2> DEFINE ns(k) == ResolveNamespace(flag, m.models[k].ns, m.ns, LoadConfig.ns)
             list == [k \in DOMAIN m.models |-> [ns |-> ns(k), name |-> m.models[k].name]]
  <2>1. Begin(u, list) /\ file # Bad
    BY <1>1 DEF Apply, Begin
  <2>2. /\ m.ns \in Namespaces \cup {NoNs} /\ m.models \in Seq(Entries)
        /\ DOMAIN m.models = 1..Len(m.models) /\ Len(m.models) \in Nat
    BY ClientConstants
  <2>3. \A k \in DOMAIN m.models : m.models[k].ns \in Namespaces \cup {NoNs} /\ m.models[k].name \in Names \cup {NoName}
    <3> TAKE k \in DOMAIN m.models
    <3>1. m.models[k] \in Entries
      BY <2>2
    <3> QED
      BY <3>1 DEF Entries
  <2>4. \A k \in DOMAIN m.models : ns(k) \in Namespaces
    BY <1>0, <2>1, <2>2, <2>3, Resolves
  <2>5. \A k \in DOMAIN m.models : [ns |-> ns(k), name |-> m.models[k].name] \in Infos
    BY <2>3, <2>4 DEF Infos
  <2>6. list \in Seq(Infos)
    BY <2>2, <2>5
  <2> HIDE DEF list
  <2> QED
    BY <2>1, <2>6
<1>2. ASSUME NEW u \in Users, NEW name \in Names \cup {NoName}, NEW flag \in Flags, ModelRegister(u, name, flag)
      PROVE  \E list \in Seq(Infos) : Begin(u, list)
  <2> DEFINE list == <<[ns |-> ResolveNamespace(flag, NoNs, NoNs, LoadConfig.ns), name |-> name]>>
  <2>1. Begin(u, list) /\ file # Bad
    BY <1>2 DEF ModelRegister, Begin
  <2>2. list \in Seq(Infos)
    BY <1>0, <2>1, Resolves DEF Infos
  <2> HIDE DEF list
  <2> QED
    BY <2>1, <2>2
<1>3. ASSUME file # Bad, NEW name \in Names \cup {NoName}, NEW flag \in Flags
      PROVE  UpdateRequest(name, flag) \in Infos
  BY <1>0, <1>3, Resolves DEF UpdateRequest, Infos
<1>4. ASSUME NEW u \in Users, NEW i \in Ids, NEW name \in Names \cup {NoName}, NEW flag \in Flags,
             ModelUpdate(u, i, name, flag)
      PROVE  \E r \in Infos :
               /\ UpdateModel(i, r) /\ Event
               /\ UNCHANGED <<phase, cfg, setting, jobs, report, call, answer, file, late, owner, gaveUp, kept, clash>>
  BY <1>3, <1>4 DEF ModelUpdate
<1>5. ASSUME NEW u \in Users, NEW i \in Ids, NEW name \in Names \cup {NoName}, NEW flag \in Flags,
             CallTimesOut(u, i, UpdateRequest(name, flag))
      PROVE  \E r \in Infos \cup {Absent} : CallTimesOut(u, i, r)
  <2>1. file # Bad
    BY <1>5 DEF CallTimesOut
  <2> QED
    BY <1>3, <1>5, <2>1
<1>6. ASSUME NEW u \in Users, NEW i \in Ids, ModelDeregister(u, i)
      PROVE  DeRegisterModel(i) /\ UNCHANGED clientVars
  BY <1>6 DEF ModelDeregister
<1> QED
  BY <1>1, <1>2, <1>4, <1>5, <1>6 DEF Step, UserStep

(* What the clients do to the registry are its own steps, so its invariant *)
(* holds here too.                                                         *)
LEMMA RegistrySteps ==
  ASSUME ClientTypes, [ClientNext]_allVars
  PROVE  [Next]_vars
<1>1. CASE UNCHANGED registryVars
  BY <1>1 DEF registryVars, vars
<1>2. ASSUME NEW u \in Users, NEW p \in Procs, Send(u, p) PROVE Next
  BY <1>2 DEF Send, Next
<1>3. ASSUME NEW u \in Users,
             Refused(u) \/ Receive(u) \/ Finish(u) \/ TruncateFile(u) \/ WriteFile(u) \/ Timeout(u) \/ Kill(u)
      PROVE  UNCHANGED registryVars
  BY <1>3 DEF Refused, Receive, Finish, TruncateFile, WriteFile, Timeout, Kill
<1>4. ASSUME NEW u \in Users, NEW s, SetConfig(u, s) PROVE UNCHANGED registryVars
  BY <1>4 DEF SetConfig
<1>5. ASSUME NEW u \in Users, NEW list, Begin(u, list) PROVE UNCHANGED registryVars
  BY <1>5 DEF Begin
<1>6. ASSUME NEW p \in Procs, Handle(p) PROVE Next
  BY <1>6 DEF Handle, Next
<1>7. ASSUME NEW i \in Ids, DeRegisterModel(i) PROVE Next
  BY <1>7 DEF Next
<1>8. ASSUME NEW u \in Users, NEW i \in Ids, NEW r, CallTimesOut(u, i, r) PROVE UNCHANGED registryVars
  BY <1>8 DEF CallTimesOut
<1>9. ASSUME NEW i \in Ids, NEW r \in Infos, UpdateModel(i, r) PROVE Next
  BY <1>9 DEF Next
<1>10. ASSUME NEW m \in late, LateCall(m) PROVE Next
  <2>1. m.id \in Ids /\ m.request \in Infos \cup {Absent}
    BY DEF ClientTypes
  <2> QED
    BY <1>10, <2>1 DEF LateCall, Next
<1>11. CASE Step
  BY <1>1, <1>2, <1>3, <1>4, <1>5, <1>6, <1>7, <1>8, <1>9, <1>10, <1>11, StepCases
<1> QED
  BY <1>1, <1>11 DEF ClientNext, allVars


(* The variables of the clients keep their shapes. *)
LEMMA ClientTypesStep ==
  ASSUME TypeOK, TypeOK', ClientTypes, [ClientNext]_allVars
  PROVE  ClientTypes'
<1> USE DEF ClientTypes
<1>0. DefaultConfig \in Configs /\ \A c \in Configs, s \in Formats \cup Namespaces : Set(c, s) \in Configs
  BY ClientConstants DEF DefaultConfig, Configs, Set
<1>r. file # Bad => LoadConfig \in Configs
  BY <1>0 DEF LoadConfig
<1>f. ASSUME NEW u \in Users, Forget(u)
      PROVE  cfg' \in [Users -> Configs] /\ setting' \in [Users -> Formats \cup Namespaces]
  BY <1>f, <1>0, ClientConstants DEF Forget
<1>a. ASSUME NEW u \in Users, Abandon(u) PROVE gaveUp' \subseteq Ids
  BY <1>a DEF Abandon, TypeOK
<1>e. Event => events' \in Nat
  BY DEF Event
<1>1. CASE UNCHANGED allVars
  BY <1>1 DEF allVars, clientVars
<1>2. ASSUME NEW u \in Users, NEW p \in Procs, Send(u, p) PROVE ClientTypes'
  <2>1. id'[p] \in Ids
    BY DEF TypeOK
  <2> QED
    BY <1>2, <2>1 DEF Send
<1>3. ASSUME NEW u \in Users, Refused(u) \/ Receive(u) PROVE ClientTypes'
  BY <1>3, <1>e DEF Refused, Receive, Reported
<1>4. ASSUME NEW u \in Users, Timeout(u) PROVE ClientTypes'
  BY <1>4, <1>e, <1>a DEF Timeout, Reported
<1>5. ASSUME NEW u \in Users, Finish(u) \/ TruncateFile(u) PROVE ClientTypes'
  BY <1>5 DEF Finish, TruncateFile
<1>6. ASSUME NEW u \in Users, WriteFile(u) PROVE ClientTypes'
  BY <1>6, <1>0, <1>f DEF WriteFile
<1>7. ASSUME NEW u \in Users, Kill(u) PROVE ClientTypes'
  BY <1>7, <1>e, <1>a, <1>f DEF Kill
<1>8. ASSUME NEW u \in Users, NEW s \in Formats \cup Namespaces, SetConfig(u, s) PROVE ClientTypes'
  BY <1>8, <1>0, <1>r, <1>e DEF SetConfig
<1>9. ASSUME NEW u \in Users, NEW list, Begin(u, list) PROVE ClientTypes'
  BY <1>9 DEF Begin
<1>10. ASSUME NEW p \in Procs, Handle(p) PROVE ClientTypes'
  BY <1>10 DEF Handle
<1>11. ASSUME UNCHANGED clientVars PROVE ClientTypes'
  BY <1>11 DEF clientVars
<1>12. ASSUME NEW u \in Users, NEW i \in Ids, NEW r \in Infos \cup {Absent}, CallTimesOut(u, i, r) PROVE ClientTypes'
  BY <1>12, <1>e DEF CallTimesOut
<1>13. ASSUME Event, UNCHANGED <<phase, cfg, setting, jobs, report, call, answer, file, late, owner, gaveUp, kept, clash>>
       PROVE  ClientTypes'
  BY <1>13, <1>e
<1>14. ASSUME NEW m \in late, LateCall(m) PROVE ClientTypes'
  BY <1>14 DEF LateCall
<1>15. CASE Step
  BY <1>2, <1>3, <1>4, <1>5, <1>6, <1>7, <1>8, <1>9, <1>10, <1>11, <1>12, <1>13, <1>14, <1>15, StepCases
<1> QED
  BY <1>1, <1>15 DEF ClientNext

(* Every step keeps the configuration file in step with what was           *)
(* acknowledged.                                                           *)
LEMMA ConfigStep ==
  ASSUME ClientTypes, ConfigOK, [ClientNext]_allVars
  PROVE  ConfigOK'
<1>0. /\ DOMAIN phase = Users /\ DOMAIN cfg = Users /\ DOMAIN setting = Users
      /\ file \in Configs \cup {Missing, Empty, Bad} /\ kept \in Configs
      /\ \A u \in Users : cfg[u] \in Configs
  BY DEF ClientTypes
<1>b. Bad # Empty /\ \A c \in Configs : c # Missing /\ c # Empty /\ c # Bad
  BY ClientConstants
<1>q. ASSUME UNCHANGED <<cfg, setting, file, kept>>, clash => clash',
             \A u \in Users : phase'[u] = phase[u] \/ {phase'[u], phase[u]} \cap {"save", "write"} = {}
      PROVE  ConfigOK'
  <2>1. LoadConfig' = LoadConfig
    BY <1>q DEF LoadConfig
  <2>2. Savers' = Savers
    BY <1>q DEF Savers
  <2>3. \A u \in Users : phase'[u] = "write" <=> phase[u] = "write"
    BY <1>q
  <2> QED
    BY <1>q, <2>1, <2>2, <2>3 DEF ConfigOK
<1>1. CASE UNCHANGED allVars
  BY <1>1, <1>q DEF allVars, clientVars
<1>2. ASSUME NEW u \in Users, NEW p \in Procs, Send(u, p) PROVE ConfigOK'
  BY <1>0, <1>2, <1>q DEF Send, Unsent
<1>3. ASSUME NEW u \in Users, Refused(u) \/ Receive(u) \/ Timeout(u) PROVE ConfigOK'
  BY <1>0, <1>3, <1>q DEF Refused, Receive, Timeout, Reported, Unsent
<1>4. ASSUME NEW u \in Users, Finish(u) PROVE ConfigOK'
  BY <1>0, <1>4, <1>q DEF Finish
<1>5. ASSUME NEW u \in Users, NEW list, Begin(u, list) PROVE ConfigOK'
  BY <1>0, <1>5, <1>q DEF Begin
<1>6. ASSUME NEW p \in Procs, Handle(p) PROVE ConfigOK'
  BY <1>6, <1>q DEF Handle
<1>7. ASSUME UNCHANGED clientVars PROVE ConfigOK'
  BY <1>7, <1>q DEF clientVars
<1>8. ASSUME UNCHANGED <<phase, cfg, setting, jobs, report, call, answer, file, late, owner, gaveUp, kept, clash>>
      PROVE  ConfigOK'
  BY <1>8, <1>q
<1>9. ASSUME NEW u \in Users, NEW i, NEW r, CallTimesOut(u, i, r) PROVE ConfigOK'
  BY <1>9, <1>q DEF CallTimesOut
<1>10. ASSUME NEW m \in late, LateCall(m) PROVE ConfigOK'
  BY <1>10, <1>q DEF LateCall
<1>11. ASSUME NEW u \in Users, NEW s \in Formats \cup Namespaces, SetConfig(u, s) PROVE ConfigOK'
  <2>1. /\ phase[u] = "shell" /\ phase' = [phase EXCEPT ![u] = "save"] /\ file # Bad /\ UNCHANGED <<file, kept>>
        /\ cfg' = [cfg EXCEPT ![u] = Set(LoadConfig, s)] /\ setting' = [setting EXCEPT ![u] = s]
        /\ clash' = (clash \/ \E v \in Users \ {u} : phase[v] \in {"save", "write"})
    BY <1>11 DEF SetConfig
  <2>2. CASE clash \/ \E v \in Users \ {u} : phase[v] \in {"save", "write"}
    BY <2>1, <2>2 DEF ConfigOK
  <2>3. CASE ~clash /\ \A v \in Users \ {u} : phase[v] \notin {"save", "write"}
    <3>1. LoadConfig = kept /\ LoadConfig' = kept
      BY <2>1, <2>3 DEF ConfigOK, LoadConfig
    <3>2. Savers' = {u} /\ \A v \in Users : phase'[v] # "write"
      BY <1>0, <2>1, <2>3 DEF Savers
    <3>3. cfg'[u] = Set(kept', setting'[u])
      BY <1>0, <2>1, <3>1
    <3> QED
      BY <2>1, <3>1, <3>2, <3>3 DEF ConfigOK
  <2> QED
    BY <2>2, <2>3
<1>12. ASSUME NEW u \in Users, TruncateFile(u) PROVE ConfigOK'
  <2>1. /\ phase[u] = "save" /\ file' = Empty /\ phase' = [phase EXCEPT ![u] = "write"]
        /\ UNCHANGED <<cfg, setting, kept, clash>>
    BY <1>12 DEF TruncateFile
  <2>2. Savers' = Savers /\ phase'[u] = "write"
    BY <1>0, <2>1 DEF Savers
  <2> QED
    BY <2>1, <2>2 DEF ConfigOK
<1>13. ASSUME NEW u \in Users, WriteFile(u) PROVE ConfigOK'
  <2>1. /\ phase[u] = "write" /\ phase' = [phase EXCEPT ![u] = "shell"]
        /\ file' \in {cfg[u]} \cup IF file = Empty THEN {} ELSE {Bad}
        /\ kept' = Set(kept, setting[u]) /\ clash' = clash
    BY <1>13 DEF WriteFile
  <2>2. CASE clash
    BY <2>1, <2>2 DEF ConfigOK
  <2>3. CASE ~clash
    <3>1. u \in Savers
      BY <2>1 DEF Savers
    <3>2. cfg[u] = kept' /\ file = Empty /\ \A v \in Savers : v = u
      BY <2>1, <2>3, <3>1 DEF ConfigOK
    <3>3. file' = cfg[u]
      BY <2>1, <3>2
    <3>4. file' # Bad /\ LoadConfig' = kept'
      BY <1>0, <1>b, <3>2, <3>3 DEF LoadConfig
    <3>5. Savers' = {} /\ \A v \in Users : phase'[v] # "write"
      BY <1>0, <2>1, <3>2 DEF Savers
    <3> QED
      BY <3>4, <3>5 DEF ConfigOK
  <2> QED
    BY <2>2, <2>3
<1>14. ASSUME NEW u \in Users, Kill(u) PROVE ConfigOK'
  <2>1. /\ clash' = (clash \/ phase[u] = "write") /\ phase' = [phase EXCEPT ![u] = "shell"] /\ Forget(u)
        /\ UNCHANGED <<file, kept>>
    BY <1>14 DEF Kill
  <2>2. CASE clash \/ phase[u] = "write"
    BY <2>1, <2>2 DEF ConfigOK
  <2>3. CASE ~clash /\ phase[u] # "write"
    <3>1. Savers' = Savers \ {u} /\ \A v \in Users : phase'[v] = "write" <=> phase[v] = "write"
      BY <1>0, <2>1, <2>3 DEF Savers
    <3>2. \A v \in Savers \ {u} : v \in Users /\ cfg'[v] = cfg[v] /\ setting'[v] = setting[v]
      BY <1>0, <2>1 DEF Forget, Savers
    <3>3. LoadConfig' = LoadConfig
      BY <2>1 DEF LoadConfig
    <3> QED
      BY <2>1, <2>3, <3>1, <3>2, <3>3 DEF ConfigOK
  <2> QED
    BY <2>2, <2>3
<1>15. CASE Step
  BY <1>2, <1>3, <1>4, <1>5, <1>6, <1>7, <1>8, <1>9, <1>10, <1>11, <1>12, <1>13, <1>14, <1>15, StepCases
<1> QED
  BY <1>1, <1>15 DEF ClientNext


(* A step of a handler changes that handler's program counter and scan. *)
LEMMA HandlerStep ==
  ASSUME TypeOK, NEW p \in Procs, Register(p)
  PROVE  /\ UNCHANGED <<id, info, overlap, used>> /\ pc[p] # "idle"
         /\ \A q \in Procs : q # p => pc'[q] = pc[q]
<1>1. CASE ListKeys(p)
  BY <1>1 DEF ListKeys, TypeOK
<1>2. ASSUME NEW i \in Ids, Scan(p, i)
      PROVE  /\ UNCHANGED <<id, info, overlap, used>> /\ pc[p] # "idle"
             /\ \A q \in Procs : q # p => pc'[q] = pc[q]
  BY <1>2 DEF Scan, TypeOK
<1>3. CASE PutModel(p)
  BY <1>3 DEF PutModel, TypeOK
<1> QED
  BY <1>1, <1>2, <1>3 DEF Register

(* Every step keeps clients and handlers paired. *)
LEMMA CallsStep ==
  ASSUME RegistryInv, ClientTypes, CallsOK, [ClientNext]_allVars
  PROVE  CallsOK'
<1> USE ClientConstants
<1>0. /\ DOMAIN phase = Users /\ DOMAIN answer = Users /\ call \in [Users -> Procs \cup {NoCall}]
      /\ owner \in [Ids -> Users \cup {NoCall}] /\ gaveUp \subseteq Ids
      /\ TypeOK /\ id \in [Procs -> Ids] /\ DOMAIN pc = Procs /\ InFlight \subseteq Procs
  BY DEF ClientTypes, RegistryInv, TypeOK, InFlight
<1>q. ASSUME UNCHANGED <<call, answer, owner, gaveUp, pc, id, overlap>>,
             \A u \in Users : phase[u] = "wait" => phase'[u] = "wait"
      PROVE  CallsOK'
  BY <1>q DEF CallsOK, InFlight
<1>1. CASE UNCHANGED allVars
  BY <1>1, <1>q DEF allVars, clientVars, registryVars
<1>2. ASSUME NEW u \in Users, NEW p \in Procs, Send(u, p) PROVE CallsOK'
  <2>1. PICK i \in Ids \ used :
          /\ id' = [id EXCEPT ![p] = i]
          /\ overlap' = overlap \cup {{i, id[q]} : q \in {r \in Procs : pc[r] # "idle"}}
    BY <1>2 DEF Send, RegisterModel
  <2>2. /\ pc[p] = "idle" /\ pc' = [pc EXCEPT ![p] = "keys"] /\ id'[p] = i
        /\ phase[u] = "send" /\ call' = [call EXCEPT ![u] = p] /\ phase' = [phase EXCEPT ![u] = "wait"]
        /\ owner' = [owner EXCEPT ![i] = u] /\ UNCHANGED <<answer, gaveUp>>
    BY <1>0, <1>2, <2>1 DEF Send, RegisterModel, Unsent
  <2>3. call[u] = NoCall /\ answer[u] = NoCall
    BY <2>2 DEF CallsOK
  <2>4. InFlight' = InFlight \cup {p} /\ p \notin InFlight
        /\ \A q \in InFlight : q # p /\ id'[q] = id[q] /\ id[q] \in used
    BY <1>0, <2>1, <2>2 DEF InFlight, RegistryInv, FreshIds
  <2>5. \A v \in Users : v # u => call'[v] = call[v] /\ phase'[v] = phase[v] /\ call[v] # p
    BY <1>0, <2>2 DEF CallsOK
  <2>6. \A v \in Users : call'[v] # NoCall => phase'[v] = "wait" /\ answer'[v] = NoCall /\ pc'[call'[v]] # "idle"
    <3> TAKE v \in Users
    <3>1. CASE v = u
      BY <1>0, <2>2, <2>3, <3>1
    <3>2. CASE v # u
      BY <1>0, <2>2, <2>5, <3>2 DEF CallsOK
    <3> QED
      BY <3>1, <3>2
  <2>7. \A v \in Users : answer'[v] # NoCall => phase'[v] = "wait"
    BY <1>0, <2>2, <2>3, <2>5 DEF CallsOK
  <2>8. \A q \in InFlight : id[q] \in gaveUp \/ \E v \in Users : v # u /\ owner[id[q]] = v /\ call[v] = q
    BY <1>0, <2>3 DEF CallsOK
  <2>9. \A j \in Ids : j # i => owner'[j] = owner[j]
    BY <1>0, <2>2
  <2>10. \A q \in InFlight' : id'[q] \in gaveUp' \/ \E v \in Users : owner'[id'[q]] = v /\ call'[v] = q
    <3> TAKE q \in InFlight'
    <3>1. CASE q = p
      BY <1>0, <2>1, <2>2, <3>1
    <3>2. CASE q # p
      <4>1. q \in InFlight /\ id'[q] = id[q] /\ id[q] # i /\ id[q] \in Ids
        BY <1>0, <2>1, <2>4, <3>2
      <4> QED
        BY <4>1, <2>2, <2>5, <2>8, <2>9
    <3> QED
      BY <3>1, <3>2
  <2>11. ASSUME NEW a \in Ids, NEW b \in Ids, a # b, {a, b} \in overlap'
         PROVE  owner'[a] # owner'[b] \/ a \in gaveUp' \/ b \in gaveUp'
    <3>1. CASE {a, b} \in overlap
      <4>1. a \in used /\ b \in used
        BY <1>0, <3>1 DEF TypeOK
      <4> QED
        BY <2>1, <2>2, <2>9, <2>11, <3>1, <4>1 DEF CallsOK
    <3>2. CASE {a, b} \notin overlap
      <4>1. PICK q \in InFlight : {a, b} = {i, id[q]}
        BY <2>1, <2>11, <3>2 DEF InFlight
      <4>2. (a = i /\ b = id[q]) \/ (b = i /\ a = id[q])
        BY <2>11, <4>1
      <4>3. id[q] # i /\ id[q] \in Ids /\ owner'[id[q]] = owner[id[q]] /\ owner'[i] = u
        BY <1>0, <2>1, <2>2, <2>4, <2>9
      <4>4. id[q] \in gaveUp \/ owner[id[q]] # u
        BY <2>8
      <4> QED
        BY <2>2, <4>2, <4>3, <4>4
    <3> QED
      BY <3>1, <3>2
  <2> QED
    BY <2>6, <2>7, <2>10, <2>11 DEF CallsOK
<1>3. ASSUME NEW u \in Users, Refused(u) PROVE CallsOK'
  <2>1. phase[u] = "send" /\ call[u] = NoCall /\ answer[u] = NoCall
    BY <1>3 DEF Refused, Unsent, CallsOK
  <2>2. /\ call' = call /\ answer' = [answer EXCEPT ![u] = NoCall] /\ phase' = [phase EXCEPT ![u] = "send"]
        /\ UNCHANGED <<owner, gaveUp, pc, id, overlap>>
    BY <1>0, <1>3, <2>1 DEF Refused, Reported, registryVars
  <2> QED
    BY <1>0, <2>1, <2>2 DEF CallsOK, InFlight
<1>4. ASSUME NEW u \in Users, Receive(u) PROVE CallsOK'
  <2>1. phase[u] = "wait" /\ answer[u] # NoCall /\ call[u] = NoCall
    BY <1>4 DEF Receive, CallsOK
  <2>2. /\ call' = call /\ answer' = [answer EXCEPT ![u] = NoCall] /\ phase' = [phase EXCEPT ![u] = "send"]
        /\ UNCHANGED <<owner, gaveUp, pc, id, overlap>>
    BY <1>0, <1>4, <2>1 DEF Receive, Reported, registryVars
  <2> QED
    BY <1>0, <2>1, <2>2 DEF CallsOK, InFlight
<1>5. ASSUME NEW u \in Users, Timeout(u) \/ Kill(u) PROVE CallsOK'
  <2>1. /\ call' = [call EXCEPT ![u] = NoCall] /\ answer' = [answer EXCEPT ![u] = NoCall]
        /\ phase'[u] # "wait" /\ \A v \in Users : v # u => phase'[v] = phase[v]
        /\ UNCHANGED <<owner, pc, id, overlap>>
    BY <1>0, <1>5 DEF Timeout, Kill, Reported, registryVars
  <2>2. gaveUp' = gaveUp \cup IF call[u] = NoCall THEN {} ELSE {id[call[u]]}
    BY <1>5 DEF Timeout, Kill, Abandon
  <2>3. \A p \in InFlight : id[p] \in gaveUp' \/ \E v \in Users : owner[id[p]] = v /\ call'[v] = p
    <3> TAKE p \in InFlight
    <3>1. CASE id[p] \in gaveUp
      BY <2>2, <3>1
    <3>2. CASE id[p] \notin gaveUp
      <4>1. PICK v \in Users : owner[id[p]] = v /\ call[v] = p
        BY <3>2 DEF CallsOK
      <4>2. CASE v = u
        BY <1>0, <2>2, <4>1, <4>2
      <4>3. CASE v # u
        BY <1>0, <2>1, <4>1, <4>3
      <4> QED
        BY <4>2, <4>3
    <3> QED
      BY <3>1, <3>2
  <2>4. \A v \in Users : call'[v] # NoCall => phase'[v] = "wait" /\ answer'[v] = NoCall /\ pc'[call'[v]] # "idle"
    BY <1>0, <2>1 DEF CallsOK
  <2>5. \A v \in Users : answer'[v] # NoCall => phase'[v] = "wait"
    BY <1>0, <2>1 DEF CallsOK
  <2>6. InFlight' = InFlight /\ gaveUp \subseteq gaveUp'
    BY <2>1, <2>2 DEF InFlight
  <2> QED
    BY <2>1, <2>3, <2>4, <2>5, <2>6 DEF CallsOK
<1>6. ASSUME NEW u \in Users, Finish(u) \/ TruncateFile(u) \/ WriteFile(u) PROVE CallsOK'
  BY <1>0, <1>6, <1>q DEF Finish, TruncateFile, WriteFile, registryVars
<1>7. ASSUME NEW u \in Users, NEW s, SetConfig(u, s) PROVE CallsOK'
  BY <1>0, <1>7, <1>q DEF SetConfig, registryVars
<1>8. ASSUME NEW u \in Users, NEW list, Begin(u, list) PROVE CallsOK'
  BY <1>0, <1>8, <1>q DEF Begin, registryVars
<1>9. ASSUME NEW p \in Procs, Handle(p) PROVE CallsOK'
  <2> DEFINE waiting == {u \in Users : call[u] = p /\ pc'[p] = "idle"}
  <2>1. PICK outcome : answer' = [u \in Users |-> IF u \in waiting THEN outcome ELSE answer[u]]
    BY <1>9 DEF Handle
  <2>2. /\ call' = [u \in Users |-> IF u \in waiting THEN NoCall ELSE call[u]]
        /\ UNCHANGED <<phase, owner, gaveUp>> /\ Register(p)
    BY <1>9 DEF Handle
  <2>3. /\ UNCHANGED <<id, overlap>> /\ pc[p] # "idle" /\ \A q \in Procs : q # p => pc'[q] = pc[q]
    BY <1>0, <2>2, HandlerStep
  <2>4. \A u \in Users : call'[u] # NoCall => phase'[u] = "wait" /\ answer'[u] = NoCall /\ pc'[call'[u]] # "idle"
    <3> SUFFICES ASSUME NEW u \in Users, call'[u] # NoCall
                 PROVE  phase'[u] = "wait" /\ answer'[u] = NoCall /\ pc'[call'[u]] # "idle"
      OBVIOUS
    <3>1. u \notin waiting /\ call'[u] = call[u] /\ answer'[u] = answer[u]
      BY <2>1, <2>2
    <3> QED
      BY <1>0, <2>2, <2>3, <3>1 DEF CallsOK
  <2>5. \A u \in Users : answer'[u] # NoCall => phase'[u] = "wait"
    BY <2>1, <2>2 DEF CallsOK
  <2>6. \A q \in InFlight' : q \in InFlight /\ (q = p => waiting = {})
    BY <2>3 DEF InFlight
  <2>7. \A q \in InFlight' : id'[q] \in gaveUp' \/ \E u \in Users : owner'[id'[q]] = u /\ call'[u] = q
    BY <2>2, <2>3, <2>6 DEF CallsOK
  <2> QED
    BY <2>2, <2>3, <2>4, <2>5, <2>7 DEF CallsOK
<1>10. ASSUME NEW i \in Ids, DeRegisterModel(i), UNCHANGED clientVars PROVE CallsOK'
  BY <1>10, <1>q DEF DeRegisterModel, clientVars
<1>11. ASSUME NEW u \in Users, NEW i, NEW r, CallTimesOut(u, i, r) PROVE CallsOK'
  BY <1>11, <1>q DEF CallTimesOut, registryVars
<1>12. ASSUME NEW i \in Ids, NEW r, UpdateModel(i, r),
              UNCHANGED <<phase, cfg, setting, jobs, report, call, answer, file, late, owner, gaveUp, kept, clash>>
       PROVE  CallsOK'
  BY <1>12, <1>q DEF UpdateModel
<1>13. ASSUME NEW m \in late, LateCall(m) PROVE CallsOK'
  BY <1>13, <1>q DEF LateCall, DeRegisterModel, UpdateModel
<1>14. CASE Step
  BY <1>2, <1>3, <1>4, <1>5, <1>6, <1>7, <1>8, <1>9, <1>10, <1>11, <1>12, <1>13, <1>14, StepCases
<1> QED
  BY <1>1, <1>14 DEF ClientNext


(* A command that has reported nothing ... *)
LEMMA FitsEmpty ==
  ASSUME NEW ph, ph # "wait", NEW list \in Seq(Infos), NEW outcomes \in Seq(Outcomes), Len(outcomes) = 0, NEW stored
  PROVE  Fits(ph, list, outcomes, NoCall, stored)
  BY ClientConstants DEF Fits

(* ... one that has seen more models stored ... *)
LEMMA FitsMore ==
  ASSUME NEW ph, NEW list, NEW outcomes, NEW ans, NEW stored, NEW stored2, stored \subseteq stored2,
         Fits(ph, list, outcomes, ans, stored)
  PROVE  Fits(ph, list, outcomes, ans, stored2)
  BY DEF Fits

(* ... and one that reports one outcome more. *)
LEMMA FitsReport ==
  ASSUME NEW ph, NEW list, NEW outcomes, NEW ans, NEW stored, Fits(ph, list, outcomes, ans, stored),
         Len(outcomes) < Len(list), NEW outcome \in Outcomes,
         outcome # "failed" => list[Len(outcomes) + 1] \in stored
  PROVE  Fits("send", list, Append(outcomes, outcome), NoCall, stored)
<1> DEFINE more == Append(outcomes, outcome)
           n == Len(outcomes)
           N == Len(list)
<1>1. /\ list \in Seq(Infos) /\ outcomes \in Seq(Outcomes) /\ n \in Nat /\ N \in Nat /\ n < N
      /\ \A k \in 1..n : outcomes[k] # "failed" => list[k] \in stored
  BY DEF Fits
<1>2. more \in Seq(Outcomes) /\ Len(more) = n + 1 /\ more[n + 1] = outcome /\ \A k \in 1..n : more[k] = outcomes[k]
  BY <1>1
<1>3. list[n + 1] \in stored \/ outcome = "failed"
  OBVIOUS
<1> HIDE DEF more, n, N
<1>4. \A k \in 1..(n + 1) : more[k] # "failed" => list[k] \in stored
  <2> TAKE k \in 1..(n + 1)
  <2>1. k = n + 1 \/ k \in 1..n
    BY <1>1
  <2> QED
    BY <1>1, <1>2, <1>3, <2>1
<1>5. n + 1 <= N
  BY <1>1
<1>6. NoCall \notin Outcomes
  BY ClientConstants DEF Outcomes
<1>7. Fits("send", list, more, NoCall, stored)
  BY <1>1, <1>2, <1>4, <1>5, <1>6 DEF Fits, N, Outcomes
<1> QED
  BY <1>7 DEF more

(* What a handler answers is true: a model it calls stored is stored. *)
LEMMA AnswersAreTrue ==
  ASSUME TypeOK, NEW p \in Procs, Register(p), pc'[p] = "idle", NEW outcome,
         outcome = CASE known' # known -> "ok" [] todo[p] # {} -> "exists" [] OTHER -> "failed"
  PROVE  outcome \in Outcomes /\ (outcome # "failed" => info[p] \in Stored')
<1> USE ModelConstants
<1>1. info[p] \in Infos /\ info[p] # Absent /\ id[p] \in Ids /\ DOMAIN pc = Procs
  BY DEF TypeOK, Named, Infos
<1>2. CASE ListKeys(p)
  BY <1>1, <1>2 DEF ListKeys
<1>3. ASSUME NEW i \in Ids, Scan(p, i) PROVE outcome \in Outcomes /\ info[p] \in Stored'
  <2>1. models[i] = info[p] /\ models' = models /\ known' = known /\ todo[p] # {} /\ outcome = "exists"
    BY <1>1, <1>3 DEF Scan
  <2>2. i \in Present' /\ models'[i] = info[p]
    BY <1>1, <2>1 DEF Present
  <2> QED
    BY <2>1, <2>2 DEF Stored, Outcomes
<1>4. CASE PutModel(p)
  <2>1. todo[p] = {}
    BY <1>4 DEF PutModel
  <2>2. CASE known' = known
    BY <2>1, <2>2 DEF Outcomes
  <2>3. CASE known' # known
    <3>1. models' = [models EXCEPT ![id[p]] = info[p]]
      BY <1>4, <2>3 DEF PutModel
    <3>2. id[p] \in Present' /\ models'[id[p]] = info[p]
      BY <1>1, <3>1 DEF Present, TypeOK
    <3> QED
      BY <2>1, <2>3, <3>2 DEF Stored, Outcomes
  <2> QED
    BY <2>2, <2>3
<1> QED
  BY <1>2, <1>3, <1>4 DEF Register


(* Every step keeps the reports true. *)
LEMMA ReportsStep ==
  ASSUME RegistryInv, ClientTypes, CallsOK, CallsOK', ReportsOK, [ClientNext]_allVars
  PROVE  ReportsOK'
<1> USE ClientConstants
<1>0. /\ DOMAIN phase = Users /\ DOMAIN answer = Users /\ DOMAIN jobs = Users /\ DOMAIN report = Users
      /\ call \in [Users -> Procs \cup {NoCall}] /\ TypeOK /\ DOMAIN info = Procs
      /\ \A v \in Users : phase[v] \in {"shell", "send", "wait", "save", "write"}
  BY DEF ClientTypes, RegistryInv, TypeOK, ReportsOK
<1>c. \A v \in Users : Fits(phase[v], jobs[v], report[v], answer[v], seen[v])
  BY DEF ReportsOK
<1>i. \A v \in Users : call[v] # NoCall => info[call[v]] = jobs[v][Len(report[v]) + 1]
  BY DEF ReportsOK
<1>a. \A v \in Users : (phase[v] # "wait" => answer[v] = NoCall /\ call[v] = NoCall)
                       /\ (call[v] # NoCall => pc[call[v]] # "idle")
  BY DEF CallsOK
<1>e. /\ \A v \in Users : jobs[v] \in Seq(Infos) /\ report[v] \in Seq(Outcomes)
      /\ \A v \in Users : phase[v] \in {"shell", "save", "write"} => Len(report[v]) = 0
  BY <1>c DEF Fits
<1>1. CASE UNCHANGED allVars
  BY <1>1 DEF allVars, clientVars, registryVars, ReportsOK
<1>w. CASE Watch
  <2>w. \A v \in Users : phase[v] # "shell" /\ phase'[v] # "shell" => seen[v] \cup Stored' \subseteq seen'[v]
    BY <1>w DEF Watch
  \* A terminal that does not move, or is not registering models.
  <2>q. ASSUME NEW v \in Users, jobs'[v] = jobs[v], report'[v] = report[v], answer'[v] = answer[v],
               phase'[v] = phase[v] \/ {phase'[v], phase[v]} \subseteq {"shell", "save", "write"}
        PROVE  Fits(phase'[v], jobs'[v], report'[v], answer'[v], seen'[v])
    <3>1. CASE phase[v] \in {"shell", "save", "write"}
      <4>1. phase'[v] # "wait" /\ answer'[v] = NoCall /\ Len(report[v]) = 0
        BY <2>q, <3>1, <1>a, <1>e
      <4> QED
        BY <2>q, <4>1, <1>e, FitsEmpty
    <3>2. CASE phase[v] \notin {"shell", "save", "write"}
      <4>1. phase'[v] = phase[v] /\ seen[v] \subseteq seen'[v]
        BY <2>q, <3>2, <2>w
      <4> QED
        BY <2>q, <4>1, <1>c, FitsMore
    <3> QED
      BY <3>1, <3>2
  <2>r. ASSUME UNCHANGED <<jobs, report, answer, call, info>>,
               \A v \in Users : phase'[v] = phase[v] \/ {phase'[v], phase[v]} \subseteq {"shell", "save", "write"}
        PROVE  ReportsOK'
    <3>1. \A v \in Users : Fits(phase'[v], jobs'[v], report'[v], answer'[v], seen'[v])
      BY <2>r, <2>q
    <3> QED
      BY <2>r, <3>1, <1>0, <1>i DEF ReportsOK
  \* One terminal moves.
  <2>o. ASSUME NEW u \in Users, Fits(phase'[u], jobs'[u], report'[u], answer'[u], seen'[u]),
               call'[u] # NoCall => info'[call'[u]] = jobs'[u][Len(report'[u]) + 1],
               DOMAIN jobs' = Users, DOMAIN report' = Users,
               \A v \in Users : v # u =>
                  /\ jobs'[v] = jobs[v] /\ report'[v] = report[v] /\ answer'[v] = answer[v]
                  /\ phase'[v] = phase[v] /\ call'[v] = call[v]
                  /\ (call[v] # NoCall => info'[call[v]] = info[call[v]])
        PROVE  ReportsOK'
    <3>1. \A v \in Users : Fits(phase'[v], jobs'[v], report'[v], answer'[v], seen'[v])
      BY <2>o, <2>q
    <3>2. ASSUME NEW v \in Users, call'[v] # NoCall PROVE info'[call'[v]] = jobs'[v][Len(report'[v]) + 1]
      <4>1. CASE v = u
        BY <2>o, <3>2, <4>1
      <4>2. CASE v # u
        <5>1. jobs'[v] = jobs[v] /\ report'[v] = report[v] /\ call'[v] = call[v]
          BY <2>o, <4>2
        <5>2. info'[call[v]] = info[call[v]]
          BY <2>o, <3>2, <4>2, <5>1
        <5>3. info[call[v]] = jobs[v][Len(report[v]) + 1]
          BY <1>i, <3>2, <5>1
        <5> QED
          BY <5>1, <5>2, <5>3
      <4> QED
        BY <4>1, <4>2
    <3> QED
      BY <2>o, <3>1, <3>2 DEF ReportsOK
  <2>2. ASSUME NEW u \in Users, NEW p \in Procs, Send(u, p) PROVE ReportsOK'
    <3>1. /\ pc[p] = "idle" /\ \A q \in Procs : q # p => info'[q] = info[q]
          /\ info'[p] = jobs[u][Len(report[u]) + 1]
          /\ phase[u] = "send" /\ Len(report[u]) < Len(jobs[u])
          /\ call' = [call EXCEPT ![u] = p] /\ phase' = [phase EXCEPT ![u] = "wait"]
          /\ UNCHANGED <<jobs, report, answer>>
      BY <1>0, <2>2 DEF Send, RegisterModel, Unsent, Current
    <3>2. answer[u] = NoCall /\ phase'[u] = "wait" /\ call'[u] = p /\ seen[u] \subseteq seen'[u]
      BY <1>0, <1>a, <2>w, <3>1
    <3>3. Fits("wait", jobs[u], report[u], NoCall, seen[u])
      BY <1>c, <3>1, <3>2 DEF Fits
    <3>4. Fits("wait", jobs[u], report[u], NoCall, seen'[u])
      BY <3>2, <3>3, FitsMore
    <3>5. \A v \in Users : v # u /\ call[v] # NoCall => call[v] \in Procs /\ call[v] # p
      BY <1>0, <1>a, <3>1
    <3> QED
      BY <1>0, <2>o, <3>1, <3>2, <3>4, <3>5
  \* The outcome of a model is added.
  <2>3. ASSUME NEW u \in Users, NEW outcome \in Outcomes, Reported(u, outcome), UNCHANGED <<jobs, info>>,
               phase[u] \in {"send", "wait"}, Len(report[u]) < Len(jobs[u]),
               outcome # "failed" => jobs[u][Len(report[u]) + 1] \in seen[u]
        PROVE  ReportsOK'
    <3>1. /\ report' = [report EXCEPT ![u] = Append(report[u], outcome)] /\ phase' = [phase EXCEPT ![u] = "send"]
          /\ call' = [call EXCEPT ![u] = NoCall] /\ answer' = [answer EXCEPT ![u] = NoCall]
      BY <2>3 DEF Reported
    <3>2. /\ report'[u] = Append(report[u], outcome) /\ phase'[u] = "send" /\ call'[u] = NoCall
          /\ answer'[u] = NoCall /\ seen[u] \subseteq seen'[u]
      BY <1>0, <2>3, <2>w, <3>1
    <3>3. Fits("send", jobs[u], Append(report[u], outcome), NoCall, seen[u])
      BY <1>c, <2>3, FitsReport
    <3>4. Fits("send", jobs[u], Append(report[u], outcome), NoCall, seen'[u])
      BY <3>2, <3>3, FitsMore
    <3>5. Fits(phase'[u], jobs'[u], report'[u], answer'[u], seen'[u])
      BY <2>3, <3>2, <3>4
    <3> QED
      BY <1>0, <2>3, <2>o, <3>1, <3>2, <3>5
  <2>4. ASSUME NEW u \in Users, Refused(u) PROVE ReportsOK'
    BY <2>3, <2>4 DEF Refused, Unsent, registryVars, Outcomes
  <2>5. ASSUME NEW u \in Users, Timeout(u) PROVE ReportsOK'
    <3>1. Len(report[u]) < Len(jobs[u])
      BY <1>c, <2>5 DEF Timeout, Fits
    <3> QED
      BY <2>3, <2>5, <3>1 DEF Timeout, registryVars, Outcomes
  <2>6. ASSUME NEW u \in Users, Receive(u) PROVE ReportsOK'
    <3>1. phase[u] = "wait" /\ answer[u] # NoCall /\ Reported(u, answer[u]) /\ UNCHANGED <<jobs, info>>
      BY <2>6 DEF Receive, registryVars
    <3>2. /\ answer[u] \in Outcomes /\ Len(report[u]) < Len(jobs[u])
          /\ answer[u] # "failed" => jobs[u][Len(report[u]) + 1] \in seen[u]
      BY <1>c, <3>1 DEF Fits, Outcomes
    <3> QED
      BY <2>3, <3>1, <3>2
  \* A command begins or ends.
  <2>7. ASSUME NEW u \in Users, NEW list \in Seq(Infos), jobs' = [jobs EXCEPT ![u] = list],
               phase'[u] # "wait", \A v \in Users : v # u => phase'[v] = phase[v],
               DOMAIN report' = Users, report'[u] \in Seq(Outcomes), Len(report'[u]) = 0,
               call'[u] = NoCall, info' = info,
               \A v \in Users : v # u => report'[v] = report[v] /\ answer'[v] = answer[v] /\ call'[v] = call[v]
        PROVE  ReportsOK'
    <3>1. answer'[u] = NoCall
      BY <2>7 DEF CallsOK
    <3>2. Fits(phase'[u], list, report'[u], NoCall, seen'[u])
      BY <2>7, FitsEmpty
    <3>3. Fits(phase'[u], jobs'[u], report'[u], answer'[u], seen'[u])
      BY <1>0, <2>7, <3>1, <3>2
    <3> QED
      BY <1>0, <2>7, <2>o, <3>3
  <2>8. ASSUME NEW u \in Users, NEW list \in Seq(Infos), Begin(u, list) PROVE ReportsOK'
    <3>1. /\ phase[u] = "shell" /\ jobs' = [jobs EXCEPT ![u] = list] /\ phase' = [phase EXCEPT ![u] = "send"]
          /\ UNCHANGED <<report, call, answer, info>>
      BY <2>8 DEF Begin, registryVars
    <3>2. Len(report[u]) = 0 /\ report[u] \in Seq(Outcomes) /\ call[u] = NoCall
      BY <1>a, <1>e, <3>1
    <3> QED
      BY <1>0, <2>7, <3>1, <3>2
  <2>9. ASSUME NEW u \in Users, Finish(u) \/ Kill(u) PROVE ReportsOK'
    <3>1. /\ jobs' = [jobs EXCEPT ![u] = <<>>] /\ report' = [report EXCEPT ![u] = <<>>]
          /\ phase' = [phase EXCEPT ![u] = "shell"] /\ info' = info
          /\ \A v \in Users : v # u => answer'[v] = answer[v] /\ call'[v] = call[v]
      BY <1>0, <2>9 DEF Finish, Kill, registryVars
    <3>2. call'[u] = NoCall
      BY <1>0, <3>1 DEF CallsOK
    <3>3. <<>> \in Seq(Infos) /\ <<>> \in Seq(Outcomes) /\ Len(<<>>) = 0
      OBVIOUS
    <3>4. report'[u] = <<>> /\ DOMAIN report' = Users
      BY <1>0, <3>1
    <3>5. /\ phase'[u] # "wait" /\ \A v \in Users : v # u => phase'[v] = phase[v]
          /\ report'[u] \in Seq(Outcomes) /\ Len(report'[u]) = 0
          /\ \A v \in Users : v # u => report'[v] = report[v]
      BY <1>0, <3>1, <3>3, <3>4
    <3>6. PICK list \in Seq(Infos) : list = <<>>
      BY <3>3
    <3>7. jobs' = [jobs EXCEPT ![u] = list]
      BY <3>1, <3>6
    <3>8. info' = info /\ \A v \in Users : v # u => answer'[v] = answer[v] /\ call'[v] = call[v]
      BY <3>1
    <3>9. DOMAIN report' = Users
      BY <3>4
    <3> QED
      BY <2>7, <3>2, <3>5, <3>7, <3>8, <3>9
  <2>10. ASSUME NEW p \in Procs, Handle(p) PROVE ReportsOK'
    <3> DEFINE outcome == CASE known' # known -> "ok" [] todo[p] # {} -> "exists" [] OTHER -> "failed"
               waiting == {u \in Users : call[u] = p /\ pc'[p] = "idle"}
    <3>1. /\ answer' = [u \in Users |-> IF u \in waiting THEN outcome ELSE answer[u]]
          /\ call' = [u \in Users |-> IF u \in waiting THEN NoCall ELSE call[u]]
          /\ UNCHANGED <<phase, jobs, report>> /\ Register(p)
      BY <2>10 DEF Handle
    <3>2. info' = info
      BY <1>0, <3>1, HandlerStep
    <3>3. pc'[p] = "idle" => outcome \in Outcomes /\ (outcome # "failed" => info[p] \in Stored')
      BY <1>0, <3>1, AnswersAreTrue
    <3> HIDE DEF outcome
    <3>4. ASSUME NEW u \in Users PROVE Fits(phase'[u], jobs'[u], report'[u], answer'[u], seen'[u])
      <4>1. CASE u \in waiting
        <5>1. call[u] = p /\ p # NoCall /\ pc'[p] = "idle" /\ answer'[u] = outcome
          BY <3>1, <4>1
        <5>2. phase[u] = "wait" /\ phase'[u] = "wait" /\ info[p] = jobs[u][Len(report[u]) + 1]
          BY <1>a, <1>i, <3>1, <5>1
        <5>3. seen[u] \subseteq seen'[u] /\ Stored' \subseteq seen'[u]
          BY <2>w, <5>2
        <5>4. Fits("wait", jobs[u], report[u], answer[u], seen'[u])
          BY <1>c, <5>2, <5>3, FitsMore
        <5>5. outcome \in Outcomes /\ (outcome # "failed" => jobs[u][Len(report[u]) + 1] \in seen'[u])
          BY <3>3, <5>1, <5>2, <5>3
        <5>6. Fits("wait", jobs[u], report[u], outcome, seen'[u])
          BY <5>4, <5>5 DEF Fits
        <5> QED
          BY <3>1, <5>1, <5>2, <5>6
      <4>2. CASE u \notin waiting
        BY <2>q, <3>1, <4>2
      <4> QED
        BY <4>1, <4>2
    <3>5. \A u \in Users : call'[u] # NoCall => call'[u] = call[u]
      BY <3>1
    <3> QED
      BY <1>0, <1>i, <3>1, <3>2, <3>4, <3>5 DEF ReportsOK
  <2>11. ASSUME NEW u \in Users, TruncateFile(u) \/ WriteFile(u) PROVE ReportsOK'
    BY <1>0, <2>11, <2>r DEF TruncateFile, WriteFile, registryVars
  <2>12. ASSUME NEW u \in Users, NEW s, SetConfig(u, s) PROVE ReportsOK'
    BY <1>0, <2>12, <2>r DEF SetConfig, registryVars
  <2>13. ASSUME NEW i \in Ids, DeRegisterModel(i), UNCHANGED clientVars PROVE ReportsOK'
    BY <2>13, <2>r DEF DeRegisterModel, clientVars
  <2>14. ASSUME NEW u \in Users, NEW i, NEW r, CallTimesOut(u, i, r) PROVE ReportsOK'
    BY <2>14, <2>r DEF CallTimesOut, registryVars
  <2>15. ASSUME NEW i \in Ids, NEW r, UpdateModel(i, r),
                UNCHANGED <<phase, cfg, setting, jobs, report, call, answer, file, late, owner, gaveUp, kept, clash>>
         PROVE  ReportsOK'
    BY <2>15, <2>r DEF UpdateModel
  <2>16. ASSUME NEW m \in late, LateCall(m) PROVE ReportsOK'
    BY <2>16, <2>r DEF LateCall, DeRegisterModel, UpdateModel
  <2>17. CASE Step
    BY <2>2, <2>4, <2>5, <2>6, <2>8, <2>9, <2>10, <2>11, <2>12, <2>13, <2>14, <2>15, <2>16, <2>17, StepCases
  <2> QED
    BY <1>1, <2>17 DEF ClientNext
<1> QED
  BY <1>1, <1>w DEF ClientNext


(* The clients' invariant holds initially ... *)
LEMMA ClientsStart == ClientInit => ClientInv
<1> SUFFICES ASSUME ClientInit PROVE ClientInv
  OBVIOUS
<1> USE ClientConstants DEF ClientInit
<1>1. RegistryInv
  BY RegistryInit
<1>2. DefaultConfig \in Configs
  BY DEF DefaultConfig, Configs
<1>3. ClientTypes
  BY <1>2 DEF ClientTypes
<1>4. LoadConfig = kept /\ file # Bad
  BY DEF LoadConfig
<1>5. ConfigOK
  BY <1>4 DEF ConfigOK, Savers
<1>6. InFlight = {} /\ overlap = {}
  BY DEF Init, InFlight
<1>7. CallsOK
  BY <1>6 DEF CallsOK
<1>8. ASSUME NEW u \in Users PROVE Fits(phase[u], jobs[u], report[u], answer[u], seen[u])
  <2>1. jobs[u] \in Seq(Infos) /\ report[u] \in Seq(Outcomes) /\ Len(report[u]) = 0
    OBVIOUS
  <2> QED
    BY <2>1, FitsEmpty
<1>9. ReportsOK
  BY <1>8 DEF ReportsOK
<1> QED
  BY <1>1, <1>3, <1>5, <1>7, <1>9 DEF ClientInv

(* ... and after every step ... *)
LEMMA ClientsStep == ClientInv /\ [ClientNext]_allVars => ClientInv'
<1> SUFFICES ASSUME ClientInv, [ClientNext]_allVars PROVE ClientInv'
  OBVIOUS
<1>0. RegistryInv /\ ClientTypes /\ ConfigOK /\ CallsOK /\ ReportsOK
  BY DEF ClientInv
<1>1. [Next]_vars
  BY <1>0, RegistrySteps
<1>2. RegistryInv'
  BY <1>0, <1>1, RegistryStep
<1>3. TypeOK /\ TypeOK'
  BY <1>0, <1>2 DEF RegistryInv
<1>4. ClientTypes'
  BY <1>0, <1>3, ClientTypesStep
<1>5. ConfigOK'
  BY <1>0, ConfigStep
<1>6. CallsOK'
  BY <1>0, CallsStep
<1>7. ReportsOK'
  BY <1>0, <1>6, ReportsStep
<1> QED
  BY <1>2, <1>4, <1>5, <1>6, <1>7 DEF ClientInv

(* ... and so always. *)
LEMMA ClientsInvariant == ClientSpec => []ClientInv
<1> QED
  BY ClientsStart, ClientsStep, PTL DEF ClientSpec

(* The composition implements the registry: a handler that a command, its  *)
(* deadline or its death leaves behind takes no step that the registry's   *)
(* specification does not have, and so keeps its properties.               *)
THEOREM ClientsRefineRegistry == ClientSpec => Spec /\ []DuplicatesNeedOverlap /\ []RemovedStaysRemoved
<1>1. ClientInit => Init
  BY DEF ClientInit
<1>2. ClientInv /\ [ClientNext]_allVars => [Next]_vars
  BY RegistrySteps DEF ClientInv
<1>3. ClientSpec => Spec
  BY <1>1, <1>2, ClientsInvariant, PTL DEF ClientSpec, Spec
<1> QED
  BY <1>3, ClashesNeedOverlap, NoRegistrationRevives, PTL

(* Whatever terminals run beside it, the next command finds every setting  *)
(* that config set-* acknowledged, unless two saves overlapped or one was  *)
(* killed: the read of the file, its truncation and its writing are three  *)
(* steps, and nothing else loses a setting.                                *)
THEOREM SettingsPersist == ClientSpec => []SettingsKept
<1>1. ClientInv => SettingsKept
  BY DEF ClientInv, ConfigOK, SettingsKept
<1> QED
  BY <1>1, ClientsInvariant, PTL

(* For any number of terminals and handlers: two models of one name come   *)
(* from two terminals, or one was renamed, or a client gave up on a        *)
(* registration, by its deadline or by being killed, that the server       *)
(* completed all the same.                                                 *)
THEOREM RetriesExplainDuplicates == ClientSpec => []DuplicatesNeedRetry
<1>1. ClientInv => DuplicatesNeedRetry
  <2> SUFFICES ASSUME ClientInv, NEW i \in Present, NEW j \in Present, i # j, models[i] = models[j]
               PROVE  owner[i] # owner[j] \/ {i, j} \cap (gaveUp \cup updated) # {}
    BY DEF DuplicatesNeedRetry
  <2>1. i \in Ids /\ j \in Ids
    BY DEF Present
  <2>2. {i, j} \in overlap \/ i \in updated \/ j \in updated
    BY DEF ClientInv, RegistryInv, DuplicatesNeedOverlap
  <2>3. {i, j} \in overlap => owner[i] # owner[j] \/ i \in gaveUp \/ j \in gaveUp
    BY <2>1 DEF ClientInv, CallsOK
  <2> QED
    BY <2>2, <2>3
<1> QED
  BY <1>1, ClientsInvariant, PTL

(* A command that is not killed ends with one outcome per model, and each  *)
(* model it reports as registered or as existing was stored, under the     *)
(* namespace it was resolved to, at some time while the command ran:       *)
(* whatever was deregistered, renamed or registered beside it, and whoever *)
(* else gave up on a call.                                                 *)
THEOREM ReportsTrue == ClientSpec => ReportsAreTrue
<1>1. ASSUME ClientInv, [ClientNext]_allVars
      PROVE  [\A u \in Users : phase[u] = "send" /\ phase'[u] = "shell" /\ events' = events =>
                 \A k \in DOMAIN jobs[u] : /\ k \in DOMAIN report[u]
                                           /\ report[u][k] # "failed" => jobs[u][k] \in seen[u]]_allVars
  <2> SUFFICES ASSUME NEW u \in Users, phase[u] = "send", phase'[u] = "shell", events' = events
               PROVE  \A k \in DOMAIN jobs[u] : /\ k \in DOMAIN report[u]
                                                /\ report[u][k] # "failed" => jobs[u][k] \in seen[u]
    OBVIOUS
  <2>0. DOMAIN phase = Users /\ events \in Nat /\ ClientTypes
    BY <1>1 DEF ClientInv, ClientTypes
  <2>1. Fits(phase[u], jobs[u], report[u], answer[u], seen[u])
    BY <1>1 DEF ClientInv, ReportsOK
  <2>2. Step
    BY <1>1 DEF ClientNext, allVars, clientVars
  <2>3. ~Event
    BY <2>0 DEF Event
  \* Only Finish ends a command without an event.
  <2>a. ASSUME NEW v \in Users, NEW p \in Procs, Send(v, p) PROVE FALSE
    BY <2>0, <2>a DEF Send
  <2>b. ASSUME NEW v \in Users, Refused(v) \/ Receive(v) \/ TruncateFile(v) \/ WriteFile(v) PROVE FALSE
    BY <2>0, <2>b DEF Refused, Receive, Reported, TruncateFile, WriteFile
  <2>c. ASSUME NEW v \in Users, Timeout(v) \/ Kill(v) PROVE FALSE
    BY <2>3, <2>c DEF Timeout, Kill
  <2>d. ASSUME NEW v \in Users, NEW s, SetConfig(v, s) PROVE FALSE
    BY <2>3, <2>d DEF SetConfig
  <2>e. ASSUME NEW v \in Users, NEW list, Begin(v, list) PROVE FALSE
    BY <2>0, <2>e DEF Begin
  <2>f. ASSUME UNCHANGED phase PROVE FALSE
    BY <2>f
  <2>4. Finish(u)
    <3>1. ASSUME NEW v \in Users, Finish(v) PROVE Finish(u)
      BY <2>0, <3>1 DEF Finish
    <3>2. ASSUME NEW p \in Procs, Handle(p) PROVE FALSE
      BY <2>f, <3>2 DEF Handle
    <3>3. ASSUME NEW v \in Users, NEW i, NEW r, CallTimesOut(v, i, r) PROVE FALSE
      BY <2>f, <3>3 DEF CallTimesOut
    <3>4. ASSUME NEW m \in late, LateCall(m) PROVE FALSE
      BY <2>f, <3>4 DEF LateCall
    <3> QED
      BY <2>0, <2>2, <2>a, <2>b, <2>c, <2>d, <2>e, <2>f, <3>1, <3>2, <3>3, <3>4, StepCases DEF clientVars
  <2>5. Len(report[u]) = Len(jobs[u])
    BY <2>4 DEF Finish
  <2>6. DOMAIN jobs[u] = 1..Len(jobs[u]) /\ DOMAIN report[u] = 1..Len(report[u])
    BY <2>1 DEF Fits
  <2> QED
    BY <2>1, <2>5, <2>6 DEF Fits
<1> QED
  BY <1>1, ClientsInvariant, PTL DEF ClientSpec, ReportsAreTrue
=============================================================================
