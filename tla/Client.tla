------------------------------- MODULE Client -------------------------------
(***************************************************************************)
(* edgectl (internal/client) at work on the model registry: terminals run  *)
(* apply, model register, model deregister, model update and config set-*  *)
(* at the same time, on one configuration file and against the handlers of *)
(* ModelRegistry.  A call has a deadline at the client only: the handler   *)
(* of a call that timed out, or whose client was killed, goes on, and the  *)
(* user runs the command again.                                            *)
(***************************************************************************)
EXTENDS ModelRegistry, Sequences, FiniteSetsExt

CONSTANTS
    Users,      \* terminals
    Manifests,  \* the manifests users apply
    NoNs,       \* a namespace left empty
    Default,    \* the namespace "default"
    Flags,      \* values of --namespace
    Formats,    \* values of the other settings (endpoint, output format)
    Missing, Empty, Bad,   \* no config file, an empty one, one that is not YAML
    NoCall,     \* no RPC pending
    MaxEvents   \* bound: timeouts, refused connections, kills, updates and config set-* commands

Configs == [ns : Namespaces \cup {NoNs}, out : Formats]
Entries == [ns : Namespaces \cup {NoNs}, name : Names \cup {NoName}]

ASSUME ClientConstants ==
    /\ Default \in Namespaces /\ NoNs \notin Namespaces /\ Flags \subseteq Namespaces \cup {NoNs}
    /\ \A m \in Manifests : m.ns \in Namespaces \cup {NoNs} /\ m.models \in Seq(Entries)
    /\ Formats # {} /\ Configs \cap {Missing, Empty, Bad} = {} /\ Bad \notin {Missing, Empty}
    /\ NoCall \notin Procs \cup Users \cup {"ok", "exists", "failed"} /\ MaxEvents \in Nat

DefaultConfig == [ns |-> Default, out |-> CHOOSE f \in Formats : TRUE]

VARIABLES
    phase,   \* each terminal: "shell", "send", "wait", "save" or "write"
    cfg,     \* config set-*: the configuration it has loaded and changed
    setting, \* config set-*: the value it sets
    jobs,    \* the models its command registers, one call each
    report,  \* the outcomes so far
    call,    \* the handler it waits for
    answer,  \* the reply that has arrived
    file,    \* ~/.edgectl/config.yaml
    late,    \* requests still under way whose client has given up
    events,
    seen,    \* history: models stored at some time during its command
    owner,   \* history: the terminal that sent the registration of an id
    gaveUp,  \* history: ids whose client no longer waited
    kept,    \* history: the settings acknowledged by config set-*
    clash    \* history: two saves overlapped, or one was killed

clientVars == <<phase, cfg, setting, jobs, report, call, answer, file, late, events, owner, gaveUp, kept, clash>>
registryVars == <<models, pc, id, info, todo, used, known, updated, removed, overlap>>
allVars == <<registryVars, clientVars, seen>>

Stored == {models[i] : i \in Present}
Event == events < MaxEvents /\ events' = events + 1

ClientInit ==
    /\ Init
    /\ phase = [u \in Users |-> "shell"] /\ cfg = [u \in Users |-> DefaultConfig]
    /\ setting = [u \in Users |-> Default]
    /\ jobs = [u \in Users |-> <<>>] /\ report = [u \in Users |-> <<>>]
    /\ call = [u \in Users |-> NoCall] /\ answer = [u \in Users |-> NoCall]
    /\ file = Missing
    /\ late = {} /\ events = 0
    /\ seen = [u \in Users |-> {}] /\ owner = [i \in Ids |-> NoCall]
    /\ gaveUp = {} /\ kept = DefaultConfig /\ clash = FALSE

-----------------------------------------------------------------------------
(* The configuration.                                                      *)

(* Defaults for a missing file; an empty one leaves every default as it    *)
(* is.  A file that is not YAML makes every command fail.                  *)
LoadConfig == IF file \in {Missing, Empty} THEN DefaultConfig ELSE file

(* Precedence: the flag, the model's own namespace, the manifest's, the    *)
(* configured one, "default".                                              *)
ResolveNamespace(flag, perModel, fileLevel, configured) ==
    IF flag # NoNs THEN flag ELSE IF perModel # NoNs THEN perModel
    ELSE IF fileLevel # NoNs THEN fileLevel ELSE IF configured # NoNs THEN configured ELSE Default

Set(config, s) == IF s \in Formats THEN [config EXCEPT !.out = s] ELSE [config EXCEPT !.ns = s]

(* Mutation: the other settings are those of a fresh configuration. *)
SetFresh(u, s) ==
    /\ phase[u] = "shell" /\ file # Bad /\ Event
    /\ cfg' = [cfg EXCEPT ![u] = Set(DefaultConfig, s)] /\ setting' = [setting EXCEPT ![u] = s]
    /\ phase' = [phase EXCEPT ![u] = "save"]
    /\ clash' = (clash \/ \E v \in Users \ {u} : phase[v] \in {"save", "write"})
    /\ UNCHANGED <<registryVars, jobs, report, call, answer, file, late, owner, gaveUp, kept>>

Forget(u) == cfg' = [cfg EXCEPT ![u] = DefaultConfig] /\ setting' = [setting EXCEPT ![u] = Default]

(* config set-namespace, set-endpoint and set-output: load everything,     *)
(* change one setting ...                                                  *)
SetConfig(u, s) ==
    /\ phase[u] = "shell" /\ file # Bad /\ Event
    /\ cfg' = [cfg EXCEPT ![u] = Set(LoadConfig, s)] /\ setting' = [setting EXCEPT ![u] = s]
    /\ phase' = [phase EXCEPT ![u] = "save"]
    /\ clash' = (clash \/ \E v \in Users \ {u} : phase[v] \in {"save", "write"})
    /\ UNCHANGED <<registryVars, jobs, report, call, answer, file, late, owner, gaveUp, kept>>

(* ... and save everything: the file is truncated ... *)
TruncateFile(u) ==
    /\ phase[u] = "save"
    /\ file' = Empty
    /\ phase' = [phase EXCEPT ![u] = "write"]
    /\ UNCHANGED <<registryVars, cfg, setting, jobs, report, call, answer, late, events, owner, gaveUp, kept, clash>>

(* ... and written from its start.  What another command has written since *)
(* the truncation shows behind a shorter text.                             *)
WriteFile(u) ==
    /\ phase[u] = "write"
    /\ file' \in {cfg[u]} \cup IF file = Empty THEN {} ELSE {Bad}
    /\ kept' = Set(kept, setting[u])
    /\ phase' = [phase EXCEPT ![u] = "shell"] /\ Forget(u)
    /\ UNCHANGED <<registryVars, jobs, report, call, answer, late, events, owner, gaveUp, clash>>

-----------------------------------------------------------------------------
(* Commands that register models.                                          *)

validateManifest(m) ==
    m.sane /\ m.models # <<>> /\ \A k \in DOMAIN m.models : m.models[k].name # NoName

(* Bound: there is a UUID for every model still to be registered. *)
Pending == MapThenSumSet(LAMBDA u : Len(jobs[u]) - Len(report[u]) - (IF phase[u] = "wait" THEN 1 ELSE 0), Users)

Begin(u, list) ==
    /\ phase[u] = "shell" /\ file # Bad
    /\ Pending + Len(list) <= Cardinality(Ids \ used)
    /\ jobs' = [jobs EXCEPT ![u] = list]
    /\ phase' = [phase EXCEPT ![u] = "send"]
    /\ UNCHANGED <<registryVars, cfg, setting, report, call, answer, file, late, events, owner, gaveUp, kept, clash>>

(* apply: nothing is sent unless the whole manifest is valid. *)
Apply(u, m, flag) ==
    /\ validateManifest(m)
    /\ Begin(u, [k \in DOMAIN m.models |->
                    [ns |-> ResolveNamespace(flag, m.models[k].ns, m.ns, LoadConfig.ns),
                     name |-> m.models[k].name]])

(* model register: one call, whatever the name. *)
ModelRegister(u, name, flag) ==
    Begin(u, <<[ns |-> ResolveNamespace(flag, NoNs, NoNs, LoadConfig.ns), name |-> name]>>)

(* Mutation: a call is sent again before its answer has arrived. *)
UnsentRetry(u) == phase[u] \in {"send", "wait"} /\ Len(report[u]) < Len(jobs[u])

Current(u) == jobs[u][Len(report[u]) + 1]
Unsent(u) == phase[u] = "send" /\ Len(report[u]) < Len(jobs[u])

(* RegisterModel: the request reaches a handler. *)
Send(u, p) ==
    /\ Unsent(u) /\ RegisterModel(p) /\ info'[p] = Current(u)
    /\ call' = [call EXCEPT ![u] = p] /\ phase' = [phase EXCEPT ![u] = "wait"]
    /\ owner' = [owner EXCEPT ![id'[p]] = u]
    /\ UNCHANGED <<cfg, setting, jobs, report, answer, file, late, events, gaveUp, kept, clash>>

Reported(u, outcome) ==
    /\ report' = [report EXCEPT ![u] = Append(@, outcome)]
    /\ phase' = [phase EXCEPT ![u] = "send"]
    /\ call' = [call EXCEPT ![u] = NoCall] /\ answer' = [answer EXCEPT ![u] = NoCall]

(* The server refuses an empty name, or is not there. *)
Refused(u) ==
    /\ Unsent(u)
    /\ (Current(u).name = NoName /\ UNCHANGED events) \/ Event
    /\ Reported(u, "failed")
    /\ UNCHANGED <<registryVars, cfg, setting, jobs, file, late, owner, gaveUp, kept, clash>>

(* A step of a handler; its return value goes to the client that waits. *)
Handle(p) ==
    /\ Register(p)
    /\ LET outcome == CASE known' # known -> "ok" [] todo[p] # {} -> "exists" [] OTHER -> "failed"
           waiting == {u \in Users : call[u] = p /\ pc'[p] = "idle"}
       IN  /\ answer' = [u \in Users |-> IF u \in waiting THEN outcome ELSE answer[u]]
           /\ call' = [u \in Users |-> IF u \in waiting THEN NoCall ELSE call[u]]
    /\ UNCHANGED <<phase, cfg, setting, jobs, report, file, late, events, owner, gaveUp, kept, clash>>

Receive(u) ==
    /\ phase[u] = "wait" /\ answer[u] # NoCall
    /\ Reported(u, answer[u])
    /\ UNCHANGED <<registryVars, cfg, setting, jobs, file, late, events, owner, gaveUp, kept, clash>>

Abandon(u) == gaveUp' = gaveUp \cup IF call[u] = NoCall THEN {} ELSE {id[call[u]]}

(* The deadline of the call passes; the command goes on with the next. *)
Timeout(u) ==
    /\ phase[u] = "wait" /\ Event
    /\ Abandon(u) /\ Reported(u, "failed")
    /\ UNCHANGED <<registryVars, cfg, setting, jobs, file, late, owner, kept, clash>>

(* Mutation: apply ends with the first model that fails. *)
FinishOnError(u) ==
    /\ phase[u] = "send"
    /\ Len(report[u]) = Len(jobs[u]) \/ \E k \in DOMAIN report[u] : report[u][k] # "ok"
    /\ phase' = [phase EXCEPT ![u] = "shell"]
    /\ jobs' = [jobs EXCEPT ![u] = <<>>] /\ report' = [report EXCEPT ![u] = <<>>]
    /\ UNCHANGED <<registryVars, cfg, setting, call, answer, file, late, events, owner, gaveUp, kept, clash>>

(* apply prints its table, and its exit status is 0 whatever that says. *)
Finish(u) ==
    /\ phase[u] = "send" /\ Len(report[u]) = Len(jobs[u])
    /\ phase' = [phase EXCEPT ![u] = "shell"]
    /\ jobs' = [jobs EXCEPT ![u] = <<>>] /\ report' = [report EXCEPT ![u] = <<>>]
    /\ UNCHANGED <<registryVars, cfg, setting, call, answer, file, late, events, owner, gaveUp, kept, clash>>

(* The process is killed.  Its handler knows nothing of it. *)
Kill(u) ==
    /\ phase[u] # "shell" /\ Event
    /\ Abandon(u) /\ clash' = (clash \/ phase[u] = "write")
    /\ phase' = [phase EXCEPT ![u] = "shell"]
    /\ jobs' = [jobs EXCEPT ![u] = <<>>] /\ report' = [report EXCEPT ![u] = <<>>]
    /\ call' = [call EXCEPT ![u] = NoCall] /\ answer' = [answer EXCEPT ![u] = NoCall]
    /\ Forget(u)
    /\ UNCHANGED <<registryVars, file, late, owner, kept>>

-----------------------------------------------------------------------------
(* Commands whose call is one step of the registry.                        *)

(* What model update sends: every field, the empty ones too.  The          *)
(* namespace is the resolved one, not the model's.                         *)
UpdateRequest(name, flag) ==
    [ns |-> ResolveNamespace(flag, NoNs, NoNs, LoadConfig.ns), name |-> name]

ModelDeregister(u, i) ==
    /\ phase[u] = "shell" /\ file # Bad /\ DeRegisterModel(i)
    /\ UNCHANGED clientVars

ModelUpdate(u, i, name, flag) ==
    /\ phase[u] = "shell" /\ file # Bad /\ UpdateModel(i, UpdateRequest(name, flag)) /\ Event
    /\ UNCHANGED <<phase, cfg, setting, jobs, report, call, answer, file, late, owner, gaveUp, kept, clash>>

(* The client's deadline passes while the request is still under way ... *)
CallTimesOut(u, i, request) ==
    /\ phase[u] = "shell" /\ file # Bad /\ i \in known /\ Event
    /\ late' = late \cup {[id |-> i, request |-> request]}
    /\ UNCHANGED <<registryVars, phase, cfg, setting, jobs, report, call, answer, file, owner, gaveUp, kept, clash>>

(* ... and the server executes it afterwards. *)
LateCall(m) ==
    /\ m \in late
    /\ IF m.request = Absent THEN DeRegisterModel(m.id) ELSE UpdateModel(m.id, m.request)
    /\ late' = late \ {m}
    /\ UNCHANGED <<phase, cfg, setting, jobs, report, call, answer, file, events, owner, gaveUp, kept, clash>>

-----------------------------------------------------------------------------
UserStep(u) ==
    \/ (\E p \in Procs : Send(u, p)) \/ Refused(u) \/ Receive(u) \/ Finish(u)
    \/ TruncateFile(u) \/ WriteFile(u)

Step ==
    \/ \E u \in Users : UserStep(u) \/ Timeout(u) \/ Kill(u)
    \/ \E u \in Users, s \in Formats \cup Namespaces : SetConfig(u, s)
    \/ \E u \in Users, m \in Manifests, flag \in Flags : Apply(u, m, flag)
    \/ \E u \in Users, name \in Names \cup {NoName}, flag \in Flags : ModelRegister(u, name, flag)
    \/ \E p \in Procs : Handle(p)
    \/ \E u \in Users, i \in Ids : ModelDeregister(u, i) \/ CallTimesOut(u, i, Absent)
    \/ \E u \in Users, i \in Ids, name \in Names \cup {NoName}, flag \in Flags :
          ModelUpdate(u, i, name, flag) \/ CallTimesOut(u, i, UpdateRequest(name, flag))
    \/ \E m \in late : LateCall(m)

(* The history of what was stored while a command ran. *)
Watch == seen' = [u \in Users |-> IF phase'[u] = "shell" THEN {}
                    ELSE (IF phase[u] = "shell" THEN Stored ELSE seen[u]) \cup Stored']

ClientNext == Step /\ Watch

ClientSpec == ClientInit /\ [][ClientNext]_allVars

-----------------------------------------------------------------------------
(* "Reports per-model success or failure (does not abort on first error)": *)
(* a command ends with one outcome per model, and a model reported as      *)
(* registered or as existing was stored under its resolved namespace at    *)
(* some time while the command ran, whatever else went on.                 *)
ReportsAreTrue ==
    [][\A u \in Users : phase[u] = "send" /\ phase'[u] = "shell" /\ events' = events =>
          \A k \in DOMAIN jobs[u] : /\ k \in DOMAIN report[u]
                                    /\ report[u][k] # "failed" => jobs[u][k] \in seen[u]]_allVars

(* A user who waits for every answer registers no name twice, even from    *)
(* manifests that list it twice: two models share a name only if they come *)
(* from two terminals, if one was renamed, or if a client gave up on a     *)
(* registration that the server then completed beside its retry.           *)
DuplicatesNeedRetry ==
    \A i, j \in Present : i # j /\ models[i] = models[j] =>
        owner[i] # owner[j] \/ {i, j} \cap (gaveUp \cup updated) # {}

(* "Persists client settings": unless two saves overlapped or one was      *)
(* killed, the next command finds every setting that was acknowledged;     *)
(* while a save is under way it may find the defaults instead.             *)
SettingsKept ==
    clash \/ (\E u \in Users : phase[u] = "write") \/ (file # Bad /\ LoadConfig = kept)
=============================================================================
