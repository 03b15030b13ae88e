# Edgernetes-AI: TLA+ models and proofs

Edgernetes-AI runs machine-learning models on edge devices. A *control plane*
keeps the registry of nodes, models and replicas in an embedded store, polls the
nodes, and stores model files. An *agent* on every device registers itself,
answers polls, runs ONNX models in worker pools and forwards inferences to peers.
A *client*, `edgectl`, registers, uploads and looks up models. This directory models that code in TLA+,
checks the models with TLC on small instances, and proves all their safety properties
with TLAPS for every instance. `PROJECT.json` maps each definition to
the source lines it stands for.

Contents: [inventory](#inventory), [modules](#modules-and-the-code),
[runs](#runs), [fairness](#fairness), [proofs](#proofs),
[divergences](#divergences-between-documentation-and-code),
[left out](#left-out-and-why), [plan](#plan).

## Inventory

| Part (directory under `src/internal`) | State | Operations | Hard behaviours | What makes it correct |
|---|---|---|---|---|
| Store (`control-plane/store/store.go`) | map behind an `RWMutex`, line-oriented JSON log `store.wal` | `New` (replay), `Put`, `Delete`, `Get`, `Keys`, `Close` | crash between write, fsync and map update; torn lines; partial writes; failed fsync; scanner limit | an acknowledged write survives; readers see the log's projection; a log the store wrote can be opened; no path leaves the lock held |
| Model registry (`controller/registry/model_registry.go`, `api/grpc/registry`) | `model:<id>` records | `RegisterModel`, `DeRegisterModel`, `UpdateModel`, lookups | check-then-Put over several store calls; scans of a snapshot of keys | names unique per namespace; a removed model stays removed |
| Node registry (`controller/registry/node_registry.go`) | `node:<id>` records with status and time stamps | `RegisterNode`, `DeRegisterNode`, `UpdateNode`, `UpdateNodeStatus`, lists | read-modify-writes of one record by RPC handlers and the heartbeat loop | no update lost, no removed node written back, `RegisteredAt` fixed |
| Replica records (`control-plane/scheduler/replica`) | `replica:<id>` records | create, read, update, delete | the heartbeat loop reads, then writes without looking again | a deleted replica stays deleted |
| Heartbeat loop (`controller/heartbeat`) | ticker; per round: endpoints, list of nodes | `StartHeartbeatHandler`, `HandleHeartbeat`, `CallHeartbeat`, `buildServiceEndpoints` | stale listings, calls without deadline, restarts in mid-round, lost replies | silent nodes leave the endpoints; rounds end; statuses follow the documented life cycle |
| Agent core (`agent/api/grpc`, `agent/monitor`) | id, time of the last heartbeat, endpoint cache, assigned models | `RequestHeartbeat`, (de)registration, `MonitorHeartbeatStaleness`, `AssignModel` | partition, lost responses, re-registration under a new id | an agent that is not polled gets back in; few records are left behind |
| Inference runtime (`agent/runway`) | worker registry; per pool: queue, quit channel, session | `StartModelWorkers`, `StopModelWorkers`, `ModelInference` | stop while jobs run or wait, timeouts with late answers, full queue, generations of one replica id | every accepted job in one place; calls return; workers end; session outlives its users |
| Model files (`api/grpc/registry/model_transfer.go`, `client/cmd/upload.go`) | model directory, temporary files, open streams | `UploadModel`, `DownloadModel`, the client's upload | concurrent uploads of one name, streams that break, resume, crash, power loss | files are whole under their final names; downloads deliver one file; temporary files are removed |
| Deployment and routing (`agent/api/grpc/deploy.go`, `infer.go`, `agent.go`) | assigned models, endpoint cache | `DeployModel`, `HandleInfer`, forwarding | unlocked check-and-append, slice read twice, forwarding by tables that are out of date, peers that crash | one hop; the right replica answers; calls return; deployments are kept |
| Load balancer (`agent/balancer`) | current index and weight | `Pick`, `FilterHealthy` | one cursor for all models and for lists that change; fractional and zero weights | the loop ends; shares follow weights |
| Status, lookup (`controller/status`, `api/grpc/discovery`, the registries' reads) | none | get, list, model status, hosts of a model, endpoints | up to three scans, each a snapshot of keys and a read per key, spread over concurrent writes | an answer holds what was true all the time, and nothing that never was |
| Client (`client`, `client/cmd`) | `~/.edgectl/config.yaml`, read by every command and rewritten by `config set-*` | `apply`, `model`, `node`, `deploy`, `infer`, `config` | deadlines at the client only, retries beside a handler that goes on, manifests applied in part, kills, overlapping saves | reports say what happened; waiting for answers doubles no name; settings survive |
| Hardware probing (`agent/utils`) | the list of devices being built | `GetGPUInfo`, the table `gpu_specs.json` | tools that are missing or overlap, formats that vary, a table searched in random order | every card once; figures from one entry of the table |
| Generated protobuf code (`common/pb`) | none | stubs, handlers, service descriptors | which services a server offers | |
| `common/modelpath`, empty `revivalClinic` | none | | | |

Interactions. Every control-plane handler and the heartbeat goroutine call the
one store, whose calls are atomic and durable; a handler is a sequence of such
calls with no lock around them. The loop calls agents by RPC; agents call the
registry by RPC; an agent's monitor is a goroutine of its own. Calls of
`ModelInference` and workers share a pool's channels. Inference handlers of an agent
share its assigned models, endpoint cache and balancer with deployments and heartbeats.
Uploads and downloads share the model directory. Client processes share the
configuration file and meet in the registry.

## Modules and the code

**`DurableKV`** is what the store promises its callers: updates take effect one
at a time, and an acknowledged one cannot be undone. `maybe` is the set of maps a
power loss may bring back. It has no log, lock or replay.

**`Store`** is `store.go`. `wal` and `tail` are the file (complete lines, and
bytes after the last newline), `synced` and `stail` the part on the medium, `data`
the map, `writer` the mutex, `pc`/`rec` each caller's progress. One action per
step of a call: `Begin` (in `Put` and `Delete`), `Lock`, `Write`, `WriteFails`,
`Sync`, `SyncFails`, `Apply`; `Close`; `Restart`, `ReplayLine`, `FinishReplay`,
`RefuseReplay` for `New`. The environment is `Crash` (the page cache survives) and
`PowerLoss` (a prefix of the unsynced lines survives, perhaps cut in a line).
Faults are switched by constants: `TornTail`, `WriteFaults`, `SyncFaults`,
`Oversize`. A failed fsync leaves the line in the page cache. An error of the final
`Close` of the file is treated as closed. Reads are the predicate
`ReadersAdmitted` and the operator `Get`, since they change nothing. The store is
related to `DurableKV` by the mapping at the end of the module.

**`ModelRegistry`** and **`NodeRegistry`** are the two registries, one action per
store call of a handler. They take the store's calls to be atomic, which is what
`DurableKV` says. History variables (`overlap`, `updated`, `removed`, `raced`,
`lastStatus`, ...) say when handlers overlapped; they are never read by an action.
Time in `NodeRegistry` is a clock that may pass at any step; zero is Go's zero
time. Nodes registered with a status stand for `RegisterNode` of the controller,
which stores the status it is given; the RPC gives none.

**`Heartbeat`** composes the loop, the store's node and replica records, and the
agents with their monitors. `lp` is the loop's place in `HandleHeartbeat`; between
any two of its steps agents act, messages are lost and the control plane may
restart. A tick is one interval of 10 s and a time stamp is kept as its age in
ticks, saturated one past the last threshold, so time is unbounded and the model
finite. The ticker's channel holds one tick. A call addresses a host: an agent
answers for any record that names it, because `RequestHeartbeat` does not compare
ids. `cond` distinguishes an agent that is off, cut off, and one that accepts
connections and does not answer. `Preloaded` nodes are in the store as online with
their replicas, as the repository's tests put them there; an agent that registers
by RPC gets no status (see Divergences). A UUID is new if nothing in the system
refers to it (`Fresh`), so a finite set of ids serves any number of registrations.
The listing of a round is one step, although the code reads the records one by one.

**`Runway`** is `worker.go` for one replica id. A pool started again is a new
generation; calls may hold a pointer to an old one. `Take` and `Quit` are the two
arms of the worker's `select`: both may be ready, and Go picks either. `Die` is a
panic in a worker, which nothing recovers (an input with more features than the
scaling tables, or a run of a destroyed session): any job may do it.

**`Transfer`** is `model_transfer.go`. A file is a sequence of blocks and a hash
is its content. A client reads its file twice, for the hash and for the chunks, so
the blocks sent are arbitrary (`ReceiveChunk`). A rename replaces a directory
entry; a download keeps reading the file it opened. `dirty` are the files that are
not written back, `cut` those a power loss has shortened, `tainted` the downloads
that read a shortened file or were resumed in another file than they began with.
Lost renames are not modelled: the directory is taken to be journaled before the
data, the order that hurts.

**`Routing`** is `agent.go`'s deployment and inference, `forward.go`, the balancer
and their RPC handlers. A request has a leg per agent that handles it; the peer's leg
runs on when its caller has timed out. `CheckLocal` and `ResolveReplica` are the two
reads of the slice in `HandleInfer`, `DeployModel` and `AssignModel` the read and the
write of its append. One action is one turn of `Pick`'s loop, so that its end is
something to check. Weights are integers in units of a fraction of 1.0 (`One`): in the
code they are the node's TOPS, a float that may be zero or below one. The agent starts
no worker pool itself (see Divergences), so pools start at any time or not at all.
`Worlds` are environments, one of which holds in a behaviour; they keep deployments
apart from long runs of the balancer, which do not touch the same state.

**`Client`** composes `ModelRegistry` with terminals that run `edgectl`. A command
loads the configuration, resolves namespaces, and makes one call after the other
(`Send`, the handler's own steps by `Handle`, `Receive`); `Timeout` and `Kill` leave the
handler running, and the terminal is free for a retry. `model update` and `model
deregister` are single store calls: they take effect at once, or, when the client gave
up on them, at any later time (`CallTimesOut`, `LateCall`). `config set-*` is a load, a
truncation and a write, since `os.WriteFile` works in place. A model is a namespace and
a name, a configuration a namespace and one other setting; a manifest that the YAML
parser or the check of version, kind and model types refuses has `sane = FALSE`. `seen`, `owner`,
`gaveUp`, `kept` and `clash` are histories.

**`Lookup`** is everything that reads: the commands, the services the control plane
registers (`RegisterServices` and the generated descriptors), and the handlers with
their listings, one action per store call. `stage` is the listing a call is in, `todo`
the keys not read yet. Reads change nothing, so one call at a time is general. The
writers are those of the records it reads, the replica manager included, each an atomic
call of the store; a handler's checks before its write are dropped (`WriteModel` also
writes a name that is taken), which allows more than the code. `always` and `ever`
collect the facts that held throughout the call and at some time in it; the properties
compare the answer with both.

**`Probe`** is `gpu.go`, tool by tool and line by line. A name is the set of keywords it
contains; the comparison of names after normalisation is the relation `Similar`, and the
entries a search in random order may return are a set. What the tools print is external
(`Kinds`, `Output`): which kinds of line, about which card. What is left to read is the set
of the places of its lines, card and number, and the next line is the first of them
(`Line`). A device carries the card it is about and the memory its tool told, as histories.

**`MC*`** modules define the instances and symmetry sets. Definitions commented
*Mutation* are plausible bugs of the definition that follows them; no specification
uses them. For each property `PROJECT.json` names one that breaks it.

## Runs

| Run | Instance | Shows |
|---|---|---|
| `store_safety` | 2 callers, 2 keys, 2 values, 3 log lines, 2 crashes, no I/O faults | `AckedDurable`, `ReadsSeeLog`, `NeverRefuses`; `Implements`: the store refines `DurableKV` |
| `store_faults` | 2 callers, 1 key, a short and an oversized value, 2 lines, 2 crashes, all faults | `NoSilentLoss` (the store refuses a log rather than skip an acknowledged write), `CallsReturn`, `TypeOK` |
| `models_safety` | 2 handlers, 3 ids, 2 names, updates allowed | `DuplicatesNeedOverlap`, `RemovedStaysRemoved`, `RegistrationsReturn` |
| `nodes_safety` | 2 `UpdateNode` handlers, the loop, 1 node, clock to 3 | `LostUpdatesNeedRace`, `GhostsNeedRace` |
| `heartbeat_safety` | 2 agents with a replica each, 4 ids, 2 faults, rounds shorter than the interval | `OrphansBounded`, `CacheIsFresh`, `OfflineIsFinal`, `SilentNotAdvertised` |
| `heartbeat_live` | the same with 1 fault, agents may hang | `StaleAgentsRecover`, `RoundsEnd` |
| `runway` | 2 calls, 2 generations, 1 or 2 workers (a count of 0 means 1), queue of 1 | `JobsOnce`, `InferenceReturns`, `JobsServed`, `WorkersEnd` |
| `routing` | 2 agents, 2 models; 2 clients at a balancer with weights 1.5/0.5, 0/0 and 1; 2 racing deployments with a call; a deployment, a call and a crash | `ForwardedOnce`, `RightReplica`, `LostDeploysNeedRace`, `SharesFollowWeights`, `InferencesReturn` |
| `transfer` | 2 uploads to 1 or 2 names, 3 files (one not ONNX), 1 download with resume, 1 crash or power loss | `WholeFiles`, `TempsOwned`, `DownloadsWhole` |
| `client` | 2 terminals, 2 handlers, 2 ids, 2 namespaces, 1 name, 5 manifests (3 not valid), 2 of: timeouts, refusals, kills, updates, settings | `ReportsAreTrue`, `DuplicatesNeedRetry`, `SettingsKept` |
| `lookup` | every reading command once, 2 models, 2 replicas, 2 nodes in 5 worlds, 2 writes during the call | `StatusIsSound`, `HostsAreSound`, `ListingsAreSound`, `GhostReplicasNeedRace` |
| `probe` | Linux, Windows and macOS hosts, every set of working tools, up to 2 cards of 6 kinds (on Linux up to 3), with and without the table | `CardsOnce`, `CardsMissing`, `SpecsFit` |

Bounds, and why they are enough. The store's callers exclude each other, so two
show every interleaving of a holder and a waiter; three lines let an acknowledged
record stand before, on and after the line at risk; two crashes let one recovery be
followed by another. (`store_faults` has two lines, since its theorem holds for any
number.) A race on a name or a record is between two handlers; the third model id
is for a registration that meets two others. Two agents are a round in which one
node's trouble meets another's turn; four ids leave two for re-registrations, so
that a second record can be left behind; two faults let a partition meet a restart
or a lost reply. The thresholds 1 and 2 ticks keep the order
interval <= offline < stale of the code's 10, 40 and 60 s. Two generations are an old pool and its successor; two calls and a queue
of one fill the queue and still leave a job behind a busy worker. Two clients at
one balancer contend for its mutex and move its cursor under each other; the two tables
of that world swap a list of fractional weights for one of zeros and one of length one,
so that a cursor meets every other list. A request may take one hop more in the model
than the code allows, so that a second one would be seen. Files of two
blocks can be mixed, and three blocks let an upload be too long. In `client` two ids
are what a doubled name needs; two events are a timeout and its retry's, a setting and
a kill, or two settings at once. In `lookup` two writes are an update of a copy read
before a deletion, or a change between each pair of scans; two models and two nodes let
a replica be the other's. In `probe` two cards are one a tool knows and one it hides,
three show that the third fares like the second.

`Prompt` in the heartbeat runs says that a round ends within its interval. It
bounds only how time passes, not the order of the agents' and the loop's steps
within a round; without it "the last round" may be arbitrarily long ago, and
`SilentNotAdvertised` does not hold. The other properties need no such bound, as their
proofs show.

`CHECK_DEADLOCK FALSE` stands where the system may stop: model registrations, calls
transfers, lookups and detections are finitely many in an instance, and all may be
done.

What the runs show beyond a pass: the registries go wrong *only* when two handlers
overlap on one name or one record. A failed upload never touches the file under the
final name. A job's response channels must have their buffer: with the unbuffered
channels that `docs/inference_pipeline.md` describes, a call that timed out would
block its worker for ever (mutation `AnswerUnbuffered`), while the code buffers
them. A deregistration by the monitor may race with the loop's write-back, and then
leaves a record behind, but never more records than there were faults. A status or a
list of hosts is no snapshot, yet each part of it was true at some moment of the call.
A terminal that waits for its answers never doubles a name, even by a manifest that
lists one twice.

## Fairness

* Store: a started call takes its steps (`WF`), and Go's `RWMutex` serves every
  waiter, so a waiter that could lock infinitely often does (`SF` on `Lock`).
  Nothing restarts the process, so `Restart` is not fair.
* Model registry: a handler that has started runs on. Clients owe nothing.
* Heartbeat: time passes, the loop and the monitors are goroutines that run
  whenever they can, and partitions heal (the one assumption about the
  environment; without it no agent could get back). Hung agents need not thaw.
* Runway: goroutines run, `time.After` fires, `processJob` returns. `Die` is not
  fair, and no `select` arm is favoured: a stopped pool ends because its queue,
  which receives finitely many jobs, runs dry.
* Routing: handlers run on, timers fire, and Go's `Mutex` starves no one (`SF`). That
  a broken connection is noticed is not assumed: the 15 s deadline is what counts.
* The other runs (`nodes_safety`, `transfer`, `client`, `lookup`, `probe`) check safety
  only and assume no fairness.

## Proofs

Each component's theorems are in a module of their own. They hold for every value of the
constants that satisfies the named assumption of the component's module: any number of
callers, handlers, agents, terminals, keys, ids and faults.

| Module | Theorem | Proves | Beyond the assumption on constants |
|---|---|---|---|
| `StoreProofs` | `TypeCorrect` | `[]TypeOK` | |
| | `RefusesRatherThanLoses` | `[]NoSilentLoss` | all faults allowed |
| | `AcknowledgedIsDurable` | `[]AckedDurable` | `CleanWrites`: no torn lines, no partial writes |
| | `ReadsAreProjections`, `AlwaysRecovers` | `[]ReadsSeeLog`, `[]NeverRefuses` | `FaultFree`: also no failed fsync, no oversized value |
| | `StoreImplementsMap` | `Implements`: the store refines `DurableKV` | `CleanWrites`, no failed fsync |
| `RegistryProofs` | `RegistryTypeCorrect` | `[]TypeOK` | |
| | `ClashesNeedOverlap` | `[]DuplicatesNeedOverlap` | |
| | `NoRegistrationRevives` | `[]RemovedStaysRemoved` | |
| | `ClientsRefineRegistry` | `Spec` of `ModelRegistry`, with `[]DuplicatesNeedOverlap` and `[]RemovedStaysRemoved` (of `ClientSpec`) | |
| | `SettingsPersist` | `[]SettingsKept` (of `ClientSpec`) | |
| | `RetriesExplainDuplicates` | `[]DuplicatesNeedRetry` (of `ClientSpec`) | |
| | `ReportsTrue` | `ReportsAreTrue` (of `ClientSpec`) | |
| `NodeRegistryProofs` | `NodesTypeCorrect` | `[]TypeOK` | |
| | `UpdatesLostOnlyInRaces` | `[]LostUpdatesNeedRace` | |
| | `GhostNodesOnlyInRaces` | `[]GhostsNeedRace` | |
| `HeartbeatProofs` | `HeartbeatTypeCorrect` | `[]TypeOK` | |
| | `OfflineStays` | `OfflineIsFinal` | |
| | `CachesFresh` | `[]CacheIsFresh` | |
| | `OrphansNeedFaults` | `[]OrphansBounded` | |
| | `SilentNodesLeft` | `SilentNotAdvertised` | `Prompt` |
| `AgentProofs` | `PoolTypeCorrect` | `[]TypeOK` of `Runway` (the queue's bound is part of it) | |
| | `EveryJobOnce` | `[]JobsOnce` | |
| | `ProbeTypeCorrect` | `[]ProbeTypes` | |
| | `NoCardTwice`, `NoCardForgotten`, `SpecsAlwaysFit` | `[]CardsOnce`, `[]CardsMissing`, `[]SpecsFit` | |
| `TransferProofs` | `TransferTypeCorrect` | `[]TypeOK` | |
| | `FilesStayWhole`, `TempsAreOwned`, `CompleteDownloads` | `[]WholeFiles`, `[]TempsOwned`, `[]DownloadsWhole` | |
| `RoutingProofs` | `RoutingTypeCorrect` | `[]TypeOK` | |
| | `OneHop` | `[]ForwardedOnce` | |
| | `DeploysLostOnlyInRaces`, `RightReplicaAnswers` | `[]LostDeploysNeedRace`, `[]RightReplica` | |
| | `FairShares` | `SharesFollowWeights` | |
| | `PickEnds` | `PickNearsEnd` | |
| `LookupProofs` | `ListingsSound`, `StatusSound`, `HostsSound` | `[]ListingsAreSound`, `[]StatusIsSound`, `[]HostsAreSound` | |
| | `GhostsOnlyInRaces` | `[]GhostReplicasNeedRace` | |

The assumptions on constants say that special values (`Absent`, `NoCall`, ...) are none of
the ordinary ones, that sets from which something is taken are not empty, and that bounds
are numbers. Five say more. `HeartbeatConstants`: the offline threshold is below the stale
one (40 s and 60 s), and there are at least as many ids as agents. `RoutingConstants`: at
most three deployments, the ones for which an append to a Go slice reallocates (from the
fourth on it may write in place, which the model has no room for). `LookupConstants`:
ids of models, replicas and nodes are apart, as their key prefixes keep them in the store;
finitely many replicas. `ClientConstants`: a configuration, an empty file and a broken one
are different things. `ProbeConstants`, of the tools: `rocm-smi` prints a line with a name
about each of its cards, a display section of macOS has at most one chipset line, and the
word NVIDIA is in no other vendor's name.

**The store.** `NoSilentLoss` is not inductive: it says nothing of a caller between
its write and its acknowledgement. `LogInv` adds that the mutex excludes
(`Exclusion`), that a caller past the write owns the last line, on the medium once
it is past the fsync (`LastLineIsMine`), that what was replayed decoded
(`ReplayedLinesDecode`), and that an acknowledged line is its record or garbage,
never another record (`AckedKept`). `LogStep` shows that every action preserves
it. The last two facts give the theorem: a replayed acknowledged line decoded, so
it is not garbage, so it is its record. With clean writes, `CleanLog` (no tail,
every line a record) is preserved too, which rules out the garbage. For the readers,
`MapTracksLog` follows the map through a call and a replay: it is the projection of
the log, of the log without its last line while a caller is between write and map
update, and of the replayed lines during a replay. The lemma `ReplayOne` says that
applying the next record to the projection of n lines gives that of n + 1. The
projection is defined by "the last record of each key", without recursion, so that
it needs no induction over data. The fault assumptions are needed: each fault constant,
enabled alone, breaks one of the conditional properties (below).

The refinement maps the log to its projection (`Current`), what a power loss may leave to
the projections of the log's prefixes that contain the synced lines (`Recoverable`), and a
caller's step to the phase of its call. `Write` is then `Commit` (`WriteCommits`), `Sync` is
`Flush`, `Apply` is `Ack`; crashes, losses of power (`LossIsCrash`) and the end of a call
without effect are steps of the map too, and everything else, the replay included,
stutters: the map is a function of the file, not of the process. Oversized values are
allowed here: a log that cannot be opened still holds what was acknowledged.

**Model registry and client.** A registration in flight must not be able to store a clash
unnoticed: `ScanCovers` says that a record equal to the one about to be Put is still to be
read by the scan, or was renamed, or belongs to an overlapping registration, and `FreshIds`
that registrations in flight have different, unused ids and are known to overlap. The
composition keeps that invariant because each of its steps is a step of the registry or
stutters there (`RegistrySteps`), which is also the refinement `ClientsRefineRegistry`. `CallsOK` pairs clients and handlers: a handler in flight
has a client that waits for it, or one that gave up, so two registrations of one terminal
overlap only if one was given up; with the registry's theorem this is `DuplicatesNeedRetry`.
`ReportsOK` says that the outcomes so far, and the answer on its way, are true of the models
the command has seen stored, and that the handler works on the model its answer will be
counted for; `AnswersAreTrue` is about the handler's last step. `ConfigOK` says that while
no saves overlapped there is one saver at most, which holds what was acknowledged with its
own setting changed.

**Node registry.** A caller between its Get and its Put holds a record whose other fields
are the last ones written, unless the node is in `raced` (`CopiesAreFresh`); the theorems
are then about the moment of the Put.

**Heartbeat.** `PollInv` says what the loop holds at each step, that a round has each node
once and that only the loop takes a node out of the polled statuses (`RoundOK`), and that
every record of an agent's id addresses that agent (`IdsOK`). `OfflineIsFinal` follows
from the writes a step can make (`StatusSteps`). `CachesOK` follows a round: a node that
stays online has this round's endpoints, or its turn is still to come. `OrphansBounded` counts: no
race alone leaves a record behind, so the proof bounds the larger set `AtRisk` of ids that
may be left behind without another fault, into which each fault brings one (`RiskCounted`).
`SilenceOK` relates the age of silence of an online node to the loop's place in its round.
It is not needed for `CacheIsFresh`, which holds of every
online node, silent or not: what counts is whether it got its turn.

**Runway.** `QueuedJobs`, `RunningJobs` and `NoJobLost` say that an unanswered accepted job
is in one place of its own pool; `OnePlace` turns that into the count of `JobsOnce`.

**Probe.** Each of the seven readers does one of three things with a line: pass it
(`PassLine`), list a device at once (`ListLine`), or begin one and list the one before
(`BeginLine`); `LineStep` shows it, and the invariants are then followed through these three
and through the start and the end of a tool. `DevicesFit`: every device but the one being put
together was completed, or is one nothing completes. `OneDevice`: once a card has its
device, all its lines that are still to come, of this tool and of later ones, are passed over
(`Over`). This is what `CardsOnce` needs and does not say. It holds because a tool says one
naming line about such a card and the last tool skips what the others found. `NoneMissing`:
each line that named a card got it a device or was passed over (`Told`); when all tools are
done, the only lines ever passed over are the exceptions of `CardsMissing`. Since lines are a
set of places, no induction over the output is needed.

**Transfer.** `StreamsOK`: what was sent is a prefix of the open file, which is a committed
one. `UploadsOK`: a validated temporary file is the declared file. `HistoryOK` relates the
directory to what was committed.

**Routing.** `HopsOK` gives the single hop. `AppendsOK` says that an append under way has
read every replica it may not lose. `Found` and `Answered` follow a replica from the second
read of the slice to the client. For the balancer, `FairCycle` says how often each endpoint
was picked when the cursor is at endpoint j + 1 of level w, in closed form (`Fair`): once on
each level that its weight reaches. `CycleStarts`, `CycleGoesOn` and `CycleDone` are the
reset, the turn and the end. `MaxWeight`
and `FilterHealthy` are recursive functions; what is needed of them is proved by induction
over a set of numbers (`SetInduction`, from the least element of a set), since the
library's induction theorems cannot be used. `PickEnds` is the part of `InferencesReturn`
that is about the loop: a level above every weight, left by an earlier list, falls or comes
nearer to the wrap, and on any other level the cursor comes nearer to an endpoint of the
largest weight, where the loop ends; both are distances in the natural numbers, compared
in that order (`Nearer`).

**Lookup.** `always` and `ever` only shrink and grow (`WatchStep`), so what a scan owes is
that a key whose fact held always is read or still to be read (`ListingsOK`, `NameOK`,
`ReplicasOK`, `HostsOK`, one per scan), and that what was read held at some time.
`StatusSummary` shows that comparing the counters of `GetModelStatus` with the number of
replicas amounts to the set of their statuses.

TLC has checked every inductive invariant above on the instance of its run (`ClientInv`,
with `RegistryInv` in it: 1.5 million states; the invariants of `HeartbeatProofs`: 3.7
million; `TransferInv`: 1.8 million; `LookupInv`: 0.9 million; `ProbeInv`: 77 thousand). Decisions the code makes in an order are `IF`
chains (`ResolveNamespace`, `GetModelStatus`, `Summary`, `detectVendorFromName`): of `CASE`
arms that overlap TLC takes the first, while in TLA+, and for the provers, it may be any.

Only model-checked is liveness (`CallsReturn`, `RegistrationsReturn`, `RoundsEnd`, `StaleAgentsRecover`,
`InferenceReturns`, `JobsServed`, `WorkersEnd`, `InferencesReturn`): fairness and
`ENABLED` are outside the prover's reach.

## Divergences between documentation and code

No run is kept for what the code does not do. The modules state some of it as
properties, which TLC refutes when they are named in a configuration with the constants
given; the rest is visible as an exception in a property, or in an action.

Stated, and refuted by TLC when checked:

| Property | Set | Behaviour |
|---|---|---|
| `Store!NeverRefuses` | `TornTail = TRUE` | a loss of power cuts the last line, never acknowledged, and `New` fails for good; `docs/architecture.md:19`: "survive control-plane restarts and crashes" |
| `Heartbeat!SilentGoesOffline` | one agent, `OfflineAfter = 4`, `StaleAfter = 6`, `MaxFaults = 1`, `Prompt = TRUE` | marking a node unknown sets its `LastHeartbeat` to now, so a node that never answers again stays unknown; `docs/heartbeat.md:63`: "If a node fails to respond for more than **40 seconds**, its status is transitioned to `Offline`" |
| `Runway!SessionOutlivesRuns` | `Counts = {1}`, `MaxGens = 1`, `QueueCap = 2` | `StopModelWorkers` destroys the session while a worker uses it or is about to; `docs/inference_pipeline.md:43`: "gracefully destroyed" |
| `Store!ReadsSeeLog` | `SyncFaults = TRUE` | a record whose fsync failed stays in the log and comes back at the next start, though its caller got an error |
| `Store!AckedDurable` | `WriteFaults = TRUE` | after a partial write the next, acknowledged, record is glued to the fragment |
| `Store!NeverRefuses` | `Oversize = {v2}` | a line over 64 KiB is acknowledged and cannot be read back |
| `ModelRegistry!UniqueNames` | `Renames = FALSE` | two overlapping registrations store one name twice; the comment on `RegisterModel` says the name is unique within its namespace |
| `ModelRegistry!OnlyRegistrationCreates` | `Renames = TRUE` | `UpdateModel` brings a deregistered model back |
| `NodeRegistry!StatusPreserved` | as in `MCNodeRegistry.cfg` | `UpdateNode` undoes a status written between its read and its write |
| `NodeRegistry!RemovedNodesStayRemoved` | as in `MCNodeRegistry.cfg` | a node removed in that window is written back |
| `Heartbeat!RegisteredIsPolled` | `Preloaded = {}` | a registration by RPC has no status and the loop lists online and unknown nodes only: the agent is never polled and registers again each time it is stale |
| `Heartbeat!AnswerMeansOnline` | as in `MCHeartbeat.cfg` | a node that missed one call stays unknown although it answers |
| `Heartbeat!OfflineMeansSilent` | `OfflineAfter = 4`, `StaleAfter = 6` | answers do not refresh `LastHeartbeat`, so a node polled for long goes offline at its first missed call |
| `Routing!DeploysKept` | as in `MCRouting.cfg` | of two overlapping deployments on an agent one is lost, and both are acknowledged |
| `Routing!ZeroWeightUnused` | a list of weights 1.5 and 0 beside the list of zeros | a list of zeros leaves `currentWeight` at 0, and the next pick may be an endpoint of weight zero although another has more |
| `Runway!ExclusiveSession` | two workers | the workers of a pool share one session without a lock |

Visible as exceptions: `WholeFiles` excepts names in `cut` because nothing calls
fsync before the rename; `DownloadsWhole` excepts `tainted` downloads because a
resumed download seeks in whatever file the path names now; `CacheIsFresh` excepts
empty endpoint lists because the agent ignores them; `RoundsEnd` excepts hung
agents because `CallHeartbeat` has no deadline; `LostDeploysNeedRace` speaks of
running agents because assigned models are in memory only; `SharesFollowWeights` rounds
up or down by less than one pick, and an endpoint whose weight is below one, beside a
whole greatest weight, gets no request at all. In `Routing` no action of the agent starts a worker pool: nothing calls
`StartModelWorkers`, while `docs/inference_pipeline.md:26` says a queue is started when
a model is assigned. A deployed model without a pool answers every request with an error
and keeps the agent from forwarding it.

In `Client`: `apply` exits with status 0 whatever its table says (`Finish`); `model update` sends every field, so one without flags empties the name and
moves the model to the configured namespace (`UpdateRequest`). `DuplicatesNeedRetry`
excepts registrations a client gave up on. `SettingsKept` excepts overlapping and killed
saves: an empty file means defaults, and the rest of a longer text behind a shorter one
need not be YAML, which stops every later command.

In `Lookup`: the control plane registers neither `DeployAPI` nor `InferAPI`, so
`edgectl deploy`, and `infer` without `--target`, always get Unimplemented, while
`docs/client.md:397` describes them. `GhostReplicasNeedRace` excepts replicas deleted
between the loop's read and its write.

In `Probe`: `CardsMissing` excepts the second AMD card of a Linux host without
`rocm-smi`, because the loop that asks "Check if we already have this GPU from rocm-smi"
(`gpu.go:452`) asks only for the vendor. `CardsOnce` excepts AMD cards for which
`rocm-smi` prints a series and a model, those both tools of Windows list, and those
whose device id macOS prints. `SpecsFit` excepts NVIDIA on Windows and all but the last
device on macOS, which nothing completes. Of several entries that resemble a name
("Apple M1") any may be used, while `gpu.go:95` says "Prefer longer matches". The table
is looked for where the source was compiled (`loadGPUSpecs`), so an agent on another
machine has none (`specs = FALSE`).

## Left out, and why

* The numbers a model computes, JSON and protobuf encodings, logging: data the
  properties do not tell apart. (A line that does not decode, or is too long, is
  modelled by that fact.)
* `memory.go`: one number per operating system from one file or tool; no state.
* Of the client: printing and formats, `--dry-run`, `config view`, the reading of flags
  and files, versions, kinds and model types in manifests (one bit), the fields of a model
  besides namespace and name. `infer --target` calls an agent, which is in `Routing`.
* Of the generated protobuf code, the message types and the streaming wrappers; the
  empty `revivalClinic` package; `modelpath`, a pure prefix test nothing calls yet.
* `InitRuntime` and `CloseRuntime`, which load the ONNX library once.

## Plan

Order of work, most important behaviour first. Done: `Store` with `DurableKV`, `ModelRegistry`,
`NodeRegistry`, `Heartbeat`, `Runway`, `Transfer`, `Routing`, `Client`, `Lookup`, `Probe`; the
proofs of all their safety properties, and of the refinements.

1. What other liveness properties rest on and can be proved as for `Pick`: that a round of
   the heartbeat and a scan of the store have ever less to do.
2. An abstract registry that both registries implement when handlers do not overlap.
