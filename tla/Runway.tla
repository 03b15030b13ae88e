------------------------------- MODULE Runway -------------------------------
(***************************************************************************)
(* The inference runtime of an agent (internal/agent/runway/worker.go):    *)
(* the worker pool of one replica ID.  StartModelWorkers loads the ONNX    *)
(* session and starts the workers, ModelInference queues a job and waits   *)
(* for its answer or 5 s, StopModelWorkers closes Quit and destroys the    *)
(* session.  Start, stop and the lookup of a call exclude each other       *)
(* through registryMu; the workers and the rest of a call hold no lock.    *)
(*                                                                         *)
(* A pool started again under the same ID is a new generation: calls may   *)
(* still hold a pointer to an old one.                                     *)
(***************************************************************************)
EXTENDS Naturals, Sequences, FiniteSets

CONSTANTS
    Calls,     \* calls of ModelInference; each makes one InferenceJob
    Counts,    \* instance counts a pool may be asked for
    MaxGens,   \* bound: pools started
    QueueCap   \* capacity of a job queue (100)

ASSUME RunwayConstants ==
    /\ Counts \subseteq Nat /\ IsFiniteSet(Counts)
    /\ MaxGens \in Nat /\ QueueCap \in Nat \ {0}
    /\ Calls \cap {"none", "idle", "exit"} = {}

Gens == 1..MaxGens

(* An instance count of zero is taken for one. *)
Instances(n) == IF n = 0 THEN 1 ELSE n

Workers == UNION {1..Instances(n) : n \in Counts}

VARIABLES
    up,        \* the agent process runs
    reg,       \* workerRegistry[replicaID]: the registered generation, 0 if none
    started,   \* generations started so far
    stopping,  \* StopModelWorkers holds registryMu
    quit,      \* generations whose Quit is closed
    loaded,    \* generations whose session exists
    queue,     \* ModelWorker.Queue
    work,      \* each worker: "none", "idle", "exit", or the job it runs
    pc, ptr,   \* each call's step and the generation it looked up
    chan,      \* what a job's Result and Err channels hold
    out        \* what the call returned

vars == <<up, reg, started, stopping, quit, loaded, queue, work, pc, ptr, chan, out>>

Init ==
    /\ up = TRUE /\ reg = 0 /\ started = 0 /\ stopping = FALSE
    /\ quit = {} /\ loaded = {}
    /\ queue = [g \in Gens |-> << >>]
    /\ work = [g \in Gens |-> [w \in Workers |-> "none"]]
    /\ pc = [c \in Calls |-> "new"] /\ ptr = [c \in Calls |-> 0]
    /\ chan = [c \in Calls |-> "empty"] /\ out = [c \in Calls |-> "none"]

-----------------------------------------------------------------------------
(* An ID that is registered is refused, and so is a model that cannot be   *)
(* loaded.                                                                 *)
StartModelWorkers(n) ==
    /\ up /\ ~stopping /\ reg = 0 /\ started < MaxGens
    /\ LET g == started + 1 IN
       /\ started' = g /\ reg' = g
       /\ loaded' = loaded \cup {g}
       /\ work' = [work EXCEPT ![g] = [w \in Workers |-> IF w <= Instances(n) THEN "idle" ELSE "none"]]
    /\ UNCHANGED <<up, stopping, quit, queue, pc, ptr, chan, out>>

(* StopModelWorkers: close(Quit) ... *)
StopModelWorkers ==
    /\ up /\ ~stopping /\ reg # 0
    /\ stopping' = TRUE /\ quit' = quit \cup {reg}
    /\ UNCHANGED <<up, reg, started, loaded, queue, work, pc, ptr, chan, out>>

(* ... then, without waiting for the workers, Session.Destroy and the      *)
(* removal from the registry.                                              *)
DestroySession ==
    /\ up /\ stopping
    /\ stopping' = FALSE /\ loaded' = loaded \ {reg} /\ reg' = 0
    /\ UNCHANGED <<up, started, quit, queue, work, pc, ptr, chan, out>>

-----------------------------------------------------------------------------
(* ModelInference.                                                         *)
Return(c, r) == pc' = [pc EXCEPT ![c] = "done"] /\ out' = [out EXCEPT ![c] = r]

Lookup(c) ==
    /\ up /\ pc[c] = "new" /\ ~stopping
    /\ \/ reg = 0 /\ Return(c, "not_loaded") /\ UNCHANGED ptr
       \/ /\ reg # 0
          /\ pc' = [pc EXCEPT ![c] = "submit"] /\ ptr' = [ptr EXCEPT ![c] = reg]
          /\ UNCHANGED out
    /\ UNCHANGED <<up, reg, started, stopping, quit, loaded, queue, work, chan>>

Submit(c) ==
    /\ up /\ pc[c] = "submit"
    /\ \/ /\ Len(queue[ptr[c]]) < QueueCap
          /\ queue' = [queue EXCEPT ![ptr[c]] = Append(@, c)]
          /\ pc' = [pc EXCEPT ![c] = "wait"]
          /\ UNCHANGED out
       \/ /\ Len(queue[ptr[c]]) = QueueCap
          /\ Return(c, "queue_full") /\ UNCHANGED queue
    /\ UNCHANGED <<up, reg, started, stopping, quit, loaded, work, ptr, chan>>

Receive(c) ==
    /\ up /\ pc[c] = "wait" /\ chan[c] # "empty"
    /\ Return(c, chan[c])
    /\ UNCHANGED <<up, reg, started, stopping, quit, loaded, queue, work, ptr, chan>>

(* Mutation: a call waits for as long as its job is not answered. *)
NoTimeout(c) == FALSE /\ UNCHANGED vars

(* 5 s have passed; the answer may come later, or be there already. *)
Timeout(c) ==
    /\ up /\ pc[c] = "wait"
    /\ Return(c, "timeout")
    /\ UNCHANGED <<up, reg, started, stopping, quit, loaded, queue, work, ptr, chan>>

-----------------------------------------------------------------------------
(* A worker: select over Quit and Queue.  If both are ready Go picks one   *)
(* at random, so a pool that was stopped may still take jobs.              *)
Take(g, w) ==
    /\ up /\ work[g][w] = "idle" /\ queue[g] # << >>
    /\ work' = [work EXCEPT ![g][w] = Head(queue[g])]
    /\ queue' = [queue EXCEPT ![g] = Tail(@)]
    /\ UNCHANGED <<up, reg, started, stopping, quit, loaded, pc, ptr, chan, out>>

(* Mutation: the jobs still queued are thrown away with the first worker. *)
QuitDrains(g, w) ==
    /\ up /\ work[g][w] = "idle" /\ g \in quit
    /\ work' = [work EXCEPT ![g][w] = "exit"]
    /\ queue' = [queue EXCEPT ![g] = << >>]
    /\ UNCHANGED <<up, reg, started, stopping, quit, loaded, pc, ptr, chan, out>>

(* Mutation: Quit is signalled once instead of closed. *)
QuitOnce(g, w) ==
    /\ up /\ work[g][w] = "idle" /\ g \in quit
    /\ work' = [work EXCEPT ![g][w] = "exit"]
    /\ quit' = quit \ {g}
    /\ UNCHANGED <<up, reg, started, stopping, loaded, queue, pc, ptr, chan, out>>

Quit(g, w) ==
    /\ up /\ work[g][w] = "idle" /\ g \in quit
    /\ work' = [work EXCEPT ![g][w] = "exit"]
    /\ UNCHANGED <<up, reg, started, stopping, quit, loaded, queue, pc, ptr, chan, out>>

Busy(g, w) == work[g][w] \in Calls

(* Mutation: the channels have no buffer, so the send waits for the call. *)
AnswerUnbuffered(g, w) ==
    /\ up /\ Busy(g, w)
    /\ pc[work[g][w]] = "wait"
    /\ \E r \in {"ok", "error"} : chan' = [chan EXCEPT ![work[g][w]] = r]
    /\ work' = [work EXCEPT ![g][w] = "idle"]
    /\ UNCHANGED <<up, reg, started, stopping, quit, loaded, queue, pc, ptr, out>>

(* processJob returns and the worker sends: each channel holds one answer  *)
(* and the job gets one, so the send does not block, whether or not the    *)
(* call is still waiting.                                                  *)
Answer(g, w) ==
    /\ up /\ Busy(g, w)
    /\ \E r \in {"ok", "error"} : chan' = [chan EXCEPT ![work[g][w]] = r]
    /\ work' = [work EXCEPT ![g][w] = "idle"]
    /\ UNCHANGED <<up, reg, started, stopping, quit, loaded, queue, pc, ptr, out>>

(* ScaleFeatures indexes xMeans by the input's length, so an input with    *)
(* more features panics, and nothing recovers a worker's panic; a Run on a *)
(* session that has been destroyed is undefined in the C library.  Either  *)
(* may end the process, whatever the job.                                  *)
Die(g, w) ==
    /\ up /\ Busy(g, w)
    /\ up' = FALSE
    /\ UNCHANGED <<reg, started, stopping, quit, loaded, queue, work, pc, ptr, chan, out>>

WorkerStep(g, w) == Take(g, w) \/ Quit(g, w) \/ Answer(g, w)
ModelInference(c) == Lookup(c) \/ Submit(c) \/ Receive(c) \/ Timeout(c)

Next ==
    \/ \E n \in Counts : StartModelWorkers(n)
    \/ StopModelWorkers \/ DestroySession
    \/ \E c \in Calls : ModelInference(c)
    \/ \E g \in Gens, w \in Workers : WorkerStep(g, w) \/ Die(g, w)

Spec == Init /\ [][Next]_vars

(* Goroutines are scheduled, timers fire, processJob returns.  A closed    *)
(* Quit is chosen in the end (the queue of a stopped pool runs dry).       *)
FairSpec ==
    /\ Spec /\ WF_vars(DestroySession)
    /\ \A c \in Calls : WF_vars(Submit(c)) /\ WF_vars(Receive(c) \/ Timeout(c))
    /\ \A g \in Gens, w \in Workers : WF_vars(WorkerStep(g, w))

-----------------------------------------------------------------------------
(* Every variable keeps its shape; a queue never exceeds its capacity. *)
TypeOK ==
    /\ up \in BOOLEAN /\ started \in 0..MaxGens /\ reg \in {0, started} /\ stopping \in BOOLEAN
    /\ quit \subseteq 1..started /\ loaded \subseteq 1..started
    /\ queue \in [Gens -> Seq(Calls)] /\ \A g \in Gens : Len(queue[g]) <= QueueCap
    /\ work \in [Gens -> [Workers -> {"none", "idle", "exit"} \cup Calls]]
    /\ pc \in [Calls -> {"new", "submit", "wait", "done"}] /\ ptr \in [Calls -> 0..started]
    /\ chan \in [Calls -> {"empty", "ok", "error"}]
    /\ out \in [Calls -> {"none", "not_loaded", "queue_full", "ok", "error", "timeout"}]

(* Where a job is. *)
Queued(c) == {x \in Gens \X (1..QueueCap) : x[2] <= Len(queue[x[1]]) /\ queue[x[1]][x[2]] = c}

Running(c) == {x \in Gens \X Workers : work[x[1]][x[2]] = c}

(* A job that was accepted is in exactly one place: once in the queue of   *)
(* the pool the call looked up, with one of that pool's workers, or        *)
(* answered.  No job is lost, run twice or handed to another generation,   *)
(* whatever pools are stopped and started while it is under way.           *)
JobsOnce ==
    \A c \in Calls :
        /\ pc[c] = "wait" \/ out[c] \in {"ok", "error", "timeout"}
              => Cardinality(Queued(c)) + Cardinality(Running(c)) + (IF chan[c] = "empty" THEN 0 ELSE 1) = 1
        /\ \A p \in Queued(c) \cup Running(c) : p[1] = ptr[c]

(* ModelInference returns, also when its pool was stopped with the job in  *)
(* the queue.                                                              *)
InferenceReturns == \A c \in Calls : pc[c] \in {"submit", "wait"} ~> pc[c] = "done" \/ ~up

(* Calls that timed out do not use the pool up: while a pool is not        *)
(* stopped, every job it accepted is answered.                             *)
JobsServed ==
    \A c \in Calls : pc[c] = "wait" ~> chan[c] # "empty" \/ ptr[c] \in quit \/ ~up

(* Every worker of a stopped pool ends. *)
WorkersEnd ==
    \A g \in Gens : g \in quit ~> ~up \/ \A w \in Workers : work[g][w] \in {"none", "exit"}

(* "The ort.Session is gracefully destroyed": not while a worker runs it. *)
SessionOutlivesRuns == \A g \in Gens, w \in Workers : Busy(g, w) => g \in loaded

(* "Only one goroutine has access to a model's internal state at a time":  *)
(* no two workers run on one session.                                      *)
ExclusiveSession == \A g \in Gens, v, w \in Workers : Busy(g, v) /\ Busy(g, w) => v = w
=============================================================================
