---------------------------- MODULE AgentProofs -----------------------------
(***************************************************************************)
(* Machine-checked theorems about two parts of an agent: its worker pools, *)
(* for any number of calls, workers and pools and any capacity of the      *)
(* queues; and, from "The detection of graphics cards" on, what it finds   *)
(* out when it starts, for any hosts, cards, lines and table.              *)
(***************************************************************************)
EXTENDS Runway, Probe, SequenceTheorems, FiniteSetTheorems, TLAPS

(* Submit put the job in a queue. *)
Accepted == {c \in Calls : pc[c] = "wait" \/ out[c] \in {"ok", "error", "timeout"}}

(* A call holds a pool that was started from its lookup on; it has an      *)
(* answer only if its job was accepted and a result only once it returned. *)
CallsWellFormed ==
    \A c \in Calls :
        /\ pc[c] # "done" => out[c] = "none"
        /\ pc[c] = "submit" \/ c \in Accepted => ptr[c] \in 1..started
        /\ c \notin Accepted => chan[c] = "empty"

(* A queued job is one accepted for this pool and not answered, it is      *)
(* queued once, and no worker has it.                                      *)
QueuedJobs ==
    \A g \in Gens : \A i \in 1..Len(queue[g]) :
        /\ queue[g][i] \in Accepted /\ chan[queue[g][i]] = "empty" /\ ptr[queue[g][i]] = g
        /\ \A w \in Workers : work[g][w] # queue[g][i]
        /\ \A j \in 1..Len(queue[g]) : queue[g][j] = queue[g][i] => j = i

(* A job a worker runs was accepted for its pool and not answered, and no  *)
(* other worker has it.                                                    *)
RunningJobs ==
    \A g \in Gens, w \in Workers : work[g][w] \in Calls =>
        /\ work[g][w] \in Accepted /\ chan[work[g][w]] = "empty" /\ ptr[work[g][w]] = g
        /\ \A v \in Workers : work[g][v] = work[g][w] => v = w

(* A job without an answer is in its pool's queue or with a worker of it. *)
NoJobLost ==
    \A c \in Calls : c \in Accepted /\ chan[c] = "empty" =>
        \/ \E i \in 1..Len(queue[ptr[c]]) : queue[ptr[c]][i] = c
        \/ \E w \in Workers : work[ptr[c]][w] = c

(* The inductive invariant of the pools. *)
PoolInv == TypeOK /\ CallsWellFormed /\ QueuedJobs /\ RunningJobs /\ NoJobLost

(* What a worker's receive leaves of the queue. *)
LEMMA Taken ==
    ASSUME NEW S, NEW s \in Seq(S), s # << >>
    PROVE  /\ Tail(s) \in Seq(S) /\ Len(s) \in Nat /\ Len(s) > 0 /\ Len(Tail(s)) = Len(s) - 1
           /\ Head(s) = s[1] /\ s[1] \in S
           /\ \A i \in 1..(Len(s) - 1) : Tail(s)[i] = s[i + 1]
<1>1. Len(s) \in Nat /\ Len(s) > 0
  BY EmptySeq
<1> QED
  BY <1>1, HeadTailProperties

(* What Submit leaves of the queue. *)
LEMMA Queueing ==
    ASSUME NEW S, NEW s \in Seq(S), NEW x \in S
    PROVE  /\ Append(s, x) \in Seq(S) /\ Len(s) \in Nat /\ Len(Append(s, x)) = Len(s) + 1
           /\ Append(s, x)[Len(s) + 1] = x
           /\ \A i \in 1..Len(s) : Append(s, x)[i] = s[i] /\ s[i] \in S
  OBVIOUS

(* No pool, no job. *)
LEMMA PoolInit == Init => PoolInv
<1> SUFFICES ASSUME Init PROVE PoolInv
  OBVIOUS
<1>1. \A g \in Gens : queue[g] = << >> /\ queue[g] \in Seq(Calls) /\ Len(queue[g]) = 0
  BY DEF Init
<1>2. queue \in [Gens -> Seq(Calls)]
  BY <1>1 DEF Init
<1>3. up \in BOOLEAN /\ stopping \in BOOLEAN
  BY DEF Init
<1>4. /\ work \in [Gens -> [Workers -> {"none", "idle", "exit"} \cup Calls]]
      /\ pc \in [Calls -> {"new", "submit", "wait", "done"}] /\ ptr \in [Calls -> 0..started]
      /\ chan \in [Calls -> {"empty", "ok", "error"}]
      /\ out \in [Calls -> {"none", "not_loaded", "queue_full", "ok", "error", "timeout"}]
  BY DEF Init
<1>5. started \in 0..MaxGens /\ reg \in {0, started} /\ quit = {} /\ loaded = {}
  BY RunwayConstants DEF Init
<1>6. \A g \in Gens : Len(queue[g]) <= QueueCap
  BY <1>1, RunwayConstants
<1>7. TypeOK
  BY <1>2, <1>3, <1>4, <1>5, <1>6 DEF TypeOK
<1> QED
  BY <1>1, <1>7, RunwayConstants DEF Init, PoolInv, CallsWellFormed, QueuedJobs, RunningJobs, NoJobLost, Accepted

(* The generation a call holds is one of the pools. *)
LEMMA StartedPools == ASSUME TypeOK PROVE started \in Nat /\ 1..started \subseteq Gens
  BY RunwayConstants DEF TypeOK, Gens

(* Every step of a call, a worker, a start or a stop preserves the         *)
(* invariant.                                                              *)
LEMMA PoolStep == PoolInv /\ [Next]_vars => PoolInv'
<1> SUFFICES ASSUME PoolInv, [Next]_vars PROVE PoolInv'
  OBVIOUS
<1> USE RunwayConstants DEF PoolInv
<1>0. started \in Nat /\ 1..started \subseteq Gens
  BY StartedPools
<1>1. ASSUME NEW n \in Counts, StartModelWorkers(n) PROVE PoolInv'
  <2> DEFINE g == started + 1
             fresh == [w \in Workers |-> IF w <= Instances(n) THEN "idle" ELSE "none"]
  <2>1. g \in Gens /\ g \notin 1..started /\ 1..started \subseteq 1..g /\ g \in 0..MaxGens
    BY <1>0, <1>1 DEF StartModelWorkers, Gens
  <2>2. fresh \in [Workers -> {"idle", "none"}] /\ work' = [work EXCEPT ![g] = fresh]
    BY <1>1 DEF StartModelWorkers
  <2> HIDE DEF fresh
  <2>3. \A w \in Workers : work'[g][w] \notin Calls
    BY <2>1, <2>2 DEF TypeOK
  <2>4. \A h \in Gens : h # g => work'[h] = work[h]
    BY <2>2 DEF TypeOK
  <2>5. TypeOK'
    BY <1>0, <1>1, <2>1, <2>2 DEF StartModelWorkers, TypeOK
  <2>6. CallsWellFormed' /\ Accepted' = Accepted /\ \A c \in Calls : c \in Accepted => ptr[c] # g
    BY <1>1, <2>1 DEF StartModelWorkers, CallsWellFormed, Accepted
  <2>7. QueuedJobs'
    <3>1. \A h \in Gens : \A i \in 1..Len(queue[h]) : queue[h][i] \in Calls
      BY DEF TypeOK
    <3> QED
      BY <1>1, <2>1, <2>3, <2>4, <2>6, <3>1 DEF StartModelWorkers, QueuedJobs
  <2>8. RunningJobs'
    BY <1>1, <2>3, <2>4, <2>6 DEF StartModelWorkers, RunningJobs
  <2>9. NoJobLost'
    BY <1>0, <1>1, <2>4, <2>6 DEF StartModelWorkers, NoJobLost, CallsWellFormed
  <2> QED
    BY <2>5, <2>6, <2>7, <2>8, <2>9
<1>2. ASSUME StopModelWorkers PROVE PoolInv'
  BY <1>0, <1>2 DEF StopModelWorkers, TypeOK, CallsWellFormed, QueuedJobs, RunningJobs, NoJobLost, Accepted
<1>3. ASSUME DestroySession PROVE PoolInv'
  <2>1. stopping' \in BOOLEAN /\ up' \in BOOLEAN
    BY <1>3 DEF DestroySession, TypeOK
  <2>2. TypeOK'
    BY <1>3, <2>1 DEF DestroySession, TypeOK
  <2> QED
    BY <1>3, <2>2 DEF DestroySession, CallsWellFormed, QueuedJobs, RunningJobs, NoJobLost, Accepted
<1>4. ASSUME NEW c \in Calls, Lookup(c) PROVE PoolInv'
  <2>1. c \notin Accepted /\ out[c] = "none" /\ chan[c] = "empty"
    BY <1>4 DEF Lookup, CallsWellFormed, Accepted
  <2>2. /\ pc' \in [Calls -> {"new", "submit", "wait", "done"}] /\ ptr' \in [Calls -> 0..started]
        /\ out' \in [Calls -> {"none", "not_loaded", "queue_full", "ok", "error", "timeout"}]
        /\ pc'[c] # "done" => out'[c] = "none" /\ ptr'[c] \in 1..started
        /\ \A d \in Calls : d # c => pc'[d] = pc[d] /\ ptr'[d] = ptr[d] /\ out'[d] = out[d]
    <3>1. CASE reg = 0 /\ Return(c, "not_loaded") /\ UNCHANGED ptr
      BY <2>1, <3>1 DEF Return, TypeOK
    <3>2. CASE reg # 0 /\ pc' = [pc EXCEPT ![c] = "submit"] /\ ptr' = [ptr EXCEPT ![c] = reg] /\ UNCHANGED out
      <4>1. reg \in 0..started /\ reg \in 1..started
        BY <1>0, <3>2 DEF TypeOK
      <4> QED
        BY <2>1, <3>2, <4>1 DEF TypeOK
    <3> QED
      BY <1>4, <3>1, <3>2 DEF Lookup
  <2>3. TypeOK'
    BY <1>4, <2>2 DEF Lookup, TypeOK
  <2>4. /\ Accepted' = Accepted /\ c \notin Accepted
        /\ \A d \in Accepted : ptr'[d] = ptr[d]
    BY <1>4, <2>1 DEF Lookup, Return, Accepted, TypeOK
  <2>5. pc'[c] \in {"submit", "done"}
    BY <1>4 DEF Lookup, Return, TypeOK
  <2>6. CallsWellFormed'
    BY <1>4, <2>1, <2>2, <2>4, <2>5 DEF Lookup, CallsWellFormed
  <2>7. \A g \in Gens : \A i \in 1..Len(queue[g]) : queue[g][i] \in Calls
    BY DEF TypeOK
  <2>8. QueuedJobs' /\ RunningJobs' /\ NoJobLost'
    BY <1>4, <2>4, <2>7 DEF Lookup, QueuedJobs, RunningJobs, NoJobLost
  <2> QED
    BY <2>6, <2>8, <2>3
<1>5. ASSUME NEW c \in Calls, Submit(c) PROVE PoolInv'
  <2> DEFINE g == ptr[c]
  <2>1. c \notin Accepted /\ out[c] = "none" /\ chan[c] = "empty" /\ pc[c] = "submit" /\ g \in Gens
    BY <1>0, <1>5 DEF Submit, CallsWellFormed, Accepted
  <2>2. \A h \in Gens : \A i \in 1..Len(queue[h]) : queue[h][i] \in Calls /\ queue[h][i] # c
    BY <2>1 DEF TypeOK, QueuedJobs
  <2>3. \A h \in Gens, w \in Workers : work[h][w] # c
    BY <2>1 DEF RunningJobs
  <2>4. CASE Len(queue[g]) = QueueCap /\ Return(c, "queue_full") /\ UNCHANGED queue
    <3>1. TypeOK'
      BY <1>5, <2>4 DEF Submit, Return, TypeOK
    <3>2. Accepted' = Accepted
      BY <1>5, <2>1, <2>4 DEF Submit, Return, Accepted, TypeOK
    <3>3. CallsWellFormed'
      BY <1>5, <2>1, <2>4, <3>2 DEF Submit, Return, CallsWellFormed, TypeOK
    <3>4. QueuedJobs' /\ RunningJobs' /\ NoJobLost'
      BY <1>5, <2>2, <2>4, <3>2 DEF Submit, QueuedJobs, RunningJobs, NoJobLost
    <3> QED
      BY <3>1, <3>3, <3>4
  <2>5. CASE /\ Len(queue[g]) < QueueCap
             /\ queue' = [queue EXCEPT ![g] = Append(@, c)]
             /\ pc' = [pc EXCEPT ![c] = "wait"] /\ UNCHANGED out
    <3>1. /\ queue'[g] \in Seq(Calls) /\ Len(queue[g]) \in Nat /\ Len(queue'[g]) = Len(queue[g]) + 1
          /\ queue'[g][Len(queue[g]) + 1] = c
          /\ \A i \in 1..Len(queue[g]) : queue'[g][i] = queue[g][i]
          /\ \A h \in Gens : h # g => queue'[h] = queue[h]
      BY <2>1, <2>5, Queueing DEF TypeOK
    <3>2. TypeOK'
      BY <1>5, <2>1, <2>5, <3>1 DEF Submit, TypeOK
    <3>3. Accepted' = Accepted \cup {c}
      BY <1>5, <2>5 DEF Accepted, TypeOK
    <3>4. CallsWellFormed'
      BY <1>5, <2>1, <2>5, <3>3 DEF Submit, CallsWellFormed, TypeOK
    <3>5. work' = work /\ ptr' = ptr /\ chan' = chan /\ g = ptr[c]
      BY <1>5 DEF Submit
    <3> HIDE DEF g
    <3>6. QueuedJobs'
      <4> SUFFICES ASSUME NEW h \in Gens, NEW i \in 1..Len(queue'[h])
                   PROVE  /\ queue'[h][i] \in Accepted' /\ chan'[queue'[h][i]] = "empty" /\ ptr'[queue'[h][i]] = h
                          /\ \A w \in Workers : work'[h][w] # queue'[h][i]
                          /\ \A j \in 1..Len(queue'[h]) : queue'[h][j] = queue'[h][i] => j = i
        BY DEF QueuedJobs
      <4>1. CASE h # g
        BY <1>5, <2>2, <3>1, <3>3, <4>1 DEF Submit, QueuedJobs
      <4>2. CASE h = g /\ i = Len(queue[g]) + 1
        <5>1. i \in Nat /\ \A j \in 1..Len(queue'[h]) : j # i => j \in 1..Len(queue[g])
          BY <3>1, <4>2
        <5>2. \A j \in 1..Len(queue'[h]) : j # i => queue'[h][j] # c
          BY <2>1, <2>2, <3>1, <4>2, <5>1
        <5> QED
          BY <2>1, <2>3, <3>1, <3>3, <3>5, <4>2, <5>2
      <4>3. CASE h = g /\ i # Len(queue[g]) + 1
        <5>1. i \in 1..Len(queue[g])
          BY <3>1, <4>3
        <5> QED
          <6>1. queue'[g][i] = queue[g][i] /\ queue[g][i] # c
            BY <2>1, <2>2, <3>1, <5>1
          <6>2. ASSUME NEW j \in 1..Len(queue'[h]), queue'[h][j] = queue'[h][i] PROVE j = i
            <7>1. j # Len(queue[g]) + 1
              BY <3>1, <4>3, <6>1, <6>2
            <7>2. j \in 1..Len(queue[g])
              BY <3>1, <4>3, <7>1
            <7> QED
              BY <2>1, <3>1, <4>3, <5>1, <6>1, <6>2, <7>2 DEF QueuedJobs
          <6> QED
            BY <2>1, <3>3, <3>5, <4>3, <5>1, <6>1, <6>2 DEF QueuedJobs
      <4> QED
        BY <4>1, <4>2, <4>3
    <3>7. RunningJobs'
      BY <1>5, <2>3, <3>3 DEF Submit, RunningJobs
    <3>8. NoJobLost'
      <4> SUFFICES ASSUME NEW d \in Calls, d \in Accepted', chan[d] = "empty"
                   PROVE  \/ \E i \in 1..Len(queue'[ptr[d]]) : queue'[ptr[d]][i] = d
                          \/ \E w \in Workers : work[ptr[d]][w] = d
        BY <3>5 DEF NoJobLost
      <4>1. CASE d = c
        <5>1. Len(queue[g]) + 1 \in 1..Len(queue'[g])
          BY <3>1
        <5> QED
          BY <3>1, <3>5, <4>1, <5>1
      <4>2. CASE d # c
        <5>1. ptr[d] \in Gens /\ d \in Accepted
          BY <1>0, <3>3, <4>2 DEF CallsWellFormed
        <5>2. \A i \in 1..Len(queue[ptr[d]]) :
                 i \in 1..Len(queue'[ptr[d]]) /\ queue'[ptr[d]][i] = queue[ptr[d]][i]
          <6>1. CASE ptr[d] = g
            BY <3>1, <6>1
          <6>2. CASE ptr[d] # g
            BY <3>1, <5>1, <6>2
          <6> QED
            BY <6>1, <6>2
        <5> QED
          BY <5>1, <5>2 DEF NoJobLost
      <4> QED
        BY <4>1, <4>2
    <3> QED
      BY <3>2, <3>4, <3>6, <3>7, <3>8
  <2> QED
    BY <1>5, <2>4, <2>5 DEF Submit
<1>6. ASSUME NEW c \in Calls, Receive(c) \/ Timeout(c) PROVE PoolInv'
  <2>1. /\ UNCHANGED <<up, reg, started, stopping, quit, loaded, queue, work, ptr, chan>>
        /\ pc[c] = "wait" /\ pc' = [pc EXCEPT ![c] = "done"]
        /\ \E r \in {"ok", "error", "timeout"} : out' = [out EXCEPT ![c] = r]
    BY <1>6 DEF Receive, Timeout, Return, TypeOK
  <2>2. Accepted' = Accepted
    BY <2>1 DEF Accepted, TypeOK
  <2>3. TypeOK' /\ CallsWellFormed'
    BY <2>1, <2>2 DEF TypeOK, CallsWellFormed, Accepted
  <2>4. \A g \in Gens : \A i \in 1..Len(queue[g]) : queue[g][i] \in Calls
    BY DEF TypeOK
  <2>5. QueuedJobs' /\ RunningJobs' /\ NoJobLost'
    BY <2>1, <2>2, <2>4 DEF QueuedJobs, RunningJobs, NoJobLost
  <2> QED
    BY <2>3, <2>5
<1>7. ASSUME NEW g \in Gens, NEW w \in Workers, Take(g, w) PROVE PoolInv'
  <2> DEFINE c == queue[g][1]
  <2>1. /\ queue'[g] \in Seq(Calls) /\ Len(queue[g]) \in Nat /\ Len(queue[g]) > 0
        /\ Len(queue'[g]) = Len(queue[g]) - 1
        /\ c \in Calls /\ Head(queue[g]) = c
        /\ \A i \in 1..(Len(queue[g]) - 1) : queue'[g][i] = queue[g][i + 1]
        /\ \A h \in Gens : h # g => queue'[h] = queue[h]
    BY <1>7, Taken DEF Take, TypeOK
  <2>2. /\ work'[g][w] = c /\ work[g][w] = "idle"
        /\ \A h \in Gens, v \in Workers : h # g \/ v # w => work'[h][v] = work[h][v]
        /\ work' \in [Gens -> [Workers -> {"none", "idle", "exit"} \cup Calls]]
    BY <1>7, <2>1 DEF Take, TypeOK
  <2>3. Accepted' = Accepted
    BY <1>7 DEF Take, Accepted
  <2>4. /\ c \in Accepted /\ chan[c] = "empty" /\ ptr[c] = g
        /\ \A v \in Workers : work[g][v] # c
        /\ \A j \in 1..Len(queue[g]) : queue[g][j] = c => j = 1
    BY <2>1 DEF QueuedJobs
  <2> HIDE DEF c
  <2>5. TypeOK'
    BY <1>7, <2>1, <2>2 DEF Take, TypeOK
  <2>6. CallsWellFormed'
    BY <1>7, <2>3 DEF Take, CallsWellFormed
  <2>7. QueuedJobs'
    <3> SUFFICES ASSUME NEW h \in Gens, NEW i \in 1..Len(queue'[h])
                 PROVE  /\ queue'[h][i] \in Accepted' /\ chan'[queue'[h][i]] = "empty" /\ ptr'[queue'[h][i]] = h
                        /\ \A v \in Workers : work'[h][v] # queue'[h][i]
                        /\ \A j \in 1..Len(queue'[h]) : queue'[h][j] = queue'[h][i] => j = i
      BY DEF QueuedJobs
    <3>1. CASE h # g
      <4>1. queue[h][i] \in Calls /\ queue'[h] = queue[h]
        BY <2>1, <3>1 DEF TypeOK
      <4> QED
        BY <1>7, <2>2, <2>3, <3>1, <4>1 DEF Take, QueuedJobs
    <3>2. CASE h = g
      <4>1. /\ i \in 1..(Len(queue[g]) - 1) /\ i + 1 \in 1..Len(queue[g]) /\ i + 1 # 1
            /\ queue'[g][i] = queue[g][i + 1] /\ queue[g][i + 1] \in Calls
        <5>1. queue[g] \in Seq(Calls)
          BY DEF TypeOK
        <5>2. i \in 1..(Len(queue[g]) - 1) /\ i + 1 \in 1..Len(queue[g]) /\ i + 1 # 1
          BY <2>1, <3>2
        <5>3. queue[g][i + 1] \in Calls
          BY <5>1, <5>2
        <5> QED
          BY <2>1, <5>2, <5>3
      <4>2. queue[g][i + 1] # c
        BY <2>4, <4>1
      <4>3. \A v \in Workers : work'[h][v] # queue'[h][i]
        BY <2>2, <3>2, <4>1, <4>2 DEF QueuedJobs
      <4>4. ASSUME NEW j \in 1..Len(queue'[h]), queue'[h][j] = queue'[h][i] PROVE j = i
        <5>1. j + 1 \in 1..Len(queue[g]) /\ queue[g][j + 1] = queue[g][i + 1]
          BY <2>1, <3>2, <4>1, <4>4
        <5>2. j + 1 = i + 1
          BY <4>1, <5>1 DEF QueuedJobs
        <5> QED
          BY <5>2
      <4> QED
        BY <1>7, <2>3, <3>2, <4>1, <4>3, <4>4 DEF Take, QueuedJobs
    <3> QED
      BY <3>1, <3>2
  <2>8. RunningJobs'
    BY <1>7, <2>1, <2>2, <2>3, <2>4 DEF Take, RunningJobs
  <2>9. NoJobLost'
    <3> SUFFICES ASSUME NEW d \in Calls, d \in Accepted, chan[d] = "empty"
                 PROVE  \/ \E i \in 1..Len(queue'[ptr[d]]) : queue'[ptr[d]][i] = d
                        \/ \E v \in Workers : work'[ptr[d]][v] = d
      BY <1>7, <2>3 DEF Take, NoJobLost
    <3>0. ptr[d] \in Gens
      BY <1>0 DEF CallsWellFormed
    <3>1. CASE \E v \in Workers : work[ptr[d]][v] = d
      BY <2>2, <3>0, <3>1
    <3>2. ASSUME NEW i \in 1..Len(queue[ptr[d]]), queue[ptr[d]][i] = d
          PROVE  \/ \E j \in 1..Len(queue'[ptr[d]]) : queue'[ptr[d]][j] = d
                 \/ \E v \in Workers : work'[ptr[d]][v] = d
      <4>1. CASE ptr[d] # g
        BY <2>1, <3>0, <3>2, <4>1
      <4>2. CASE ptr[d] = g /\ i = 1
        BY <2>2, <3>2, <4>2 DEF c
      <4>3. CASE ptr[d] = g /\ i # 1
        <5>1. i - 1 \in 1..Len(queue'[g]) /\ i - 1 \in 1..(Len(queue[g]) - 1) /\ (i - 1) + 1 = i
          BY <2>1, <4>3
        <5>2. queue'[g][i - 1] = d
          BY <2>1, <3>2, <4>3, <5>1
        <5> QED
          BY <4>3, <5>1, <5>2
      <4> QED
        BY <4>1, <4>2, <4>3
    <3> QED
      BY <3>1, <3>2 DEF NoJobLost
  <2> QED
    BY <2>5, <2>6, <2>7, <2>8, <2>9
<1>8. ASSUME NEW g \in Gens, NEW w \in Workers, Quit(g, w) PROVE PoolInv'
  <2>1. /\ work[g][w] = "idle" /\ work'[g][w] = "exit"
        /\ \A h \in Gens, v \in Workers : h # g \/ v # w => work'[h][v] = work[h][v]
        /\ work' \in [Gens -> [Workers -> {"none", "idle", "exit"} \cup Calls]]
    BY <1>8 DEF Quit, TypeOK
  <2>2. Accepted' = Accepted
    BY <1>8 DEF Quit, Accepted
  <2>3. \A h \in Gens : \A i \in 1..Len(queue[h]) : queue[h][i] \in Calls
    BY DEF TypeOK
  <2>4. TypeOK' /\ CallsWellFormed'
    BY <1>8, <2>1, <2>2 DEF Quit, TypeOK, CallsWellFormed
  <2>5. QueuedJobs'
    BY <1>8, <2>1, <2>2, <2>3 DEF Quit, QueuedJobs
  <2>6. RunningJobs'
    BY <1>8, <2>1, <2>2 DEF Quit, RunningJobs
  <2>7. NoJobLost'
    BY <1>0, <1>8, <2>1, <2>2 DEF Quit, NoJobLost, CallsWellFormed
  <2> QED
    BY <2>4, <2>5, <2>6, <2>7
<1>9. ASSUME NEW g \in Gens, NEW w \in Workers, Answer(g, w) PROVE PoolInv'
  <2> DEFINE c == work[g][w]
  <2>1. c \in Calls /\ c \in Accepted /\ ptr[c] = g /\ \A v \in Workers : work[g][v] = c => v = w
    BY <1>9 DEF Answer, Busy, RunningJobs
  <2>2. /\ work'[g][w] = "idle"
        /\ \A h \in Gens, v \in Workers : h # g \/ v # w => work'[h][v] = work[h][v]
        /\ work' \in [Gens -> [Workers -> {"none", "idle", "exit"} \cup Calls]]
    BY <1>9 DEF Answer, TypeOK
  <2>3. /\ chan'[c] \in {"ok", "error"} /\ chan' \in [Calls -> {"empty", "ok", "error"}]
        /\ \A d \in Calls : d # c => chan'[d] = chan[d]
    BY <1>9, <2>1 DEF Answer, TypeOK
  <2>4. Accepted' = Accepted
    BY <1>9 DEF Answer, Accepted
  <2>5. \A h \in Gens : \A i \in 1..Len(queue[h]) : queue[h][i] \in Calls /\ queue[h][i] # c
    BY <2>1 DEF TypeOK, QueuedJobs
  <2>6. \A h \in Gens, v \in Workers : h # g \/ v # w => work[h][v] # c
    BY <2>1 DEF RunningJobs
  <2> HIDE DEF c
  <2>7. TypeOK'
    BY <1>9, <2>2, <2>3 DEF Answer, TypeOK
  <2>8. CallsWellFormed'
    BY <1>9, <2>1, <2>3, <2>4 DEF Answer, CallsWellFormed
  <2>9. QueuedJobs'
    BY <1>9, <2>2, <2>3, <2>4, <2>5 DEF Answer, QueuedJobs
  <2>10. RunningJobs'
    BY <1>9, <2>2, <2>3, <2>4, <2>6 DEF Answer, RunningJobs
  <2>11. NoJobLost'
    <3>1. c = work[g][w]
      BY DEF c
    <3> QED
      BY <1>0, <1>9, <2>1, <2>2, <2>3, <2>4, <3>1 DEF Answer, NoJobLost, CallsWellFormed
  <2> QED
    BY <2>7, <2>8, <2>9, <2>10, <2>11
<1>10. ASSUME NEW g \in Gens, NEW w \in Workers, Die(g, w) PROVE PoolInv'
  <2>1. up' \in BOOLEAN
    BY <1>10 DEF Die
  <2>2. TypeOK'
    BY <1>10, <2>1 DEF Die, TypeOK
  <2> QED
    BY <1>10, <2>2 DEF Die, CallsWellFormed, QueuedJobs, RunningJobs, NoJobLost, Accepted
<1>11. CASE UNCHANGED vars
  BY <1>11 DEF vars, TypeOK, CallsWellFormed, QueuedJobs, RunningJobs, NoJobLost, Accepted
<1> QED
  BY <1>1, <1>2, <1>3, <1>4, <1>5, <1>6, <1>7, <1>8, <1>9, <1>10, <1>11
     DEF Next, ModelInference, WorkerStep

(* The pools' invariant holds in every reachable state. *)
LEMMA PoolInvariant == Spec => []PoolInv
<1>1. Init => PoolInv
  BY PoolInit
<1>2. PoolInv /\ [Next]_vars => PoolInv'
  BY PoolStep
<1> QED
  BY <1>1, <1>2, PTL DEF Spec

(* The invariant counts: one place for every accepted job. *)
LEMMA OnePlace == ASSUME PoolInv PROVE JobsOnce
<1> SUFFICES ASSUME NEW c \in Calls
             PROVE  /\ c \in Accepted => Cardinality(Queued(c)) + Cardinality(Running(c))
                                        + (IF chan[c] = "empty" THEN 0 ELSE 1) = 1
                    /\ \A p \in Queued(c) \cup Running(c) : p[1] = ptr[c]
  BY DEF JobsOnce, Accepted
<1> USE DEF PoolInv
<1>1. ASSUME NEW x \in Queued(c)
      PROVE  /\ x[1] \in Gens /\ x[2] \in 1..Len(queue[x[1]]) /\ queue[x[1]][x[2]] = c
             /\ x = <<x[1], x[2]>>
  BY RunwayConstants DEF Queued, TypeOK
<1>2. ASSUME NEW x \in Running(c)
      PROVE  x[1] \in Gens /\ x[2] \in Workers /\ work[x[1]][x[2]] = c /\ x = <<x[1], x[2]>>
  BY DEF Running
<1>3. \A x \in Queued(c) : x[1] = ptr[c] /\ chan[c] = "empty" /\ c \in Accepted /\ Running(c) = {}
  <2> SUFFICES ASSUME NEW x \in Queued(c)
               PROVE  x[1] = ptr[c] /\ chan[c] = "empty" /\ c \in Accepted /\ Running(c) = {}
    OBVIOUS
  <2>1. x[1] = ptr[c] /\ chan[c] = "empty" /\ c \in Accepted /\ \A w \in Workers : work[ptr[c]][w] # c
    BY <1>1 DEF QueuedJobs
  <2>2. \A y \in Running(c) : y[1] = ptr[c]
    BY <1>2 DEF RunningJobs
  <2> QED
    BY <1>2, <2>1, <2>2
<1>4. \A x \in Running(c) : x[1] = ptr[c] /\ chan[c] = "empty" /\ c \in Accepted
  BY <1>2 DEF RunningJobs
<1>5. \A x, y \in Queued(c) : x = y
  BY <1>1, <1>3 DEF QueuedJobs
<1>6. \A x, y \in Running(c) : x = y
  BY <1>2, <1>4 DEF RunningJobs
<1>7. ASSUME c \in Accepted, chan[c] = "empty" PROVE Queued(c) # {} \/ Running(c) # {}
  <2>1. ptr[c] \in Gens
    BY <1>7, StartedPools DEF CallsWellFormed
  <2>2. CASE \E w \in Workers : work[ptr[c]][w] = c
    <3>1. PICK w \in Workers : work[ptr[c]][w] = c
      BY <2>2
    <3>2. <<ptr[c], w>> \in Running(c)
      BY <2>1, <3>1 DEF Running
    <3> QED
      BY <3>2
  <2>3. CASE \E i \in 1..Len(queue[ptr[c]]) : queue[ptr[c]][i] = c
    <3>1. PICK i \in 1..Len(queue[ptr[c]]) : queue[ptr[c]][i] = c
      BY <2>3
    <3>2. i \in 1..QueueCap /\ i <= Len(queue[ptr[c]])
      BY <2>1, <3>1, RunwayConstants DEF TypeOK
    <3>3. <<ptr[c], i>> \in Queued(c)
      BY <2>1, <3>1, <3>2 DEF Queued
    <3> QED
      BY <3>3
  <2> QED
    BY <1>7, <2>2, <2>3 DEF NoJobLost
<1>8. \A S : (\A x, y \in S : x = y) => IF S = {} THEN Cardinality(S) = 0 ELSE Cardinality(S) = 1
  <2> SUFFICES ASSUME NEW S, \A x, y \in S : x = y
               PROVE  IF S = {} THEN Cardinality(S) = 0 ELSE Cardinality(S) = 1
    OBVIOUS
  <2>1. CASE S = {}
    BY <2>1, FS_EmptySet
  <2>2. CASE S # {}
    <3>1. PICK x : x \in S
      BY <2>2
    <3>2. S = {x}
      BY <3>1
    <3> QED
      BY <2>2, <3>2, FS_Singleton
  <2> QED
    BY <2>1, <2>2
<1>9. c \in Accepted => Cardinality(Queued(c)) + Cardinality(Running(c))
                        + (IF chan[c] = "empty" THEN 0 ELSE 1) = 1
  <2>1. CASE Queued(c) # {}
    <3>1. Cardinality(Queued(c)) = 1 /\ Cardinality(Running(c)) = 0 /\ chan[c] = "empty"
      BY <1>3, <1>5, <1>6, <1>8, <2>1
    <3> QED
      BY <3>1
  <2>2. CASE Running(c) # {}
    <3>1. Cardinality(Queued(c)) = 0 /\ Cardinality(Running(c)) = 1 /\ chan[c] = "empty"
      BY <1>3, <1>4, <1>5, <1>6, <1>8, <2>2
    <3> QED
      BY <3>1
  <2>3. CASE Queued(c) = {} /\ Running(c) = {}
    <3>1. Cardinality(Queued(c)) = 0 /\ Cardinality(Running(c)) = 0
      BY <1>8, <2>3
    <3> QED
      BY <1>7, <2>3, <3>1
  <2> QED
    BY <2>1, <2>2, <2>3
<1> QED
  BY <1>3, <1>4, <1>9

(* Every variable keeps its shape, and no queue exceeds its capacity. *)
THEOREM PoolTypeCorrect == Spec => []TypeOK
<1>1. PoolInv => TypeOK
  BY DEF PoolInv
<1> QED
  BY <1>1, PoolInvariant, PTL

(* Whatever pools are stopped and started and whatever calls time out, an  *)
(* accepted job is queued once, with one worker, or answered once, always  *)
(* in the pool its call looked up.                                         *)
THEOREM EveryJobOnce == Spec => []JobsOnce
<1>1. PoolInv => JobsOnce
  BY OnePlace
<1> QED
  BY <1>1, PoolInvariant, PTL

-----------------------------------------------------------------------------
(* The detection of graphics cards.                                        *)

(* The detection runs one tool after the other; what it puts together is   *)
(* from the tool it reads.                                                 *)
Stages ==
    /\ lines # NotRun => ~done /\ Tool \in host.tools
    /\ current # None => lines # NotRun /\ Tool \in {"rocm-smi", "system_profiler"}
    /\ inDisplaySection => host.os = "darwin" /\ (IF lines = NotRun THEN stage > 1 ELSE current # None)
    /\ done => stage > Len(Tools)

(* What a device says before the table is asked ... *)
Raw(d) == d.units = 0 /\ d.tops = 0 /\ d.mem = d.said

(* ... and after. *)
Completed(table, d) ==
    LET known == lookupGPUSpec(table, d.vendor, d.name, d.words) IN
    \/ Raw(d) /\ known = {None}
    \/ \E e \in known \ {None} :
          /\ d.units = e.units /\ d.tops = e.tops
          /\ d.mem = IF d.said < 100 /\ e.mem > 0 THEN e.mem ELSE d.said

(* Every listed device was completed, but for NVIDIA's on Windows and, on  *)
(* macOS, those that another one follows.                                  *)
DevicesFit ==
    /\ \A j \in DOMAIN gpus :
          \/ Completed(loadGPUSpecs, gpus[j])
          \/ Raw(gpus[j]) /\ host.os = "windows" /\ gpus[j].vendor = "nvidia"
          \/ Raw(gpus[j]) /\ host.os = "darwin" /\ (j < Len(gpus) \/ HasDeviceIds \/ current # None)
    /\ current # None => Raw(current) /\ (current.name = None => HasDeviceIds)

(* The lines of a tool that begin a device about a card. *)
Makes(t) == IF t = "nvidia-smi" THEN {"csv"} ELSE IF t = "rocm-smi" THEN {"series", "model"}
            ELSE IF t = "system_profiler" THEN {"chipset", "device"} ELSE {"controller"}

Starts(h, t, k) == {j \in DOMAIN Kinds(h, t, k) : Kinds(h, t, k)[j] \in Makes(t)}

(* The cards about which only one device is listed (CardsOnce). *)
Single(h, k) ==
    LET c == h.cards[k]
        rocm == c.vendor = "amd" /\ "rocm-smi" \in h.tools
    IN  /\ ~(rocm /\ (h.os = "windows" \/ Len(h.rocm) > 1 \/ c.words \cap {"amd", "radeon"} = {}))
        /\ ~(c.vendor = "nvidia" /\ "nvidia-smi" \in h.tools /\ "nvidia" \notin c.words)
        /\ ~(h.os = "darwin" /\ \E i \in DOMAIN h.section : h.section[i] = "device")

(* The lines that the last tool passes over. *)
PassedOver(t, words, amd) ==
    \/ t \in {"lspci", "powershell"} /\ "nvidia" \in words
    \/ t = "lspci" /\ words \cap {"amd", "radeon"} # {} /\ amd

Listed == {gpus[j].card : j \in DOMAIN gpus}
Begun == IF current = None THEN {} ELSE {current.card}
AmdListed == \E j \in DOMAIN gpus : gpus[j].vendor = "amd"
AmdBegun == current # None /\ current.vendor = "amd"

(* The tools from st on, of which the lines ls are left to read, have      *)
(* nothing more to say about a card but what is passed over.               *)
Over(h, tools, k, amd, st, ls) ==
    \A s \in DOMAIN tools :
        tools[s] \in h.tools /\ s >= st
        => \A j \in Starts(h, tools[s], k) :
              (s = st /\ ls # NotRun => [card |-> k, pos |-> j] \in ls)
                 => PassedOver(tools[s], h.cards[k].words, amd)

(* A card that has its device gets no second one: the lines about it that  *)
(* are still to come are passed over.                                      *)
Distinct == \A i, j \in DOMAIN gpus : gpus[i].card = gpus[j].card /\ Single(host, gpus[i].card) => i = j

OneDevice ==
    /\ Distinct
    /\ \A k \in Begun : Single(host, k) => k \notin Listed
    /\ \A k \in Listed \cup Begun : Single(host, k) => Over(host, Tools, k, AmdListed \/ AmdBegun, stage, lines)

(* The lines that name a card. *)
Names(t) == IF t = "nvidia-smi" THEN {"csv"} ELSE IF t = "rocm-smi" THEN {"series", "model"}
            ELSE IF t = "system_profiler" THEN {"chipset"} ELSE {"controller"}

Named == IF current = None \/ current.name = None THEN {} ELSE {current.card}

(* The lines that named a card, of the tools up to st but for the lines ls *)
(* that are left to read, got it a device unless they were passed over.    *)
Told(h, tools, k, got, amd, st, ls) ==
    \A s \in DOMAIN tools :
        tools[s] \in h.tools /\ s <= st
        => \A j \in DOMAIN Kinds(h, tools[s], k) :
              /\ Kinds(h, tools[s], k)[j] \in Names(tools[s])
              /\ s = st => ls # NotRun /\ [card |-> k, pos |-> j] \notin ls
              => k \in got \/ PassedOver(tools[s], h.cards[k].words, amd)

NoneMissing == \A k \in DOMAIN host.cards : Told(host, Tools, k, Listed \cup Named, AmdListed, stage, lines)

ProbeInv == ProbeTypes /\ Stages /\ DevicesFit /\ OneDevice /\ NoneMissing

-----------------------------------------------------------------------------
(* The tools of each operating system, and the one that is being read. *)
LEMMA ToolsOf ==
    /\ host.os = "linux" => Tools = <<"nvidia-smi", "rocm-smi", "lspci">>
    /\ host.os = "windows" => Tools = <<"nvidia-smi", "rocm-smi", "powershell">>
    /\ host.os = "darwin" => Tools = <<"system_profiler">>
    /\ host.os \notin {"linux", "windows", "darwin"} => Tools = <<>>
  BY DEF Tools

(* The tool that is being read, by its place in that list. *)
LEMMA ToolOf ==
    ASSUME stage \in DOMAIN Tools
    PROVE  /\ host.os = "linux" => stage \in 1..3 /\ Tool = (IF stage = 1 THEN "nvidia-smi" ELSE IF stage = 2 THEN "rocm-smi" ELSE "lspci")
           /\ host.os = "windows" => stage \in 1..3 /\ Tool = (IF stage = 1 THEN "nvidia-smi" ELSE IF stage = 2 THEN "rocm-smi" ELSE "powershell")
           /\ host.os = "darwin" => stage = 1 /\ Tool = "system_profiler"
           /\ host.os \in {"linux", "windows", "darwin"}
  BY ToolsOf DEF Tool

(* The lines a tool prints about a card. *)
LEMMA KindsOf ==
    ASSUME NEW h, NEW k
    PROVE  /\ Kinds(h, "nvidia-smi", k) = IF h.cards[k].vendor = "nvidia" THEN <<"csv">> ELSE <<>>
           /\ Kinds(h, "rocm-smi", k) = IF h.cards[k].vendor = "amd" THEN h.rocm ELSE <<>>
           /\ Kinds(h, "system_profiler", k) = h.section
           /\ Kinds(h, "lspci", k) = <<"junk", "controller">>
           /\ Kinds(h, "powershell", k) = <<"junk", "controller">>
  BY DEF Kinds

(* Lines have places, and nothing else has. *)
LEMMA NotNone == ASSUME NEW ls \in SUBSET Places PROVE ls # NotRun
  BY ProbeConstants DEF NotRun

(* What is left of a tool's output are places of lines. *)
LEMMA PlacesOf ==
    ASSUME ProbeTypes
    PROVE  /\ host.cards \in Seq(Cards)
           /\ lines # NotRun => lines \subseteq Places
<1>1. host.cards \in Seq(Cards) /\ host.rocm \in Seq(STRING) /\ host.section \in Seq(STRING)
  BY ProbeConstants DEF ProbeTypes
<1>2. ASSUME lines # NotRun PROVE Output(host, Tool) \subseteq Places
  <2>1. ASSUME NEW k \in DOMAIN host.cards PROVE k \in Nat /\ DOMAIN Kinds(host, Tool, k) \subseteq Nat
    <3>1. Tool \in {"nvidia-smi", "rocm-smi", "lspci", "powershell", "system_profiler"}
      BY <1>2, ToolOf DEF ProbeTypes
    <3>2. DOMAIN host.rocm \subseteq Nat /\ DOMAIN host.section \subseteq Nat /\ k \in Nat
      BY <1>1
    <3>3. DOMAIN <<>> \subseteq Nat /\ DOMAIN <<"csv">> \subseteq Nat /\ DOMAIN <<"junk", "controller">> \subseteq Nat
      OBVIOUS
    <3>4. Kinds(host, Tool, k) \in {<<>>, <<"csv">>, <<"junk", "controller">>, host.rocm, host.section}
      BY <3>1, KindsOf
    <3> QED
      BY <3>2, <3>3, <3>4
  <2> QED
    BY <2>1 DEF Output, Places
<1> QED
  BY <1>1, <1>2 DEF ProbeTypes

(* The next line is one of the tool's, about a card of the host. *)
LEMMA LineOf ==
    ASSUME ProbeTypes, NEW l \in Line
    PROVE  /\ lines # NotRun /\ l \in lines /\ stage \in DOMAIN Tools
           /\ l \in Output(host, Tool)
           /\ l = [card |-> l.card, pos |-> l.pos]
           /\ l.card \in DOMAIN host.cards /\ l.card \in Nat
           /\ host.cards[l.card] \in Cards
           /\ l.pos \in DOMAIN Kinds(host, Tool, l.card)
<1>1. lines # NotRun /\ l \in lines
  BY DEF Line
<1>2. stage \in DOMAIN Tools /\ l \in Output(host, Tool)
  BY <1>1 DEF ProbeTypes
<1>3. PICK k \in DOMAIN host.cards : l \in [card : {k}, pos : DOMAIN Kinds(host, Tool, k)]
  BY <1>2 DEF Output
<1>4. host.cards \in Seq(Cards)
  BY ProbeConstants DEF ProbeTypes
<1> QED
  BY <1>1, <1>2, <1>3, <1>4

(* What the table is asked for: entries, or nothing. *)
LEMMA LookupNone ==
    ASSUME NEW table \in SUBSET Specs, NEW vendor, NEW name, NEW words
    PROVE  LET known == lookupGPUSpec(table, vendor, name, words)
           IN  known = {None} \/ (known \subseteq Specs /\ None \notin known)
<1> None \notin Specs
  BY ProbeConstants
<1> QED
  BY DEF lookupGPUSpec

(* A device that is completed is still the same one. *)
LEMMA Enhanced ==
    ASSUME NEW d \in Devices, Raw(d), NEW e \in enhanceGPUWithSpecs(d)
    PROVE  /\ e \in Devices /\ Completed(loadGPUSpecs, e)
           /\ e.card = d.card /\ e.vendor = d.vendor
<1> DEFINE known == lookupGPUSpec(loadGPUSpecs, d.vendor, d.name, d.words)
<1>1. loadGPUSpecs \in SUBSET Specs
  BY DEF loadGPUSpecs
<1>2. known = {None} \/ (known \subseteq Specs /\ None \notin known)
  BY <1>1, LookupNone
<1>3. PICK s \in known : e = Fill(d, s)
  BY DEF enhanceGPUWithSpecs
<1> HIDE DEF known
<1>4. CASE s = None
  <2>1. e = d /\ known = {None}
    BY <1>2, <1>3, <1>4 DEF Fill
  <2> QED
    BY <2>1 DEF Completed, known
<1>5. CASE s # None
  <2>1. s \in Specs /\ s \in known \ {None}
    BY <1>2, <1>5
  <2>2. s.units \in Nat /\ s.tops \in Nat /\ s.mem \in Nat
    BY <2>1, ProbeConstants
  <2>3. /\ d.units = 0 /\ d.tops = 0 /\ d.mem = d.said
        /\ d.mem \in Nat /\ d.said \in Nat
    BY DEF Raw, Devices
  <2>4. e = [d EXCEPT !.units = s.units, !.tops = s.tops,
                      !.mem = IF d.said < 100 /\ s.mem > 0 THEN s.mem ELSE d.said]
    BY <1>3, <1>5, <2>2, <2>3 DEF Fill, Devices
  <2>5. /\ e \in Devices
        /\ e.card = d.card /\ e.vendor = d.vendor /\ e.name = d.name /\ e.words = d.words /\ e.said = d.said
        /\ e.units = s.units /\ e.tops = s.tops
        /\ e.mem = IF d.said < 100 /\ s.mem > 0 THEN s.mem ELSE d.said
    BY <2>2, <2>3, <2>4 DEF Devices
  <2> QED
    BY <2>1, <2>5 DEF Completed, known
<1> QED
  BY <1>4, <1>5

-----------------------------------------------------------------------------
(* What reading a line does.                                               *)
ReadLine(l) ==
    /\ lines' = lines \ {l} /\ host' = host /\ stage' = stage /\ done' = done
    /\ inDisplaySection' \in BOOLEAN
    /\ inDisplaySection' => host.os = "darwin" /\ current' # None

(* A line that lists nothing; it may complete the device of macOS. *)
PassLine(l) ==
    /\ gpus' = gpus
    /\ Kind(l) \notin Makes(Tool) \/ PassedOver(Tool, host.cards[l.card].words, AmdListed)
    /\ \/ current' = current
       \/ /\ current # None /\ current' \in Devices /\ Raw(current')
          /\ Tool = "system_profiler"
          /\ current'.card = current.card
          /\ current'.name = None => current.name = None

(* A line that lists a device at once. *)
ListLine(l, e) ==
    /\ gpus' = Append(gpus, e)
    /\ e \in Devices /\ e.card = l.card
    /\ \/ Completed(loadGPUSpecs, e)
       \/ Raw(e) /\ host.os = "windows" /\ e.vendor = "nvidia"
    /\ current = None /\ current' = None
    /\ Tool # "rocm-smi" /\ Kind(l) \in Makes(Tool) /\ ~PassedOver(Tool, host.cards[l.card].words, AmdListed)

(* The device that was begun is listed. *)
Flushed(e) ==
    /\ gpus' = Append(gpus, e)
    /\ e \in Devices /\ e.card = current.card /\ e.vendor = current.vendor
    /\ Completed(loadGPUSpecs, e) \/ (host.os = "darwin" /\ Raw(e))

(* A line that begins a device. *)
BeginLine(l) ==
    /\ current' \in Devices /\ Raw(current') /\ current'.card = l.card
    /\ Tool \in {"rocm-smi", "system_profiler"} /\ Kind(l) \in Makes(Tool)
    /\ Kind(l) \in Names(Tool) => current'.name # None
    /\ current'.name = None => HasDeviceIds
    /\ Tool = "rocm-smi" => current'.vendor = "amd"
    /\ IF current = None THEN gpus' = gpus ELSE \E e : Flushed(e)

(* What a card is called, and what its tool says of it. *)
LEMMA DeviceOf ==
    ASSUME ProbeTypes, NEW k \in Nat, host.cards[k] \in Cards, NEW type \in {"gpu", "igpu"},
           NEW vendor \in Vendors, NEW mem \in Nat
    PROVE  LET d == Device(k, type, vendor, mem)
           IN  d \in Devices /\ Raw(d) /\ d.card = k /\ d.vendor = vendor /\ d.name = host.cards[k].name
                 /\ d.name # None
<1> host.cards[k].name # None
  BY ProbeConstants
<1> QED
  BY DEF Device, Devices, Raw

(* nvidia-smi. *)
LEMMA NvidiaLine ==
    ASSUME ProbeTypes, Stages, NEW l \in Line, detectNVIDIALinux(l) \/ detectNVIDIAWindows(l)
    PROVE  ReadLine(l) /\ \E e : ListLine(l, e)
<1> DEFINE d == Device(l.card, "gpu", "nvidia", host.cards[l.card].mem)
<1>1. Tool = "nvidia-smi"
  BY DEF detectNVIDIALinux, detectNVIDIAWindows, Read
<1>2. /\ lines # NotRun /\ l.card \in Nat /\ host.cards[l.card] \in Cards
      /\ l.pos \in DOMAIN Kinds(host, Tool, l.card) /\ stage \in DOMAIN Tools
  BY LineOf
<1>3. /\ d \in Devices /\ Raw(d) /\ d.card = l.card /\ d.vendor = "nvidia"
  <2>1. host.cards[l.card].mem \in Nat /\ "nvidia" \in Vendors
    BY <1>2, ProbeConstants DEF Vendors
  <2> QED
    BY <1>2, <2>1, DeviceOf
<1> HIDE DEF d
<1>4. current = None /\ ~inDisplaySection /\ current' = current /\ inDisplaySection' = inDisplaySection
  BY <1>1, <1>2, ToolOf DEF Stages, detectNVIDIALinux, detectNVIDIAWindows
<1>5. ReadLine(l)
  <2>1. ~inDisplaySection' /\ inDisplaySection' \in BOOLEAN
    BY <1>4, Zenon DEF ProbeTypes
  <2>2. lines' = lines \ {l} /\ host' = host /\ stage' = stage /\ done' = done
    BY DEF detectNVIDIALinux, detectNVIDIAWindows, Read
  <2> QED
    BY <2>1, <2>2, Zenon DEF ReadLine
<1>6. Kind(l) \in Makes(Tool) /\ ~PassedOver(Tool, host.cards[l.card].words, AmdListed)
  <2>1. Kinds(host, Tool, l.card) = IF host.cards[l.card].vendor = "nvidia" THEN <<"csv">> ELSE <<>>
    BY <1>1, KindsOf
  <2> QED
    BY <1>1, <1>2, <2>1 DEF Kind, Makes, PassedOver
<1>7. CASE detectNVIDIALinux(l)
  <2>1. PICK e \in enhanceGPUWithSpecs(d) : gpus' = Append(gpus, e)
    BY <1>7 DEF detectNVIDIALinux, Found, d
  <2>2. e \in Devices /\ Completed(loadGPUSpecs, e) /\ e.card = d.card
    BY <1>3, Enhanced
  <2> QED
    BY <1>1, <1>3, <1>4, <1>5, <1>6, <2>1, <2>2 DEF ListLine
<1>8. CASE detectNVIDIAWindows(l)
  <2>1. gpus' = Append(gpus, d) /\ host.os = "windows"
    BY <1>8 DEF detectNVIDIAWindows, Found, d
  <2> QED
    BY <1>1, <1>3, <1>4, <1>5, <1>6, <2>1 DEF ListLine
<1> QED
  BY <1>7, <1>8

(* rocm-smi. *)
LEMMA AmdLine ==
    ASSUME ProbeTypes, Stages, DevicesFit, NEW l \in Line, detectAMDLinux(l) \/ detectAMDWindows(l)
    PROVE  ReadLine(l) /\ (PassLine(l) \/ BeginLine(l))
<1>1. RocmLine(l) /\ Tool = "rocm-smi" /\ host.os # "darwin"
  BY DEF detectAMDLinux, detectAMDWindows, RocmLine, Read
<1>2. /\ lines # NotRun /\ l.card \in Nat /\ host.cards[l.card] \in Cards
      /\ l.pos \in DOMAIN Kinds(host, Tool, l.card) /\ stage \in DOMAIN Tools
  BY LineOf
<1>3. ~inDisplaySection /\ inDisplaySection' = inDisplaySection
  BY <1>1 DEF Stages, RocmLine
<1>4. ReadLine(l)
  <2>1. ~inDisplaySection' /\ inDisplaySection' \in BOOLEAN
    BY <1>3, Zenon DEF ProbeTypes
  <2>2. lines' = lines \ {l} /\ host' = host /\ stage' = stage /\ done' = done
    BY <1>1 DEF RocmLine, Read
  <2> QED
    BY <2>1, <2>2, Zenon DEF ReadLine
<1>5. Makes(Tool) = {"series", "model"} /\ Names(Tool) = {"series", "model"}
  BY <1>1 DEF Makes, Names
<1>6. CASE Kind(l) \in {"series", "model"}
  <2>1. gpus' \in Flush(gpus, current) /\ current' = Device(l.card, "gpu", "amd", 0)
    BY <1>1, <1>6 DEF RocmLine
  <2>2. /\ current' \in Devices /\ Raw(current') /\ current'.card = l.card
        /\ current'.vendor = "amd" /\ current'.name # None
    <3>1. "amd" \in Vendors /\ "gpu" \in {"gpu", "igpu"} /\ 0 \in Nat
      BY DEF Vendors
    <3> QED
      BY <1>2, <2>1, <3>1, DeviceOf
  <2>3. CASE current = None
    <3>1. gpus' = gpus
      BY <2>1, <2>3 DEF Flush
    <3> QED
      BY <1>1, <1>4, <1>5, <1>6, <2>2, <2>3, <3>1 DEF BeginLine
  <2>4. CASE current # None
    <3>1. PICK e \in enhanceGPUWithSpecs(current) : gpus' = Append(gpus, e)
      BY <2>1, <2>4 DEF Flush
    <3>2. current \in Devices /\ Raw(current)
      BY <2>4 DEF ProbeTypes, DevicesFit
    <3>3. e \in Devices /\ Completed(loadGPUSpecs, e) /\ e.card = current.card /\ e.vendor = current.vendor
      BY <3>2, Enhanced
    <3>4. Flushed(e)
      BY <3>1, <3>3 DEF Flushed
    <3> QED
      BY <1>1, <1>4, <1>5, <1>6, <2>2, <2>4, <3>4 DEF BeginLine
  <2> QED
    BY <2>3, <2>4
<1>7. CASE Kind(l) \notin {"series", "model"}
  BY <1>1, <1>4, <1>5, <1>7 DEF RocmLine, PassLine
<1> QED
  BY <1>6, <1>7

(* lspci and the table of Windows. *)
LEMMA OtherLine ==
    ASSUME ProbeTypes, Stages, NEW l \in Line, detectOtherGPUsLinux(l) \/ detectOtherGPUsWindows(l)
    PROVE  ReadLine(l) /\ (PassLine(l) \/ \E e : ListLine(l, e))
<1> DEFINE words == host.cards[l.card].words
           d == Device(l.card, IF isIntegratedGPU(words) THEN "igpu" ELSE "gpu",
                       detectVendorFromName(words), IF Tool = "lspci" THEN 0 ELSE host.cards[l.card].mem)
<1>1. Tool \in {"lspci", "powershell"}
  BY DEF detectOtherGPUsLinux, detectOtherGPUsWindows, Read
<1>2. /\ lines # NotRun /\ l.card \in Nat /\ host.cards[l.card] \in Cards
      /\ l.pos \in DOMAIN Kinds(host, Tool, l.card) /\ stage \in DOMAIN Tools
  BY LineOf
<1>3. /\ d \in Devices /\ Raw(d) /\ d.card = l.card
  <2>1. host.cards[l.card].mem \in Nat
    BY <1>2, ProbeConstants
  <2>2. detectVendorFromName(words) \in Vendors
    BY DEF detectVendorFromName, Vendors
  <2>3. (IF Tool = "lspci" THEN 0 ELSE host.cards[l.card].mem) \in Nat
    BY <2>1
  <2>4. (IF isIntegratedGPU(words) THEN "igpu" ELSE "gpu") \in {"gpu", "igpu"}
    OBVIOUS
  <2> QED
    BY <1>2, <2>2, <2>3, <2>4, DeviceOf
<1>4. current = None /\ ~inDisplaySection /\ current' = current /\ inDisplaySection' = inDisplaySection
  BY <1>1, <1>2, ToolOf DEF Stages, detectOtherGPUsLinux, detectOtherGPUsWindows
<1>5. ReadLine(l)
  <2>1. ~inDisplaySection' /\ inDisplaySection' \in BOOLEAN
    BY <1>4, Zenon DEF ProbeTypes
  <2>2. lines' = lines \ {l} /\ host' = host /\ stage' = stage /\ done' = done
    BY DEF detectOtherGPUsLinux, detectOtherGPUsWindows, Read
  <2> QED
    BY <2>1, <2>2, Zenon DEF ReadLine
<1>6. Kind(l) \in {"junk", "controller"} /\ Makes(Tool) = {"controller"}
  <2>1. Kinds(host, Tool, l.card) = <<"junk", "controller">>
    BY <1>1, KindsOf
  <2> QED
    BY <1>1, <1>2, <2>1 DEF Kind, Makes
<1>7. Controller(l.card) = enhanceGPUWithSpecs(d)
  BY DEF Controller
<1> HIDE DEF d
<1>8. \/ gpus' = gpus /\ (Kind(l) = "junk" \/ PassedOver(Tool, words, AmdListed))
      \/ Kind(l) = "controller" /\ ~PassedOver(Tool, words, AmdListed) /\ Found(Controller(l.card))
  <2>1. CASE detectOtherGPUsLinux(l)
    <3>1. Tool = "lspci"
      BY <2>1 DEF detectOtherGPUsLinux, Read
    <3>2. Skipped(words) <=> PassedOver(Tool, words, AmdListed)
      BY <3>1 DEF Skipped, PassedOver, AmdListed
    <3> QED
      BY <1>6, <2>1, <3>2 DEF detectOtherGPUsLinux
  <2>2. CASE detectOtherGPUsWindows(l)
    <3>1. Tool = "powershell"
      BY <2>2 DEF detectOtherGPUsWindows, Read
    <3>2. "nvidia" \in words <=> PassedOver(Tool, words, AmdListed)
      BY <3>1 DEF PassedOver
    <3> QED
      BY <1>6, <2>2, <3>2 DEF detectOtherGPUsWindows
  <2> QED
    BY <2>1, <2>2
<1>9. CASE gpus' = gpus /\ (Kind(l) = "junk" \/ PassedOver(Tool, words, AmdListed))
  BY <1>4, <1>5, <1>6, <1>9 DEF PassLine
<1>10. CASE Kind(l) = "controller" /\ ~PassedOver(Tool, words, AmdListed) /\ Found(Controller(l.card))
  <2>1. PICK e \in enhanceGPUWithSpecs(d) : gpus' = Append(gpus, e)
    BY <1>7, <1>10 DEF Found
  <2>2. e \in Devices /\ Completed(loadGPUSpecs, e) /\ e.card = d.card
    BY <1>3, Enhanced
  <2> QED
    BY <1>1, <1>3, <1>4, <1>5, <1>6, <1>10, <2>1, <2>2 DEF ListLine
<1> QED
  BY <1>8, <1>9, <1>10

(* What another line of a section says of a device. *)
LEMMA PropertyOf ==
    ASSUME NEW d \in Devices, Raw(d), NEW kind, NEW c \in Cards
    PROVE  LET e == Property(d, kind, c)
           IN  e \in Devices /\ Raw(e) /\ e.card = d.card /\ (e.name = None => d.name = None)
<1> AppleGPU # None /\ c.mem \in Nat
  BY ProbeConstants
<1>1. CASE kind = "vram"
  BY <1>1 DEF Property, Devices, Raw
<1>2. CASE kind = "vendor"
  <2>1. Property(d, kind, c) = [d EXCEPT !.vendor = IF d.vendor = None THEN "printed" ELSE d.vendor]
    BY <1>2 DEF Property, Devices
  <2> QED
    BY <2>1 DEF Devices, Raw, Vendors
<1>3. CASE kind = "metal" /\ c.vendor = "apple"
  <2>1. Property(d, kind, c) = [d EXCEPT !.vendor = "apple", !.name = IF d.name = None THEN AppleGPU ELSE d.name]
    BY <1>3 DEF Property, Devices
  <2> QED
    BY <2>1 DEF Devices, Raw, Vendors
<1>4. CASE kind \notin {"vram", "vendor"} /\ ~(kind = "metal" /\ c.vendor = "apple")
  <2>1. Property(d, kind, c) = d
    BY <1>4 DEF Property
  <2> QED
    BY <2>1
<1> QED
  BY <1>1, <1>2, <1>3, <1>4

(* system_profiler. *)
LEMMA DarwinLine ==
    ASSUME ProbeTypes, Stages, DevicesFit, NEW l \in Line, getGPUInfoDarwin(l)
    PROVE  ReadLine(l) /\ (PassLine(l) \/ BeginLine(l))
<1> DEFINE c == host.cards[l.card]
           named == Device(l.card, "gpu", detectVendorFromName(c.words), 0)
           unnamed == [Device(l.card, "gpu", None, 0) EXCEPT !.name = None, !.words = {}]
<1>1. Tool = "system_profiler"
  BY DEF getGPUInfoDarwin, Read
<1>2. /\ lines # NotRun /\ l.card \in Nat /\ host.cards[l.card] \in Cards
      /\ l.pos \in DOMAIN Kinds(host, Tool, l.card) /\ stage \in DOMAIN Tools
  BY LineOf
<1>3. host.os = "darwin"
  BY <1>1, <1>2, ToolOf
<1>4. lines' = lines \ {l} /\ host' = host /\ stage' = stage /\ done' = done
  BY DEF getGPUInfoDarwin, Read
<1>5. Makes(Tool) = {"chipset", "device"} /\ Names(Tool) = {"chipset"}
  BY <1>1 DEF Makes, Names
<1>6. inDisplaySection => current # None
  BY <1>2 DEF Stages
<1>7. current # None => current \in Devices /\ Raw(current)
  BY DEF ProbeTypes, DevicesFit
<1>8. inDisplaySection' \in BOOLEAN
  BY Zenon DEF getGPUInfoDarwin
<1>9. None \notin Devices
  BY ProbeConstants
<1>10. CASE Kind(l) \in {"chipset", "device"}
  <2>1. named \in Devices /\ Raw(named) /\ named.card = l.card /\ named.name # None
    <3>1. detectVendorFromName(c.words) \in Vendors
      BY DEF detectVendorFromName, Vendors
    <3> QED
      BY <1>2, <3>1, DeviceOf
  <2>2. unnamed \in Devices /\ Raw(unnamed) /\ unnamed.card = l.card
    BY <1>2 DEF Device, Devices, Raw, Vendors
  <2>3. /\ Kind(l) = "chipset" => current' = named
        /\ Kind(l) = "device" => current' = unnamed
    BY DEF getGPUInfoDarwin
  <2> HIDE DEF named, unnamed
  <2>4. /\ current' \in Devices /\ Raw(current') /\ current'.card = l.card
        /\ Kind(l) = "chipset" => current'.name # None
    BY <1>10, <2>1, <2>2, <2>3
  <2>5. Kind(l) = "device" => HasDeviceIds
    BY <1>1, <1>2, KindsOf DEF Kind, HasDeviceIds
  <2>6. IF current = None THEN gpus' = gpus ELSE gpus' = Append(gpus, current)
    BY <1>10 DEF getGPUInfoDarwin
  <2>7. current # None => Flushed(current)
    BY <1>3, <1>7, <2>6 DEF Flushed
  <2>8. IF current = None THEN gpus' = gpus ELSE \E e : Flushed(e)
    BY <2>6, <2>7
  <2>9. BeginLine(l)
    BY <1>1, <1>5, <1>10, <2>4, <2>5, <2>8 DEF BeginLine
  <2>10. ReadLine(l)
    BY <1>3, <1>4, <1>8, <1>9, <2>4 DEF ReadLine
  <2> QED
    BY <2>9, <2>10
<1>11. CASE Kind(l) \notin {"chipset", "device"}
  <2>1. gpus' = gpus
    BY <1>11 DEF getGPUInfoDarwin
  <2>2. current' = IF inDisplaySection THEN Property(current, Kind(l), c) ELSE current
    BY <1>11 DEF getGPUInfoDarwin
  <2>3. inDisplaySection' => inDisplaySection
    BY <1>11, Zenon DEF getGPUInfoDarwin
  <2>4. CASE inDisplaySection
    <3>1. /\ current # None /\ current' \in Devices /\ Raw(current')
          /\ current'.card = current.card /\ (current'.name = None => current.name = None)
      BY <1>2, <1>6, <1>7, <2>2, <2>4, PropertyOf
    <3>2. PassLine(l)
      BY <1>1, <1>5, <1>11, <2>1, <3>1 DEF PassLine
    <3>3. current' # None
      BY <1>9, <3>1
    <3>4. ReadLine(l)
      BY <1>3, <1>4, <1>8, <3>3 DEF ReadLine
    <3> QED
      BY <3>2, <3>4
  <2>5. CASE ~inDisplaySection
    <3>1. current' = current
      BY <2>2, <2>5
    <3>2. PassLine(l)
      BY <1>5, <1>11, <2>1, <3>1 DEF PassLine
    <3>3. ReadLine(l)
      BY <1>4, <1>8, <2>3, <2>5 DEF ReadLine
    <3> QED
      BY <3>2, <3>3
  <2> QED
    BY <2>4, <2>5
<1> QED
  BY <1>10, <1>11

(* Every line does one of the three. *)
LEMMA LineStep ==
    ASSUME ProbeTypes, Stages, DevicesFit, NEW l \in Line,
           \/ detectNVIDIALinux(l) \/ detectAMDLinux(l) \/ detectOtherGPUsLinux(l)
           \/ detectNVIDIAWindows(l) \/ detectAMDWindows(l) \/ detectOtherGPUsWindows(l)
           \/ getGPUInfoDarwin(l)
    PROVE  ReadLine(l) /\ (PassLine(l) \/ (\E e : ListLine(l, e)) \/ BeginLine(l))
<1>1. CASE detectNVIDIALinux(l) \/ detectNVIDIAWindows(l)
  BY <1>1, NvidiaLine
<1>2. CASE detectAMDLinux(l) \/ detectAMDWindows(l)
  BY <1>2, AmdLine
<1>3. CASE detectOtherGPUsLinux(l) \/ detectOtherGPUsWindows(l)
  BY <1>3, OtherLine
<1>4. CASE getGPUInfoDarwin(l)
  BY <1>4, DarwinLine
<1> QED
  BY <1>1, <1>2, <1>3, <1>4

(* The end of a tool's output lists the device that was begun, if it has   *)
(* a name.                                                                 *)
LastLine ==
    /\ lines = {} /\ lines' = NotRun /\ current' = None /\ stage' = stage + 1
    /\ host' = host /\ done' = done /\ inDisplaySection' = inDisplaySection
    /\ IF current = None \/ (current # None /\ current.name = None /\ Tool = "system_profiler") THEN gpus' = gpus
       ELSE \E e : Flushed(e) /\ Completed(loadGPUSpecs, e)

(* The end of a tool's output does just that. *)
LEMMA EndStep ==
    ASSUME ProbeTypes, DevicesFit, EndOfOutput
    PROVE  LastLine
<1> DEFINE unnamed == Tool = "system_profiler" /\ current # None /\ current.name = None
<1>1. gpus' \in IF unnamed THEN {gpus} ELSE Flush(gpus, current)
  BY DEF EndOfOutput
<1>2. CASE current = None \/ unnamed
  BY <1>1, <1>2 DEF Flush, EndOfOutput, LastLine
<1>3. CASE current # None /\ ~unnamed
  <2>1. PICK e \in enhanceGPUWithSpecs(current) : gpus' = Append(gpus, e)
    BY <1>1, <1>3 DEF Flush
  <2>2. current \in Devices /\ Raw(current)
    BY <1>3 DEF ProbeTypes, DevicesFit
  <2>3. e \in Devices /\ Completed(loadGPUSpecs, e) /\ e.card = current.card /\ e.vendor = current.vendor
    BY <2>2, Enhanced
  <2>4. Flushed(e) /\ Completed(loadGPUSpecs, e)
    BY <2>1, <2>3 DEF Flushed
  <2> QED
    BY <1>3, <2>4 DEF EndOfOutput, LastLine
<1> QED
  BY <1>2, <1>3

-----------------------------------------------------------------------------
(* The host, and with it the list of tools and the table, stay. *)
LEMMA Unmoved ==
    ASSUME host' = host
    PROVE  /\ Tools' = Tools /\ loadGPUSpecs' = loadGPUSpecs /\ (HasDeviceIds' <=> HasDeviceIds)
           /\ stage' = stage => Tool' = Tool
  BY DEF Tools, Tool, loadGPUSpecs, HasDeviceIds

(* A device is added to the list. *)
LEMMA Appended ==
    ASSUME gpus \in Seq(Devices), NEW e \in Devices, gpus' = Append(gpus, e)
    PROVE  /\ gpus' \in Seq(Devices) /\ Len(gpus) \in Nat
           /\ DOMAIN gpus = 1..Len(gpus) /\ DOMAIN gpus' = 1..(Len(gpus) + 1) /\ Len(gpus') = Len(gpus) + 1
           /\ \A j \in 1..Len(gpus) : gpus'[j] = gpus[j]
           /\ gpus'[Len(gpus) + 1] = e
           /\ Listed' = Listed \cup {e.card}
           /\ AmdListed' <=> AmdListed \/ e.vendor = "amd"
<1>1. /\ gpus' \in Seq(Devices) /\ Len(gpus) \in Nat
      /\ DOMAIN gpus = 1..Len(gpus) /\ DOMAIN gpus' = 1..(Len(gpus) + 1) /\ Len(gpus') = Len(gpus) + 1
      /\ \A j \in 1..Len(gpus) : gpus'[j] = gpus[j]
      /\ gpus'[Len(gpus) + 1] = e
  OBVIOUS
<1>2. DOMAIN gpus' = DOMAIN gpus \cup {Len(gpus) + 1}
  BY <1>1
<1>3. Listed' = Listed \cup {e.card}
  BY <1>1, <1>2 DEF Listed
<1>4. AmdListed' <=> AmdListed \/ e.vendor = "amd"
  BY <1>1, <1>2 DEF AmdListed
<1> QED
  BY <1>1, <1>3, <1>4

(* The list stays as it is. *)
LEMMA Unlisted ==
    ASSUME gpus' = gpus
    PROVE  Listed' = Listed /\ (AmdListed' <=> AmdListed)
  BY DEF Listed, AmdListed

(* At the end the chip of an Apple processor may be the only device. *)
LEMMA FinishStep ==
    ASSUME ProbeTypes, Stages, Finish
    PROVE  /\ host' = host /\ stage' = stage /\ lines' = lines /\ current' = current
           /\ inDisplaySection' = inDisplaySection /\ done' = TRUE
           /\ stage > Len(Tools) /\ lines = NotRun /\ current = None
           /\ \/ gpus' = gpus
              \/ gpus = <<>> /\ \E e \in Devices : gpus' = Append(gpus, e) /\ Completed(loadGPUSpecs, e)
<1> DEFINE d == [Device(1, "igpu", "apple", 0) EXCEPT !.name = AppleGPU, !.words = {}]
<1>1. d \in Devices /\ Raw(d)
  BY DEF Device, Devices, Raw, Vendors
<1>2. /\ ~AppleChip => gpus' = gpus
      /\ AppleChip => gpus = <<>> /\ \E e \in enhanceGPUWithSpecs(d) : gpus' = <<e>>
  BY DEF Finish, AppleChip
<1> HIDE DEF d
<1>3. ASSUME AppleChip
      PROVE  gpus = <<>> /\ \E e \in Devices : gpus' = Append(gpus, e) /\ Completed(loadGPUSpecs, e)
  <2>1. PICK e \in enhanceGPUWithSpecs(d) : gpus' = <<e>>
    BY <1>2, <1>3
  <2>2. e \in Devices /\ Completed(loadGPUSpecs, e)
    BY <1>1, Enhanced
  <2>3. gpus = <<>>
    BY <1>2, <1>3
  <2>4. gpus' = Append(gpus, e)
    BY <2>1, <2>3
  <2> QED
    BY <2>2, <2>3, <2>4
<1>4. stage > Len(Tools) /\ lines = NotRun
  BY ToolsOf DEF Finish, ProbeTypes
<1>5. current = None
  BY <1>4 DEF Stages
<1>6. /\ host' = host /\ stage' = stage /\ lines' = lines /\ current' = current
      /\ inDisplaySection' = inDisplaySection /\ done' = TRUE
  BY DEF Finish
<1>7. gpus' = gpus \/ (gpus = <<>> /\ \E e \in Devices : gpus' = Append(gpus, e) /\ Completed(loadGPUSpecs, e))
  BY <1>2, <1>3
<1> QED
  BY <1>4, <1>5, <1>6, <1>7

(* The types hold at the start, and every step keeps them. *)
LEMMA TypesInit == ASSUME ProbeInit PROVE ProbeTypes
<1>1. inDisplaySection \in BOOLEAN /\ done \in BOOLEAN
  BY Zenon DEF ProbeInit
<1>2. gpus \in Seq(Devices)
  BY DEF ProbeInit
<1> QED
  BY <1>1, <1>2 DEF ProbeInit, ProbeTypes

(* Where the steps leave the tool and its lines. *)
LEMMA TypesStep ==
    ASSUME ProbeTypes, Stages, DevicesFit, [ProbeNext]_probeVars
    PROVE  ProbeTypes'
<1>1. CASE RunTool
  <2>1. /\ host' = host /\ gpus' = gpus /\ current' = current
        /\ inDisplaySection' = inDisplaySection /\ done' = done
    BY <1>1 DEF RunTool
  <2>2. stage' \in Nat \ {0}
    BY <1>1 DEF RunTool, ProbeTypes
  <2>3. lines' # NotRun => stage' \in DOMAIN Tools /\ lines' \subseteq Output(host, Tool) /\ stage' = stage
    <3>1. DOMAIN Tools = 1..Len(Tools)
      BY ToolsOf
    <3> QED
      BY <1>1, <3>1 DEF RunTool, ProbeTypes
  <2>4. lines' # NotRun => stage' \in DOMAIN Tools' /\ lines' \subseteq Output(host', Tool')
    BY <2>1, <2>3, Unmoved
  <2>5. inDisplaySection' \in BOOLEAN /\ done' \in BOOLEAN
    BY <2>1, Zenon DEF ProbeTypes
  <2> QED
    BY <2>1, <2>2, <2>4, <2>5 DEF ProbeTypes
<1>2. CASE EndOfOutput
  <2>1. LastLine
    BY <1>2, EndStep
  <2>2. gpus' \in Seq(Devices)
    BY <2>1, Appended DEF LastLine, Flushed, ProbeTypes
  <2>3. host' \in Hosts /\ stage' \in Nat \ {0} /\ current' = None /\ lines' = NotRun
    BY <2>1 DEF LastLine, ProbeTypes
  <2>4. inDisplaySection' \in BOOLEAN /\ done' \in BOOLEAN
    BY <2>1, Zenon DEF ProbeTypes, LastLine
  <2> QED
    BY <2>2, <2>3, <2>4 DEF ProbeTypes
<1>3. CASE Finish
  <2>1. /\ host' = host /\ stage' = stage /\ lines' = lines /\ current' = current
        /\ inDisplaySection' = inDisplaySection /\ done' = TRUE
    BY <1>3, FinishStep
  <2>2. gpus' \in Seq(Devices)
    BY <1>3, FinishStep, Appended DEF ProbeTypes
  <2>3. lines' # NotRun => stage' \in DOMAIN Tools' /\ lines' \subseteq Output(host', Tool')
    BY <2>1, Unmoved DEF ProbeTypes
  <2>4. inDisplaySection' \in BOOLEAN /\ done' \in BOOLEAN
    BY <2>1, Zenon DEF ProbeTypes
  <2>5. host' \in Hosts /\ stage' \in Nat \ {0} /\ current' \in Devices \cup {None}
    BY <2>1 DEF ProbeTypes
  <2> QED
    BY <2>2, <2>3, <2>4, <2>5 DEF ProbeTypes
<1>4. ASSUME NEW l \in Line,
             \/ detectNVIDIALinux(l) \/ detectAMDLinux(l) \/ detectOtherGPUsLinux(l)
             \/ detectNVIDIAWindows(l) \/ detectAMDWindows(l) \/ detectOtherGPUsWindows(l)
             \/ getGPUInfoDarwin(l)
      PROVE  ProbeTypes'
  <2>1. ReadLine(l) /\ (PassLine(l) \/ (\E e : ListLine(l, e)) \/ BeginLine(l))
    BY <1>4, LineStep
  <2>2. lines # NotRun
    BY LineOf
  <2>3. host' = host /\ stage' = stage /\ done' = done /\ lines' \subseteq lines
    BY <2>1 DEF ReadLine
  <2>4. stage' \in DOMAIN Tools' /\ lines' \subseteq Output(host', Tool')
    BY <2>2, <2>3, Unmoved DEF ProbeTypes
  <2>5. gpus' \in Seq(Devices) /\ current' \in Devices \cup {None}
    <3>1. CASE PassLine(l)
      BY <3>1 DEF PassLine, ProbeTypes
    <3>2. ASSUME NEW e, ListLine(l, e) PROVE gpus' \in Seq(Devices) /\ current' \in Devices \cup {None}
      BY <3>2, Appended DEF ListLine, ProbeTypes
    <3>3. CASE BeginLine(l)
      BY <3>3, Appended DEF BeginLine, Flushed, ProbeTypes
    <3> QED
      BY <2>1, <3>1, <3>2, <3>3
  <2>6. inDisplaySection' \in BOOLEAN /\ done' \in BOOLEAN
    BY <2>1, <2>3, Zenon DEF ProbeTypes, ReadLine
  <2>7. host' \in Hosts /\ stage' \in Nat \ {0}
    BY <2>3 DEF ProbeTypes
  <2> QED
    BY <2>4, <2>5, <2>6, <2>7 DEF ProbeTypes
<1>5. CASE UNCHANGED probeVars
  <2>1. /\ host' = host /\ stage' = stage /\ lines' = lines /\ current' = current
        /\ inDisplaySection' = inDisplaySection /\ gpus' = gpus /\ done' = done
    BY <1>5 DEF probeVars
  <2>2. inDisplaySection' \in BOOLEAN /\ done' \in BOOLEAN
    BY <2>1, Zenon DEF ProbeTypes
  <2> QED
    BY <2>1, <2>2, Unmoved DEF ProbeTypes
<1> QED
  BY <1>1, <1>2, <1>3, <1>4, <1>5 DEF ProbeNext

(* One tool is read at a time, and a device is put together from its lines. *)
LEMMA StagesStep ==
    ASSUME ProbeTypes, Stages, DevicesFit, [ProbeNext]_probeVars
    PROVE  Stages'
<1>0. None \notin Devices
  BY ProbeConstants
<1>1. CASE RunTool
  <2>1. /\ host' = host /\ gpus' = gpus /\ current' = current /\ stage <= Len(Tools) /\ lines = NotRun
        /\ inDisplaySection' = inDisplaySection /\ done' = done /\ ~done
    BY <1>1 DEF RunTool
  <2>2. ~inDisplaySection
    <3>1. host.os = "darwin" => Len(Tools) = 1
      BY ToolsOf
    <3>2. host.os = "darwin" => ~(stage > 1)
      BY <2>1, <3>1 DEF ProbeTypes
    <3> QED
      BY <2>1, <3>2 DEF Stages
  <2>3. current = None
    BY <2>1 DEF Stages
  <2>4. lines' # NotRun => stage' = stage /\ Tool \in host.tools
    BY <1>1, <2>1 DEF RunTool
  <2>5. lines' # NotRun => Tool' \in host'.tools
    BY <2>1, <2>4, Unmoved
  <2>6. ~done' /\ ~inDisplaySection'
    BY <2>1, <2>2, Zenon
  <2> QED
    BY <2>1, <2>3, <2>5, <2>6 DEF Stages
<1>2. CASE EndOfOutput
  <2>1. LastLine
    BY <1>2, EndStep
  <2>2. lines # NotRun
    BY <2>1, NotNone DEF LastLine
  <2>3. ~done /\ done' = done
    BY <2>1, <2>2 DEF LastLine, Stages
  <2>4. ~done'
    BY <2>3, Zenon
  <2>5. inDisplaySection' => host.os = "darwin"
    BY <2>1 DEF LastLine, Stages
  <2>6. stage' > 1
    BY <2>1 DEF LastLine, ProbeTypes
  <2>7. current' = None /\ lines' = NotRun /\ host' = host
    BY <2>1 DEF LastLine
  <2> QED
    BY <2>4, <2>5, <2>6, <2>7 DEF Stages
<1>3. CASE Finish
  <2>1. /\ host' = host /\ stage' = stage /\ lines' = lines /\ current' = current
        /\ inDisplaySection' = inDisplaySection /\ done' = TRUE
        /\ stage > Len(Tools) /\ lines = NotRun /\ current = None
    BY <1>3, FinishStep
  <2>2. inDisplaySection' => host.os = "darwin" /\ stage > 1
    BY <2>1 DEF Stages
  <2> QED
    BY <2>1, <2>2, Unmoved DEF Stages
<1>4. ASSUME NEW l \in Line,
             \/ detectNVIDIALinux(l) \/ detectAMDLinux(l) \/ detectOtherGPUsLinux(l)
             \/ detectNVIDIAWindows(l) \/ detectAMDWindows(l) \/ detectOtherGPUsWindows(l)
             \/ getGPUInfoDarwin(l)
      PROVE  Stages'
  <2>1. ReadLine(l) /\ (PassLine(l) \/ (\E e : ListLine(l, e)) \/ BeginLine(l))
    BY <1>4, LineStep
  <2>2. lines # NotRun /\ stage \in DOMAIN Tools
    BY LineOf
  <2>3. host' = host /\ stage' = stage /\ done' = done /\ lines' = lines \ {l}
    BY <2>1 DEF ReadLine
  <2>4. ~done /\ Tool \in host.tools
    BY <2>2 DEF Stages
  <2>5. ~done'
    BY <2>3, <2>4, Zenon
  <2>6. Tool' = Tool
    BY <2>3, Unmoved
  <2>7. current' # None => Tool \in {"rocm-smi", "system_profiler"}
    <3>1. CASE PassLine(l)
      BY <3>1 DEF PassLine, Stages
    <3>2. ASSUME NEW e, ListLine(l, e) PROVE current' = None
      BY <3>2 DEF ListLine
    <3>3. CASE BeginLine(l)
      BY <3>3 DEF BeginLine
    <3> QED
      BY <2>1, <3>1, <3>2, <3>3
  <2>8. lines' # NotRun
    BY <2>2, <2>3, PlacesOf, NotNone
  <2>9. inDisplaySection' => host.os = "darwin" /\ current' # None
    BY <2>1 DEF ReadLine
  <2> QED
    BY <2>3, <2>4, <2>5, <2>6, <2>7, <2>8, <2>9 DEF Stages
<1>5. CASE UNCHANGED probeVars
  <2>1. /\ host' = host /\ stage' = stage /\ lines' = lines /\ current' = current
        /\ inDisplaySection' = inDisplaySection /\ gpus' = gpus /\ done' = done
    BY <1>5 DEF probeVars
  <2> QED
    BY <2>1, Unmoved DEF Stages
<1> QED
  BY <1>1, <1>2, <1>3, <1>4, <1>5 DEF ProbeNext

(* The list says what the tools said, and what the table adds to it. *)
LEMMA FitStep ==
    ASSUME ProbeTypes, Stages, DevicesFit, [ProbeNext]_probeVars
    PROVE  DevicesFit'
<1> DEFINE Fits(n, begun, j, d) ==
             \/ Completed(loadGPUSpecs, d)
             \/ Raw(d) /\ host.os = "windows" /\ d.vendor = "nvidia"
             \/ Raw(d) /\ host.os = "darwin" /\ (j < n \/ HasDeviceIds \/ begun)
<1>1. \A j \in DOMAIN gpus : Fits(Len(gpus), current # None, j, gpus[j])
  BY DEF DevicesFit
<1>2. current # None => Raw(current) /\ (current.name = None => HasDeviceIds)
  BY DEF DevicesFit
<1> DEFINE Kept == /\ host' = host
                   /\ \A j \in DOMAIN gpus' : Fits(Len(gpus'), current' # None, j, gpus'[j])
                   /\ current' # None => Raw(current') /\ (current'.name = None => HasDeviceIds)
<1>3. SUFFICES Kept
  BY Unmoved DEF DevicesFit
<1> gpus \in Seq(Devices)
  BY DEF ProbeTypes
<1>a. ASSUME NEW e \in Devices, gpus' = Append(gpus, e), Fits(Len(gpus) + 1, current' # None, Len(gpus) + 1, e)
      PROVE  \A j \in DOMAIN gpus' : Fits(Len(gpus'), current' # None, j, gpus'[j])
  <2>1. /\ Len(gpus) \in Nat /\ DOMAIN gpus = 1..Len(gpus) /\ DOMAIN gpus' = 1..(Len(gpus) + 1)
        /\ Len(gpus') = Len(gpus) + 1
        /\ \A j \in 1..Len(gpus) : gpus'[j] = gpus[j]
        /\ gpus'[Len(gpus) + 1] = e
    BY <1>a, Appended
  <2> TAKE j \in DOMAIN gpus'
  <2>2. CASE j = Len(gpus) + 1
    BY <1>a, <2>1, <2>2
  <2>3. CASE j # Len(gpus) + 1
    <3>1. j \in 1..Len(gpus) /\ gpus'[j] = gpus[j] /\ j < Len(gpus')
      BY <2>1, <2>3
    <3> QED
      BY <1>1, <2>1, <3>1
  <2> QED
    BY <2>2, <2>3
<1>4. CASE RunTool
  BY <1>1, <1>2, <1>4 DEF RunTool
<1>5. CASE EndOfOutput
  <2>1. LastLine
    BY <1>5, EndStep
  <2>2. host' = host /\ current' = None
    BY <2>1 DEF LastLine
  <2>3. CASE gpus' = gpus /\ (current = None \/ current.name = None)
    BY <1>1, <1>2, <2>2, <2>3
  <2>4. ASSUME NEW e, Flushed(e), Completed(loadGPUSpecs, e)
        PROVE  \A j \in DOMAIN gpus' : Fits(Len(gpus'), current' # None, j, gpus'[j])
    BY <1>a, <2>4 DEF Flushed
  <2> QED
    BY <2>1, <2>2, <2>3, <2>4 DEF LastLine
<1>6. CASE Finish
  <2>1. /\ host' = host /\ current' = current /\ current = None
        /\ gpus' = gpus \/ \E e \in Devices : gpus' = Append(gpus, e) /\ Completed(loadGPUSpecs, e)
    BY <1>6, FinishStep
  <2> QED
    BY <1>1, <1>a, <2>1
<1>7. ASSUME NEW l \in Line,
             \/ detectNVIDIALinux(l) \/ detectAMDLinux(l) \/ detectOtherGPUsLinux(l)
             \/ detectNVIDIAWindows(l) \/ detectAMDWindows(l) \/ detectOtherGPUsWindows(l)
             \/ getGPUInfoDarwin(l)
      PROVE  Kept
  <2>1. ReadLine(l) /\ (PassLine(l) \/ (\E e : ListLine(l, e)) \/ BeginLine(l))
    BY <1>7, LineStep
  <2>2. host' = host
    BY <2>1 DEF ReadLine
  <2>3. None \notin Devices
    BY ProbeConstants
  <2>4. CASE PassLine(l)
    <3>1. gpus' = gpus /\ (current # None => current' # None)
      BY <2>3, <2>4 DEF PassLine
    <3>2. current' # None => Raw(current') /\ (current'.name = None => HasDeviceIds)
      BY <1>2, <2>4 DEF PassLine
    <3> QED
      BY <1>1, <2>2, <3>1, <3>2
  <2>5. ASSUME NEW e, ListLine(l, e) PROVE Kept
    BY <1>a, <2>2, <2>5 DEF ListLine
  <2>6. CASE BeginLine(l)
    <3>1. current' # None /\ Raw(current') /\ (current'.name = None => HasDeviceIds)
      BY <2>3, <2>6 DEF BeginLine
    <3>2. CASE current = None
      BY <1>1, <2>2, <2>6, <3>1, <3>2 DEF BeginLine
    <3>3. CASE current # None
      <4>1. PICK e : Flushed(e)
        BY <2>6, <3>3 DEF BeginLine
      <4>2. \A j \in DOMAIN gpus' : Fits(Len(gpus'), current' # None, j, gpus'[j])
        BY <1>a, <3>1, <4>1 DEF Flushed
      <4> QED
        BY <2>2, <3>1, <4>2
    <3> QED
      BY <3>2, <3>3
  <2> QED
    BY <2>1, <2>4, <2>5, <2>6
<1>8. CASE UNCHANGED probeVars
  BY <1>1, <1>2, <1>8 DEF probeVars
<1> QED
  BY <1>4, <1>5, <1>6, <1>7, <1>8 DEF ProbeNext

(* What is listed, begun and named after each kind of step: a line that    *)
(* lists nothing.                                                          *)
LEMMA PassEffect ==
    ASSUME NEW l, PassLine(l)
    PROVE  Listed' = Listed /\ Begun' = Begun /\ (AmdListed' <=> AmdListed) /\ Named \subseteq Named'
<1> None \notin Devices
  BY ProbeConstants
<1> QED
  BY Unlisted DEF PassLine, Begun, Named

(* A device is listed at once. *)
LEMMA ListEffect ==
    ASSUME ProbeTypes, NEW l, NEW e, ListLine(l, e)
    PROVE  /\ Listed' = Listed \cup {l.card} /\ Begun = {} /\ Begun' = {} /\ Named = {} /\ Named' = {}
           /\ AmdListed => AmdListed'
  BY Appended DEF ProbeTypes, ListLine, Begun, Named

(* A device is begun, and the one before is listed. *)
LEMMA BeginEffect ==
    ASSUME ProbeTypes, NEW l, BeginLine(l)
    PROVE  /\ Listed' = Listed \cup Begun /\ Begun' = {l.card} /\ (AmdListed' <=> AmdListed \/ AmdBegun)
           /\ Named \subseteq Begun
           /\ Kind(l) \in Names(Tool) => Named' = {l.card}
<1> None \notin Devices
  BY ProbeConstants
<1>1. Begun' = {l.card} /\ Named \subseteq Begun /\ (Kind(l) \in Names(Tool) => Named' = {l.card})
  BY DEF BeginLine, Begun, Named
<1>2. CASE current = None
  BY <1>1, <1>2, Unlisted DEF BeginLine, Begun, AmdBegun
<1>3. CASE current # None
  BY <1>1, <1>3, Appended DEF BeginLine, Flushed, Begun, AmdBegun, ProbeTypes
<1> QED
  BY <1>2, <1>3

(* The output ends: what was begun and has a name is listed. *)
LEMMA EndEffect ==
    ASSUME ProbeTypes, LastLine
    PROVE  /\ Listed' \in {Listed, Listed \cup Begun} /\ Begun' = {} /\ Named' = {} /\ Listed \cup Named \subseteq Listed'
           /\ AmdListed => AmdListed'
<1>1. Begun' = {} /\ Named' = {}
  BY DEF LastLine, Begun, Named
<1>2. CASE gpus' = gpus /\ (current = None \/ current.name = None)
  BY <1>1, <1>2, Unlisted DEF Begun, Named
<1>3. ASSUME NEW e, Flushed(e), current # None
      PROVE  Listed' = Listed \cup Begun /\ (AmdListed' <=> AmdListed \/ e.vendor = "amd") /\ Named \subseteq Begun
  BY <1>3, Appended DEF Flushed, Begun, Named, ProbeTypes
<1> QED
  BY <1>1, <1>2, <1>3 DEF LastLine

-----------------------------------------------------------------------------
(* What was over stays over. *)
LEMMA OverKept ==
    ASSUME NEW h, NEW tools, NEW k, NEW amd, NEW st \in Nat, NEW ls, Over(h, tools, k, amd, st, ls),
           DOMAIN tools \subseteq Nat,
           NEW amd2, NEW st2 \in Nat, NEW ls2,
           \A s \in DOMAIN tools : tools[s] = "lspci" /\ amd => amd2,
           st2 >= st, st2 = st /\ ls # NotRun => ls2 # NotRun /\ ls2 \subseteq ls
    PROVE  Over(h, tools, k, amd2, st2, ls2)
<1> SUFFICES ASSUME NEW s \in DOMAIN tools, tools[s] \in h.tools, s >= st2,
                    NEW j \in Starts(h, tools[s], k),
                    s = st2 /\ ls2 # NotRun => [card |-> k, pos |-> j] \in ls2
             PROVE  PassedOver(tools[s], h.cards[k].words, amd2)
  BY DEF Over
<1>1. s \in Nat /\ s >= st
  OBVIOUS
<1>2. s = st /\ ls # NotRun => [card |-> k, pos |-> j] \in ls
  BY <1>1
<1>3. PassedOver(tools[s], h.cards[k].words, amd)
  BY <1>1, <1>2 DEF Over
<1> QED
  BY <1>3 DEF PassedOver

(* A line that makes a device is the last about a card that has only one. *)
LEMMA OverNow ==
    ASSUME ProbeTypes, NEW l \in Line, Kind(l) \in Makes(Tool), Single(host, l.card), Tool \in host.tools,
           NEW amd, Tool = "rocm-smi" => amd
    PROVE  Over(host, Tools, l.card, amd, stage, lines \ {l})
<1> DEFINE c == host.cards[l.card]
<1>1. /\ lines # NotRun /\ l \in lines /\ stage \in DOMAIN Tools
      /\ l = [card |-> l.card, pos |-> l.pos] /\ l.card \in DOMAIN host.cards
      /\ l.pos \in DOMAIN Kinds(host, Tool, l.card) /\ c \in Cards
  BY LineOf
<1>2. /\ host \in Hosts /\ host.rocm \in Seq(STRING) /\ host.section \in Seq(STRING)
      /\ \A i, j \in DOMAIN host.section : host.section[i] = "chipset" /\ host.section[j] = "chipset" => i = j
  BY ProbeConstants DEF ProbeTypes
<1>3. lines \ {l} # NotRun
  BY <1>1, PlacesOf, NotNone
<1> SUFFICES ASSUME NEW s \in DOMAIN Tools, Tools[s] \in host.tools, s >= stage,
                    NEW j \in Starts(host, Tools[s], l.card),
                    s = stage => [card |-> l.card, pos |-> j] \in lines \ {l}
             PROVE  PassedOver(Tools[s], c.words, amd)
  BY <1>3 DEF Over
<1>4. s = stage => Tools[s] = Tool /\ j # l.pos /\ Kinds(host, Tool, l.card)[j] \in Makes(Tool)
                     /\ j \in DOMAIN Kinds(host, Tool, l.card)
  BY <1>1 DEF Tool, Starts
<1>5. host.os = "darwin" => PassedOver(Tools[s], c.words, amd)
  <2> SUFFICES ASSUME host.os = "darwin" PROVE FALSE
    OBVIOUS
  <2>1. Tools = <<"system_profiler">> /\ Tool = "system_profiler" /\ s = stage
    BY <1>1, ToolsOf, ToolOf
  <2>2. Kinds(host, Tool, l.card) = host.section
    BY <2>1, KindsOf
  <2>3. \A i \in DOMAIN host.section : host.section[i] # "device"
    BY DEF Single
  <2>4. /\ l.pos \in DOMAIN host.section /\ host.section[l.pos] = "chipset"
        /\ j \in DOMAIN host.section /\ host.section[j] = "chipset"
    BY <1>1, <1>4, <2>1, <2>2, <2>3 DEF Kind, Makes
  <2> QED
    BY <1>2, <1>4, <2>1, <2>4
<1>6. CASE host.os \in {"linux", "windows"}
  <2>1. /\ stage \in 1..3 /\ s \in 1..3
        /\ Tools[1] = "nvidia-smi" /\ Tools[2] = "rocm-smi" /\ Tools[3] \in {"lspci", "powershell"}
        /\ Tools[3] = "powershell" => host.os = "windows"
    BY <1>1, <1>6, ToolsOf
  <2>2. Tool = Tools[stage]
    BY DEF Tool
  <2>3. CASE stage = 1
    <3>1. c.vendor = "nvidia" /\ l.pos = 1
      BY <1>1, <2>1, <2>2, <2>3, KindsOf
    <3>2. "nvidia" \in c.words
      BY <2>1, <2>2, <2>3, <3>1 DEF Single
    <3>3. s # 1
      BY <1>4, <2>1, <2>2, <2>3, <3>1, KindsOf
    <3>4. s # 2
      BY <2>1, <3>1, KindsOf DEF Starts
    <3> QED
      BY <2>1, <3>2, <3>3, <3>4 DEF PassedOver
  <2>4. CASE stage = 2
    <3>1. c.vendor = "amd" /\ Kinds(host, Tool, l.card) = host.rocm
      BY <1>1, <2>1, <2>2, <2>4, KindsOf
    <3>2. ~(host.os = "windows" \/ Len(host.rocm) > 1 \/ c.words \cap {"amd", "radeon"} = {})
      BY <2>1, <2>2, <2>4, <3>1 DEF Single
    <3>3. s # 2
      BY <1>1, <1>2, <1>4, <2>4, <3>1, <3>2
    <3>4. s = 3 /\ Tools[s] = "lspci" /\ amd
      BY <2>1, <2>2, <2>4, <3>2, <3>3
    <3> QED
      BY <3>2, <3>4 DEF PassedOver
  <2>5. CASE stage = 3
    <3>1. s = stage /\ Kinds(host, Tool, l.card) = <<"junk", "controller">> /\ Makes(Tool) = {"controller"}
      BY <2>1, <2>2, <2>5, KindsOf DEF Makes
    <3>2. l.pos = 2 /\ j = 2
      BY <1>1, <1>4, <3>1 DEF Kind
    <3> QED
      BY <1>4, <3>1, <3>2
  <2> QED
    BY <2>1, <2>3, <2>4, <2>5
<1> QED
  BY <1>1, <1>5, <1>6, ToolOf

(* A line that is not passed over is about a card that has no device yet, *)
(* if it has only one.                                                     *)
LEMMA FirstDevice ==
    ASSUME ProbeTypes, OneDevice, NEW l \in Line, Kind(l) \in Makes(Tool), Single(host, l.card), Tool \in host.tools,
           ~PassedOver(Tool, host.cards[l.card].words, AmdListed \/ AmdBegun)
    PROVE  l.card \notin Listed \cup Begun
<1>1. /\ lines # NotRun /\ l \in lines /\ stage \in DOMAIN Tools
      /\ l = [card |-> l.card, pos |-> l.pos] /\ l.pos \in DOMAIN Kinds(host, Tool, l.card)
  BY LineOf
<1>2. Tool = Tools[stage] /\ stage >= stage
  BY DEF Tool, ProbeTypes
<1>3. l.pos \in Starts(host, Tools[stage], l.card)
  BY <1>1, <1>2 DEF Starts, Kind
<1>4. ~Over(host, Tools, l.card, AmdListed \/ AmdBegun, stage, lines)
  BY <1>1, <1>2, <1>3 DEF Over
<1> QED
  BY <1>4 DEF OneDevice

(* A device is added to the list about a card that is not on it. *)
LEMMA DistinctKept ==
    ASSUME gpus \in Seq(Devices), Distinct, host' = host, NEW e \in Devices, gpus' = Append(gpus, e),
           Single(host, e.card) => e.card \notin Listed
    PROVE  Distinct'
<1>1. /\ Len(gpus) \in Nat /\ DOMAIN gpus = 1..Len(gpus) /\ DOMAIN gpus' = 1..(Len(gpus) + 1)
      /\ \A j \in 1..Len(gpus) : gpus'[j] = gpus[j]
      /\ gpus'[Len(gpus) + 1] = e
  BY Appended
<1>2. \A j \in 1..Len(gpus) : gpus[j].card \in Listed
  BY <1>1 DEF Listed
<1> SUFFICES ASSUME NEW i \in DOMAIN gpus', NEW j \in DOMAIN gpus',
                    gpus'[i].card = gpus'[j].card, Single(host, gpus'[i].card)
             PROVE  i = j
  BY DEF Distinct
<1>3. CASE i \in 1..Len(gpus) /\ j \in 1..Len(gpus)
  BY <1>1, <1>3 DEF Distinct
<1>4. CASE i = Len(gpus) + 1 /\ j \in 1..Len(gpus)
  BY <1>1, <1>2, <1>4
<1>5. CASE j = Len(gpus) + 1 /\ i \in 1..Len(gpus)
  BY <1>1, <1>2, <1>5
<1> QED
  BY <1>1, <1>3, <1>4, <1>5

(* No card that has only one device ever has two. *)
LEMMA OneDeviceStep ==
    ASSUME ProbeTypes, Stages, DevicesFit, OneDevice, [ProbeNext]_probeVars
    PROVE  OneDevice'
<1> gpus \in Seq(Devices)
  BY DEF ProbeTypes
<1>0. stage \in Nat /\ DOMAIN Tools \subseteq Nat
  BY ToolsOf DEF ProbeTypes
<1>1. CASE RunTool
  <2>1. host' = host /\ gpus' = gpus /\ current' = current /\ lines = NotRun /\ stage' \in {stage, stage + 1}
    BY <1>1 DEF RunTool
  <2>2. Tools' = Tools /\ Listed' = Listed /\ Begun' = Begun /\ (AmdListed' <=> AmdListed) /\ (AmdBegun' <=> AmdBegun)
    BY <2>1, Unmoved, Unlisted DEF Begun, AmdBegun
  <2>3. Distinct' /\ \A k \in Begun' : Single(host, k) => k \notin Listed'
    BY <2>1, <2>2 DEF OneDevice, Distinct
  <2>4. ASSUME NEW k \in Listed' \cup Begun', Single(host, k)
        PROVE  Over(host, Tools, k, AmdListed' \/ AmdBegun', stage', lines')
    <3>1. Over(host, Tools, k, AmdListed \/ AmdBegun, stage, lines)
      BY <2>2, <2>4 DEF OneDevice
    <3>2. stage' \in Nat /\ stage' >= stage
      BY <1>0, <2>1
    <3> HIDE <1>1
    <3> QED
      BY <1>0, <2>1, <2>2, <3>1, <3>2, OverKept
  <2> QED
    BY <2>1, <2>2, <2>3, <2>4 DEF OneDevice
<1>2. CASE EndOfOutput
  <2>1. LastLine
    BY <1>2, EndStep
  <2>2. host' = host /\ stage' = stage + 1 /\ lines' = NotRun /\ lines = {} /\ current' = None
    BY <2>1 DEF LastLine
  <2>3. Tools' = Tools /\ Begun' = {} /\ Listed' \in {Listed, Listed \cup Begun} /\ (AmdListed => AmdListed')
    BY <2>1, <2>2, Unmoved, EndEffect
  <2>4. lines # NotRun /\ stage \in DOMAIN Tools
    BY <2>2, NotNone DEF ProbeTypes
  <2>5. Distinct'
    <3>1. CASE gpus' = gpus
      BY <2>2, <3>1 DEF OneDevice, Distinct
    <3>2. ASSUME NEW e, Flushed(e), current # None PROVE Distinct'
      <4>1. e \in Devices /\ gpus' = Append(gpus, e) /\ e.card \in Begun
        BY <3>2 DEF Flushed, Begun
      <4> QED
        BY <2>2, <4>1, DistinctKept DEF OneDevice
    <3> QED
      BY <2>1, <3>1, <3>2 DEF LastLine
  <2>6. \A s \in DOMAIN Tools : Tools[s] = "lspci" /\ (AmdListed \/ AmdBegun) => AmdListed' \/ AmdBegun'
    <3> SUFFICES ASSUME NEW s \in DOMAIN Tools, Tools[s] = "lspci", AmdBegun PROVE AmdListed'
      BY <2>3
    <3>1. Tool # "system_profiler" /\ current # None /\ current.vendor = "amd"
      BY <2>4, ToolOf, ToolsOf DEF AmdBegun
    <3>2. PICK e : Flushed(e)
      BY <2>1, <3>1 DEF LastLine
    <3> QED
      BY <3>1, <3>2, Appended DEF Flushed
  <2>7. ASSUME NEW k \in Listed' \cup Begun', Single(host, k)
        PROVE  Over(host, Tools, k, AmdListed' \/ AmdBegun', stage', lines')
    <3>1. Over(host, Tools, k, AmdListed \/ AmdBegun, stage, lines)
      BY <2>3, <2>7 DEF OneDevice
    <3>2. stage' \in Nat /\ stage' >= stage /\ stage' # stage
      BY <1>0, <2>2
    <3> QED
      BY <1>0, <2>6, <3>1, <3>2, OverKept
  <2> QED
    BY <2>2, <2>3, <2>5, <2>7 DEF OneDevice
<1>3. CASE Finish
  <2>1. /\ host' = host /\ stage' = stage /\ lines' = lines /\ current' = current
        /\ stage > Len(Tools) /\ current = None
        /\ gpus' = gpus \/ (gpus = <<>> /\ \E e \in Devices : gpus' = Append(gpus, e))
    BY <1>3, FinishStep
  <2>2. Tools' = Tools /\ Begun' = {}
    BY <2>1, Unmoved DEF Begun
  <2>3. Distinct'
    <3>1. CASE gpus' = gpus
      BY <2>1, <3>1 DEF OneDevice, Distinct
    <3>2. ASSUME gpus = <<>>, NEW e \in Devices, gpus' = Append(gpus, e) PROVE Distinct'
      <4>1. Listed = {}
        BY <3>2 DEF Listed
      <4> QED
        BY <2>1, <3>2, <4>1, DistinctKept DEF OneDevice
    <3> QED
      BY <2>1, <3>1, <3>2
  <2>4. ASSUME NEW s \in DOMAIN Tools PROVE ~(s >= stage)
    <3>1. s <= Len(Tools) /\ s \in Nat /\ Len(Tools) \in Nat
      BY ToolsOf
    <3> QED
      BY <1>0, <2>1, <3>1
  <2>5. \A k : Over(host, Tools, k, AmdListed' \/ AmdBegun', stage, lines)
    BY <2>4 DEF Over
  <2> QED
    BY <2>1, <2>2, <2>3, <2>5 DEF OneDevice
<1>4. ASSUME NEW l \in Line,
             \/ detectNVIDIALinux(l) \/ detectAMDLinux(l) \/ detectOtherGPUsLinux(l)
             \/ detectNVIDIAWindows(l) \/ detectAMDWindows(l) \/ detectOtherGPUsWindows(l)
             \/ getGPUInfoDarwin(l)
      PROVE  OneDevice'
  <2>1. ReadLine(l) /\ (PassLine(l) \/ (\E e : ListLine(l, e)) \/ BeginLine(l))
    BY <1>4, LineStep
  <2>2. lines # NotRun /\ stage \in DOMAIN Tools
    BY LineOf
  <2>3. host' = host /\ stage' = stage /\ lines' = lines \ {l} /\ Tools' = Tools
    BY <2>1, Unmoved DEF ReadLine
  <2>4. Tool \in host.tools /\ (Tool \notin {"rocm-smi", "system_profiler"} => current = None)
    BY <2>2 DEF Stages
  <2>5. lines' # NotRun /\ lines' \subseteq lines
    BY <2>2, <2>3, PlacesOf, NotNone
  <2>6. ASSUME NEW k \in Listed \cup Begun, Single(host, k),
               \A s \in DOMAIN Tools : Tools[s] = "lspci" /\ (AmdListed \/ AmdBegun) => AmdListed' \/ AmdBegun'
        PROVE  Over(host, Tools, k, AmdListed' \/ AmdBegun', stage', lines')
    <3>1. Over(host, Tools, k, AmdListed \/ AmdBegun, stage, lines)
      BY <2>6 DEF OneDevice
    <3>2. stage' \in Nat /\ stage' >= stage
      BY <1>0, <2>3
    <3> QED
      BY <1>0, <2>5, <2>6, <3>1, <3>2, OverKept
  <2>7. CASE PassLine(l)
    <3>1. Listed' = Listed /\ Begun' = Begun /\ (AmdListed' <=> AmdListed) /\ gpus' = gpus
      BY <2>7, PassEffect DEF PassLine
    <3>2. Distinct'
      BY <2>3, <3>1 DEF OneDevice, Distinct
    <3>3. Tool # "system_profiler" => (AmdBegun' <=> AmdBegun)
      BY <2>7 DEF PassLine, AmdBegun
    <3>4. \A s \in DOMAIN Tools : Tools[s] = "lspci" => Tool # "system_profiler"
      BY <2>2, ToolsOf, ToolOf
    <3> QED
      BY <2>3, <2>6, <3>1, <3>2, <3>3, <3>4 DEF OneDevice
  <2>8. ASSUME NEW e, ListLine(l, e) PROVE OneDevice'
    <3>1. Listed' = Listed \cup {l.card} /\ Begun = {} /\ Begun' = {} /\ (AmdListed => AmdListed')
      BY <2>8, ListEffect
    <3>2. /\ e \in Devices /\ gpus' = Append(gpus, e) /\ e.card = l.card /\ ~AmdBegun
          /\ Kind(l) \in Makes(Tool) /\ Tool # "rocm-smi"
          /\ ~PassedOver(Tool, host.cards[l.card].words, AmdListed)
      BY <2>8 DEF ListLine, AmdBegun
    <3>3. ~PassedOver(Tool, host.cards[l.card].words, AmdListed \/ AmdBegun)
      BY <3>2 DEF PassedOver
    <3>4. Single(host, l.card) => l.card \notin Listed \cup Begun
      BY <2>4, <3>2, <3>3, FirstDevice
    <3>5. Distinct'
      BY <2>3, <3>2, <3>4, DistinctKept DEF OneDevice
    <3>6. Single(host, l.card) => Over(host, Tools, l.card, AmdListed' \/ AmdBegun', stage', lines')
      BY <2>3, <2>4, <3>2, OverNow
    <3>7. ASSUME NEW k \in Listed' \cup Begun', Single(host, k)
          PROVE  Over(host, Tools, k, AmdListed' \/ AmdBegun', stage', lines')
      BY <2>6, <3>1, <3>2, <3>6, <3>7
    <3> QED
      BY <2>3, <3>1, <3>5, <3>7 DEF OneDevice
  <2>9. CASE BeginLine(l)
    <3>1. /\ Listed' = Listed \cup Begun /\ Begun' = {l.card} /\ (AmdListed' <=> AmdListed \/ AmdBegun)
      BY <2>9, BeginEffect
    <3>2. /\ Kind(l) \in Makes(Tool) /\ Tool \in {"rocm-smi", "system_profiler"}
          /\ Tool = "rocm-smi" => AmdBegun'
      <4> None \notin Devices
        BY ProbeConstants
      <4> QED
        BY <2>9 DEF BeginLine, AmdBegun
    <3>3. ~PassedOver(Tool, host.cards[l.card].words, AmdListed \/ AmdBegun)
      BY <3>2 DEF PassedOver
    <3>4. Single(host, l.card) => l.card \notin Listed \cup Begun
      BY <2>4, <3>2, <3>3, FirstDevice
    <3>5. Distinct'
      <4>1. CASE current = None
        <5>1. gpus' = gpus
          BY <2>9, <4>1 DEF BeginLine
        <5> QED
          BY <2>3, <5>1 DEF OneDevice, Distinct
      <4>2. CASE current # None
        <5>1. PICK e : Flushed(e)
          BY <2>9, <4>2 DEF BeginLine
        <5>2. e \in Devices /\ gpus' = Append(gpus, e) /\ e.card \in Begun
          BY <4>2, <5>1 DEF Flushed, Begun
        <5> QED
          BY <2>3, <5>2, DistinctKept DEF OneDevice
      <4> QED
        BY <4>1, <4>2
    <3>6. Single(host, l.card) => Over(host, Tools, l.card, AmdListed' \/ AmdBegun', stage', lines')
      BY <2>3, <2>4, <3>2, OverNow
    <3>7. ASSUME NEW k \in Listed' \cup Begun', Single(host, k)
          PROVE  Over(host, Tools, k, AmdListed' \/ AmdBegun', stage', lines')
      BY <2>6, <3>1, <3>6, <3>7
    <3> QED
      BY <2>3, <3>1, <3>4, <3>5, <3>7 DEF OneDevice
  <2> QED
    BY <2>1, <2>7, <2>8, <2>9
<1>5. CASE UNCHANGED probeVars
  <2>1. host' = host /\ stage' = stage /\ lines' = lines /\ current' = current /\ gpus' = gpus
    BY <1>5 DEF probeVars
  <2>2. Tools' = Tools /\ Listed' = Listed /\ Begun' = Begun /\ (AmdListed' <=> AmdListed) /\ (AmdBegun' <=> AmdBegun)
    BY <2>1, Unmoved, Unlisted DEF Begun, AmdBegun
  <2>3. (AmdListed' \/ AmdBegun') = (AmdListed \/ AmdBegun)
    BY <2>2
  <2> QED
    BY <2>1, <2>2, <2>3 DEF OneDevice, Distinct
<1> QED
  BY <1>1, <1>2, <1>3, <1>4, <1>5 DEF ProbeNext

(* A line that is read may name a card; the others have told before. *)
LEMMA ToldRead ==
    ASSUME NEW h, NEW tools, NEW k, NEW got, NEW amd, NEW st, NEW ls, Told(h, tools, k, got, amd, st, ls),
           NEW l, ls # NotRun, l = [card |-> l.card, pos |-> l.pos],
           NEW got2, NEW amd2, got \subseteq got2, amd => amd2,
           /\ l.card = k /\ l.pos \in DOMAIN Kinds(h, tools[st], k) /\ Kinds(h, tools[st], k)[l.pos] \in Names(tools[st])
           => k \in got2 \/ PassedOver(tools[st], h.cards[k].words, amd2)
    PROVE  Told(h, tools, k, got2, amd2, st, ls \ {l})
<1> SUFFICES ASSUME NEW s \in DOMAIN tools, tools[s] \in h.tools, s <= st,
                    NEW j \in DOMAIN Kinds(h, tools[s], k), Kinds(h, tools[s], k)[j] \in Names(tools[s]),
                    s = st => [card |-> k, pos |-> j] \notin ls \ {l}
             PROVE  k \in got2 \/ PassedOver(tools[s], h.cards[k].words, amd2)
  BY DEF Told
<1>1. CASE s = st /\ [card |-> k, pos |-> j] = l
  <2>1. l.card = k /\ l.pos = j
    BY <1>1
  <2> QED
    BY <1>1, <2>1
<1>2. CASE ~(s = st /\ [card |-> k, pos |-> j] = l)
  <2>1. s = st => ls # NotRun /\ [card |-> k, pos |-> j] \notin ls
    BY <1>2
  <2>2. k \in got \/ PassedOver(tools[s], h.cards[k].words, amd)
    BY <2>1 DEF Told
  <2> QED
    BY <2>2 DEF PassedOver
<1> QED
  BY <1>1, <1>2

(* A tool that was read to its end, or is missing, has told all. *)
LEMMA ToldAll ==
    ASSUME NEW h, NEW tools, NEW k, NEW got, NEW amd, NEW st \in Nat, NEW ls, Told(h, tools, k, got, amd, st, ls),
           DOMAIN tools \subseteq Nat, st \in DOMAIN tools /\ tools[st] \in h.tools => ls = {} /\ ls # NotRun,
           NEW got2, NEW amd2, got \subseteq got2, amd => amd2
    PROVE  Told(h, tools, k, got2, amd2, st + 1, NotRun)
<1> SUFFICES ASSUME NEW s \in DOMAIN tools, tools[s] \in h.tools, s <= st + 1, s # st + 1,
                    NEW j \in DOMAIN Kinds(h, tools[s], k), Kinds(h, tools[s], k)[j] \in Names(tools[s])
             PROVE  k \in got2 \/ PassedOver(tools[s], h.cards[k].words, amd2)
  BY DEF Told
<1>1. s \in Nat /\ s <= st
  OBVIOUS
<1>2. s = st => ls # NotRun /\ [card |-> k, pos |-> j] \notin ls
  OBVIOUS
<1>3. k \in got \/ PassedOver(tools[s], h.cards[k].words, amd)
  BY <1>1, <1>2 DEF Told
<1> QED
  BY <1>3 DEF PassedOver

(* No card that a line named is forgotten. *)
LEMMA NoneMissingStep ==
    ASSUME ProbeTypes, Stages, DevicesFit, NoneMissing, [ProbeNext]_probeVars
    PROVE  NoneMissing'
<1> gpus \in Seq(Devices)
  BY DEF ProbeTypes
<1>0. stage \in Nat /\ DOMAIN Tools \subseteq Nat
  BY ToolsOf DEF ProbeTypes
<1>1. CASE RunTool
  <2>1. /\ host' = host /\ gpus' = gpus /\ current' = current /\ lines = NotRun
        /\ IF Tool \in host.tools THEN lines' = Output(host, Tool) /\ stage' = stage
           ELSE stage' = stage + 1 /\ lines' = NotRun
    BY <1>1 DEF RunTool
  <2>2. Tools' = Tools /\ Listed' = Listed /\ Named' = Named /\ (AmdListed' <=> AmdListed)
    BY <2>1, Unmoved, Unlisted DEF Named
  <2> SUFFICES ASSUME NEW k \in DOMAIN host.cards
               PROVE  Told(host, Tools, k, Listed' \cup Named', AmdListed', stage', lines')
    BY <2>1, <2>2 DEF NoneMissing
  <2>3. Told(host, Tools, k, Listed \cup Named, AmdListed, stage, lines)
    BY DEF NoneMissing
  <2>4. CASE Tool \in host.tools
    <3> SUFFICES ASSUME NEW s \in DOMAIN Tools, Tools[s] \in host.tools, s <= stage,
                        NEW j \in DOMAIN Kinds(host, Tools[s], k), Kinds(host, Tools[s], k)[j] \in Names(Tools[s]),
                        s = stage => [card |-> k, pos |-> j] \notin Output(host, Tool)
                 PROVE  k \in Listed' \cup Named' \/ PassedOver(Tools[s], host.cards[k].words, AmdListed')
      BY <2>1, <2>4 DEF Told
    <3>1. s # stage
      BY DEF Output, Tool
    <3>2. k \in Listed \cup Named \/ PassedOver(Tools[s], host.cards[k].words, AmdListed)
      BY <2>3, <3>1 DEF Told
    <3> QED
      BY <2>2, <3>2 DEF PassedOver
  <2>5. CASE Tool \notin host.tools
    <3>1. stage' = stage + 1 /\ lines' = NotRun /\ ~(stage \in DOMAIN Tools /\ Tools[stage] \in host.tools)
      BY <2>1, <2>5 DEF Tool
    <3>2. Told(host, Tools, k, Listed' \cup Named', AmdListed', stage + 1, NotRun)
      BY <1>0, <2>2, <2>3, <3>1, ToldAll
    <3> QED
      BY <3>1, <3>2
  <2> QED
    BY <2>4, <2>5
<1>2. CASE EndOfOutput
  <2>1. LastLine
    BY <1>2, EndStep
  <2>2. host' = host /\ stage' = stage + 1 /\ lines' = NotRun /\ lines = {}
    BY <2>1 DEF LastLine
  <2>3. Tools' = Tools /\ Listed \cup Named \subseteq Listed' \cup Named' /\ (AmdListed => AmdListed')
    BY <2>1, <2>2, Unmoved, EndEffect
  <2>4. lines # NotRun
    BY <2>2, NotNone
  <2> SUFFICES ASSUME NEW k \in DOMAIN host.cards
               PROVE  Told(host, Tools, k, Listed' \cup Named', AmdListed', stage + 1, NotRun)
    BY <2>2, <2>3 DEF NoneMissing
  <2>5. Told(host, Tools, k, Listed \cup Named, AmdListed, stage, lines)
    BY DEF NoneMissing
  <2> QED
    BY <1>0, <2>2, <2>3, <2>4, <2>5, ToldAll
<1>3. CASE Finish
  <2>1. /\ host' = host /\ stage' = stage /\ lines' = lines /\ current' = current /\ current = None
        /\ gpus' = gpus \/ \E e \in Devices : gpus' = Append(gpus, e)
    BY <1>3, FinishStep
  <2>2. Tools' = Tools /\ Named' = Named /\ Listed \subseteq Listed' /\ (AmdListed => AmdListed')
    BY <2>1, Unmoved, Unlisted, Appended DEF Named
  <2> SUFFICES ASSUME NEW k \in DOMAIN host.cards
               PROVE  Told(host, Tools, k, Listed' \cup Named', AmdListed', stage, lines)
    BY <2>1, <2>2 DEF NoneMissing
  <2>3. Told(host, Tools, k, Listed \cup Named, AmdListed, stage, lines)
    BY DEF NoneMissing
  <2>4. \A s \in DOMAIN Tools : PassedOver(Tools[s], host.cards[k].words, AmdListed)
                                  => PassedOver(Tools[s], host.cards[k].words, AmdListed')
    BY <2>2 DEF PassedOver
  <2> QED
    BY <2>2, <2>3, <2>4 DEF Told
<1>4. ASSUME NEW l \in Line,
             \/ detectNVIDIALinux(l) \/ detectAMDLinux(l) \/ detectOtherGPUsLinux(l)
             \/ detectNVIDIAWindows(l) \/ detectAMDWindows(l) \/ detectOtherGPUsWindows(l)
             \/ getGPUInfoDarwin(l)
      PROVE  NoneMissing'
  <2>1. ReadLine(l) /\ (PassLine(l) \/ (\E e : ListLine(l, e)) \/ BeginLine(l))
    BY <1>4, LineStep
  <2>2. lines # NotRun /\ l = [card |-> l.card, pos |-> l.pos]
    BY LineOf
  <2>3. host' = host /\ stage' = stage /\ lines' = lines \ {l} /\ Tools' = Tools
    BY <2>1, Unmoved DEF ReadLine
  <2>4. Kind(l) = Kinds(host, Tools[stage], l.card)[l.pos] /\ Tool = Tools[stage] /\ Names(Tool) \subseteq Makes(Tool)
    BY DEF Kind, Tool, Names, Makes
  <2> SUFFICES ASSUME NEW k \in DOMAIN host.cards
               PROVE  Told(host, Tools, k, Listed' \cup Named', AmdListed', stage, lines \ {l})
    BY <2>3 DEF NoneMissing
  <2>5. Told(host, Tools, k, Listed \cup Named, AmdListed, stage, lines)
    BY DEF NoneMissing
  <2>6. /\ Listed \cup Named \subseteq Listed' \cup Named' /\ (AmdListed => AmdListed')
        /\ Kind(l) \in Names(Tool) => \/ l.card \in Listed' \cup Named'
                                      \/ PassedOver(Tool, host.cards[l.card].words, AmdListed')
    <3>1. CASE PassLine(l)
      <4>1. Listed' = Listed /\ Named \subseteq Named' /\ (AmdListed' <=> AmdListed)
        BY <3>1, PassEffect
      <4>2. Kind(l) \in Names(Tool) => PassedOver(Tool, host.cards[l.card].words, AmdListed)
        BY <2>4, <3>1 DEF PassLine
      <4>3. PassedOver(Tool, host.cards[l.card].words, AmdListed) => PassedOver(Tool, host.cards[l.card].words, AmdListed')
        BY <4>1 DEF PassedOver
      <4> QED
        BY <4>1, <4>2, <4>3
    <3>2. ASSUME NEW e, ListLine(l, e)
          PROVE  /\ Listed \cup Named \subseteq Listed' \cup Named' /\ (AmdListed => AmdListed')
                 /\ l.card \in Listed' \cup Named'
      BY <3>2, ListEffect
    <3>3. CASE BeginLine(l)
      <4>1. /\ Listed' = Listed \cup Begun /\ Named \subseteq Begun /\ (AmdListed => AmdListed')
            /\ Kind(l) \in Names(Tool) => Named' = {l.card}
        BY <3>3, BeginEffect
      <4> QED
        BY <4>1
    <3> QED
      BY <2>1, <3>1, <3>2, <3>3
  <2>7. l.card = k /\ Kinds(host, Tools[stage], k)[l.pos] \in Names(Tools[stage])
          => k \in Listed' \cup Named' \/ PassedOver(Tools[stage], host.cards[k].words, AmdListed')
    BY <2>4, <2>6
  <2> QED
    BY <2>2, <2>5, <2>6, <2>7, ToldRead
<1>5. CASE UNCHANGED probeVars
  <2>1. host' = host /\ stage' = stage /\ lines' = lines /\ current' = current /\ gpus' = gpus
    BY <1>5 DEF probeVars
  <2>2. Tools' = Tools /\ Listed' = Listed /\ Named' = Named /\ AmdListed' = AmdListed
    BY <2>1, Unmoved DEF Named, Listed, AmdListed
  <2> QED
    BY <2>1, <2>2 DEF NoneMissing
<1> QED
  BY <1>1, <1>2, <1>3, <1>4, <1>5 DEF ProbeNext

(* Before the first tool is run nothing is listed or told. *)
LEMMA ProbeInvInit == ASSUME ProbeInit PROVE ProbeInv
<1>1. ProbeTypes
  BY TypesInit
<1>2. /\ stage = 1 /\ lines = NotRun /\ current = None /\ inDisplaySection = FALSE
      /\ gpus = <<>> /\ done = FALSE
  BY DEF ProbeInit
<1>3. Stages /\ DevicesFit
  BY <1>2 DEF Stages, DevicesFit
<1>4. Listed = {} /\ Begun = {} /\ Named = {}
  BY <1>2 DEF Listed, Begun, Named
<1>5. OneDevice
  BY <1>2, <1>4 DEF OneDevice, Distinct
<1>6. DOMAIN Tools \subseteq 1..3
  BY ToolsOf
<1>7. NoneMissing
  BY <1>2, <1>6 DEF NoneMissing, Told
<1> QED
  BY <1>1, <1>3, <1>5, <1>7 DEF ProbeInv

(* The invariant of the detection. *)
THEOREM ProbeInvariant == ProbeSpec => []ProbeInv
<1>1. ProbeInit => ProbeInv
  BY ProbeInvInit
<1>2. ProbeInv /\ [ProbeNext]_probeVars => ProbeInv'
  BY TypesStep, StagesStep, FitStep, OneDeviceStep, NoneMissingStep DEF ProbeInv
<1> QED
  BY <1>1, <1>2, PTL DEF ProbeSpec

(* The variables of the detection keep their types: what the tools print   *)
(* never makes a device that is not one.                                   *)
THEOREM ProbeTypeCorrect == ProbeSpec => []ProbeTypes
<1>1. ProbeInv => ProbeTypes
  BY DEF ProbeInv
<1> QED
  BY <1>1, ProbeInvariant, PTL

(* What a listed device says is what its tool said, completed from one     *)
(* entry of the table, whichever tools, cards and entries there are.       *)
THEOREM SpecsAlwaysFit == ProbeSpec => []SpecsFit
<1>1. ProbeInv => SpecsFit
  <2> SUFFICES ASSUME ProbeInv, NEW j \in DOMAIN gpus
               PROVE  LET d == gpus[j]
                          known == lookupGPUSpec(loadGPUSpecs, d.vendor, d.name, d.words)
                      IN  \/ /\ Raw(d)
                             /\ \/ known = {None}
                                \/ host.os = "windows" /\ d.vendor = "nvidia"
                                \/ host.os = "darwin" /\ (~done \/ j < Len(gpus) \/ HasDeviceIds)
                          \/ \E e \in known \ {None} :
                                /\ d.units = e.units /\ d.tops = e.tops
                                /\ d.mem = IF d.said < 100 /\ e.mem > 0 THEN e.mem ELSE d.said
    BY DEF SpecsFit, Raw
  <2>1. current # None => ~done
    BY DEF ProbeInv, Stages
  <2>2. \/ Completed(loadGPUSpecs, gpus[j])
        \/ Raw(gpus[j]) /\ host.os = "windows" /\ gpus[j].vendor = "nvidia"
        \/ Raw(gpus[j]) /\ host.os = "darwin" /\ (j < Len(gpus) \/ HasDeviceIds \/ ~done)
    BY <2>1 DEF ProbeInv, DevicesFit
  <2> QED
    BY <2>2 DEF Completed
<1> QED
  BY <1>1, ProbeInvariant, PTL

(* No card is listed twice, but for the cases CardsOnce names, however     *)
(* many cards and lines there are.                                         *)
THEOREM NoCardTwice == ProbeSpec => []CardsOnce
<1>1. ProbeInv => CardsOnce
  <2> SUFFICES ASSUME ProbeInv, NEW k \in DOMAIN host.cards, Single(host, k)
               PROVE  Cardinality(Reports(k)) <= 1
    BY DEF CardsOnce, Single, HasDeviceIds
  <2>1. \A i, j \in Reports(k) : i = j
    BY DEF ProbeInv, OneDevice, Distinct, Reports
  <2>2. CASE Reports(k) = {}
    BY <2>2, FS_EmptySet
  <2>3. CASE Reports(k) # {}
    <3>1. PICK j : Reports(k) = {j}
      BY <2>1, <2>3
    <3> QED
      BY <3>1, FS_Singleton
  <2> QED
    BY <2>2, <2>3
<1> QED
  BY <1>1, ProbeInvariant, PTL

(* When the detection is done, a card that a working tool knows is listed, *)
(* but for the three cases CardsMissing names.                             *)
THEOREM NoCardForgotten == ProbeSpec => []CardsMissing
<1>1. ProbeInv => CardsMissing
  <2> SUFFICES ASSUME ProbeInv, done, NEW k \in DOMAIN host.cards, Reports(k) = {}, Listing(k) # {},
                      host.os = "darwin" => \E i \in DOMAIN host.section : host.section[i] = "chipset",
                      ~("nvidia" \in host.cards[k].words /\ "nvidia-smi" \notin host.tools)
               PROVE  /\ host.os = "linux" /\ Listing(k) = {"lspci"} /\ host.cards[k].words \cap {"amd", "radeon"} # {}
                      /\ \E j \in DOMAIN gpus : gpus[j].vendor = "amd" /\ gpus[j].card # k
    BY DEF CardsMissing
  <2> DEFINE c == host.cards[k]
  <2>1. /\ c \in Cards /\ k \in Nat
        /\ "nvidia" \in c.words => c.vendor = "nvidia"
        /\ host.os \in {"linux", "windows"} => \E i \in DOMAIN host.rocm : host.rocm[i] \in {"series", "model"}
    BY ProbeConstants DEF ProbeInv, ProbeTypes
  <2>2. k \notin Listed
    BY DEF Reports, Listed
  <2>3. current = None /\ stage > Len(Tools)
    BY DEF ProbeInv, Stages
  <2>4. Named = {}
    BY <2>3 DEF Named
  <2>5. DOMAIN Tools = 1..Len(Tools) /\ Len(Tools) \in Nat /\ stage \in Nat
    BY ToolsOf DEF ProbeInv, ProbeTypes
  <2>6. ASSUME NEW s \in DOMAIN Tools, Tools[s] \in host.tools,
               NEW j \in DOMAIN Kinds(host, Tools[s], k), Kinds(host, Tools[s], k)[j] \in Names(Tools[s])
        PROVE  PassedOver(Tools[s], c.words, AmdListed)
    <3>1. Told(host, Tools, k, Listed \cup Named, AmdListed, stage, lines)
      BY DEF ProbeInv, NoneMissing
    <3>2. s <= stage /\ s # stage
      BY <2>3, <2>5
    <3> QED
      BY <2>2, <2>4, <2>6, <3>1, <3>2 DEF Told
  <2>7. ASSUME NEW t \in Listing(k)
        PROVE  \E s \in DOMAIN Tools : Tools[s] = t /\ PassedOver(t, c.words, AmdListed)
    <3>1. t \in host.tools
      BY DEF Listing
    <3>2. PICK s \in DOMAIN Tools : Tools[s] = t
      BY DEF Listing
    <3>3. PICK l \in Output(host, t) : l.card = k
      BY DEF Listing
    <3>4. l.pos \in DOMAIN Kinds(host, t, k)
      BY <3>3 DEF Output
    <3>5. t \in {"nvidia-smi", "rocm-smi", "lspci", "powershell", "system_profiler"}
          /\ (t = "system_profiler" => host.os = "darwin") /\ (t = "rocm-smi" => host.os \in {"linux", "windows"})
      BY <3>2, ToolsOf
    <3>6. \E j \in DOMAIN Kinds(host, t, k) : Kinds(host, t, k)[j] \in Names(t)
      <4>1. CASE t = "nvidia-smi"
        BY <3>4, <4>1, KindsOf DEF Names
      <4>2. CASE t = "rocm-smi"
        <5>1. Kinds(host, t, k) = host.rocm
          BY <3>4, <4>2, KindsOf
        <5> QED
          BY <2>1, <3>5, <4>2, <5>1 DEF Names
      <4>3. CASE t \in {"lspci", "powershell"}
        <5>1. Kinds(host, t, k) = <<"junk", "controller">>
          BY <4>3, KindsOf
        <5>2. 2 \in DOMAIN Kinds(host, t, k) /\ Kinds(host, t, k)[2] = "controller"
          BY <5>1
        <5> QED
          BY <4>3, <5>2 DEF Names
      <4>4. CASE t = "system_profiler"
        BY <3>5, <4>4, KindsOf DEF Names
      <4> QED
        BY <3>5, <4>1, <4>2, <4>3, <4>4
    <3> QED
      BY <2>6, <3>1, <3>2, <3>6
  <2>8. "nvidia" \notin c.words
    <3> SUFFICES ASSUME "nvidia" \in c.words PROVE FALSE
      OBVIOUS
    <3>1. c.vendor = "nvidia" /\ "nvidia-smi" \in host.tools
      BY <2>1
    <3>2. PICK t \in Listing(k) : TRUE
      OBVIOUS
    <3>3. PICK s \in DOMAIN Tools : Tools[s] \in {"lspci", "powershell"}
      BY <2>7 DEF PassedOver
    <3>4. 1 \in DOMAIN Tools /\ Tools[1] = "nvidia-smi"
      BY <3>3, ToolsOf
    <3>5. Kinds(host, "nvidia-smi", k) = <<"csv">>
      BY <3>1, KindsOf
    <3>6. 1 \in DOMAIN Kinds(host, "nvidia-smi", k) /\ Kinds(host, "nvidia-smi", k)[1] \in Names("nvidia-smi")
      BY <3>5 DEF Names
    <3>7. PassedOver("nvidia-smi", c.words, AmdListed)
      BY <2>6, <3>1, <3>4, <3>6
    <3> QED
      BY <3>7 DEF PassedOver
  <2>9. ASSUME NEW t \in Listing(k)
        PROVE  t = "lspci" /\ c.words \cap {"amd", "radeon"} # {} /\ AmdListed /\ host.os = "linux"
    <3>1. PICK s \in DOMAIN Tools : Tools[s] = t /\ PassedOver(t, c.words, AmdListed)
      BY <2>7
    <3>2. t = "lspci" /\ c.words \cap {"amd", "radeon"} # {} /\ AmdListed
      BY <2>8, <3>1 DEF PassedOver
    <3> QED
      BY <3>1, <3>2, ToolsOf
  <2>10. Listing(k) = {"lspci"} /\ host.os = "linux" /\ c.words \cap {"amd", "radeon"} # {} /\ AmdListed
    BY <2>9
  <2> QED
    BY <2>2, <2>10 DEF AmdListed, Listed
<1> QED
  BY <1>1, ProbeInvariant, PTL
=============================================================================
