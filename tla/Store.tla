------------------------------- MODULE Store -------------------------------
(***************************************************************************)
(* The control plane's embedded key-value store                            *)
(* (internal/control-plane/store/store.go): an in-memory map behind one    *)
(* RWMutex, a line-oriented JSON write-ahead log that is appended to and   *)
(* fsynced before the map changes, and a replay of that log when the       *)
(* process starts.                                                         *)
(*                                                                         *)
(* The log file is `wal`, its complete lines, followed by `tail`, the      *)
(* bytes after the last newline.  A line is a record or Garbage (anything  *)
(* json.Unmarshal rejects).  `synced` lines and the tail `stail` are on    *)
(* the medium; what follows them is in the page cache only, which survives *)
(* the end of the process but not the loss of power.                       *)
(***************************************************************************)
EXTENDS Integers, Sequences, FiniteSets

CONSTANTS
    Procs,        \* goroutines that call the store: RPC handlers, heartbeat loop
    Keys,         \* non-empty keys
    NoKey,        \* the empty key
    Values,       \* stored values
    Oversize,     \* the values whose log line exceeds bufio.Scanner's 64 KiB token
    Absent,       \* no value under a key; the value field of a delete record
    NoProc,       \* nobody holds mu for writing
    NoTail,       \* the file ends with a newline
    Garbage,      \* bytes that do not decode as one record
    TornTail,     \* a power loss may cut the unsynced bytes in the middle of a line
    WriteFaults,  \* walFile.Write may fail, possibly after writing a part
    SyncFaults,   \* walFile.Sync may fail
    MaxLog,       \* bound: log lines
    MaxCrashes    \* bound: crashes and power losses

Records == [key : Keys, val : Values \cup {Absent}]
Lines == Records \cup {Garbage}

ASSUME StoreConstants ==
    /\ Absent \notin Values
    /\ NoKey \notin Keys
    /\ NoProc \notin Procs
    /\ NoTail \notin Lines
    /\ Garbage \notin Records
    /\ Oversize \subseteq Values
    /\ TornTail \in BOOLEAN /\ WriteFaults \in BOOLEAN /\ SyncFaults \in BOOLEAN
    /\ MaxLog \in Nat /\ MaxCrashes \in Nat

(* The environments the stronger guarantees hold in. *)
CleanWrites == ~TornTail /\ ~WriteFaults
FaultFree == CleanWrites /\ ~SyncFaults /\ Oversize = {}

VARIABLES
    wal,      \* the complete lines of store.wal
    tail,     \* the bytes after its last newline
    synced,   \* how many lines are on the medium
    stail,    \* the tail on the medium
    mode,     \* "down", "replay", "up", or "refused": New returned an error
    pos,      \* lines replayWAL has applied
    data,     \* Store.data
    open,     \* Store.walFile # nil
    writer,   \* who holds mu for writing
    pc, rec,  \* each caller's step and the record it appends
    acked,    \* history: [idx, rec] of the appends whose call returned nil
    crashes   \* crashes so far

vars == <<wal, tail, synced, stail, mode, pos, data, open, writer, pc, rec,
          acked, crashes>>

disk == <<wal, tail, synced, stail>>

Empty == [k \in Keys |-> Absent]

-----------------------------------------------------------------------------
(* The reference reading of a log: under each key, the value of its last   *)
(* record among the first n lines.                                         *)

RecordsOf(log, n, k) == {i \in 1..n : log[i] # Garbage /\ log[i].key = k}

(* The value of the last of those records: one value, or none. *)
LastValue(log, n, k) ==
    LET W == RecordsOf(log, n, k)
    IN  {log[i].val : i \in {j \in W : \A h \in W : h <= j}}

ValueIn(S) == IF S = {} THEN Absent ELSE CHOOSE v \in S : TRUE

Replayed(log, n) ==
    [k \in Keys |-> ValueIn(LastValue(log, n, k))]

(* Mutation: a record without a value is taken for a damaged one. *)
DecodesPuts(line) == line \in Records /\ line.val \notin Oversize \cup {Absent}

(* What replayWAL can decode: json.Unmarshal rejects Garbage, the scanner  *)
(* rejects a line longer than its token limit.                             *)
Decodes(line) == line \in Records /\ line.val \notin Oversize

Applied(d, r) == [d EXCEPT ![r.key] = r.val]

-----------------------------------------------------------------------------
Init ==
    /\ wal = << >> /\ tail = NoTail /\ synced = 0 /\ stail = NoTail
    /\ mode = "down" /\ pos = 0 /\ data = Empty /\ open = FALSE
    /\ writer = NoProc
    /\ pc = [p \in Procs |-> "idle"]
    /\ rec = [p \in Procs |-> [key |-> NoKey, val |-> Absent]]
    /\ acked = {} /\ crashes = 0

Return(p) == pc' = [pc EXCEPT ![p] = "idle"]

Room == Len(wal) + Cardinality({q \in Procs : pc[q] # "idle"}) < MaxLog

(* Mutation: the empty key is not rejected. *)
BeginAnyKey(p, k, v) ==
    /\ mode = "up" /\ pc[p] = "idle" /\ Room
    /\ rec' = [rec EXCEPT ![p] = [key |-> k, val |-> v]]
    /\ pc' = [pc EXCEPT ![p] = "lock"]
    /\ UNCHANGED <<disk, mode, pos, data, open, writer, acked, crashes>>

Begin(p, k, v) ==
    /\ mode = "up" /\ pc[p] = "idle" /\ Room
    /\ k # NoKey
    /\ rec' = [rec EXCEPT ![p] = [key |-> k, val |-> v]]
    /\ pc' = [pc EXCEPT ![p] = "lock"]
    /\ UNCHANGED <<disk, mode, pos, data, open, writer, acked, crashes>>

Put(p) == \E k \in Keys \cup {NoKey}, v \in Values : Begin(p, k, v)

Delete(p) == \E k \in Keys \cup {NoKey} : Begin(p, k, Absent)

(* Mutation: the lock admits several writers. *)
LockShared(p) ==
    /\ pc[p] = "lock"
    /\ writer' = p
    /\ pc' = [pc EXCEPT ![p] = "append"]
    /\ UNCHANGED <<disk, mode, pos, data, open, rec, acked, crashes>>

Lock(p) ==
    /\ pc[p] = "lock" /\ writer = NoProc
    /\ writer' = p
    /\ pc' = [pc EXCEPT ![p] = "append"]
    /\ UNCHANGED <<disk, mode, pos, data, open, rec, acked, crashes>>

(* appendRecord's Write.  The bytes go to the end of the file, so a record *)
(* appended behind an unterminated tail ends up on the tail's line.        *)
Write(p) ==
    /\ pc[p] = "append" /\ open
    /\ wal' = Append(wal, IF tail = NoTail THEN rec[p] ELSE Garbage)
    /\ tail' = NoTail
    /\ pc' = [pc EXCEPT ![p] = "sync"]
    /\ UNCHANGED <<synced, stail, mode, pos, data, open, writer, rec, acked, crashes>>

(* The tails a failed Write may leave: nothing more, a part of the line,   *)
(* or all of it but the newline.                                           *)
PartialTails(p) ==
    {tail, Garbage} \cup (IF tail = NoTail THEN {rec[p]} ELSE {})

(* Mutation: the append to a closed file is tried again. *)
WriteFailsRetry(p) == pc[p] = "append" /\ ~open /\ UNCHANGED vars

WriteFails(p) ==
    /\ pc[p] = "append"
    /\ \/ ~open /\ UNCHANGED tail
       \/ open /\ WriteFaults /\ tail' \in PartialTails(p)
    /\ writer' = NoProc /\ Return(p)
    /\ UNCHANGED <<wal, synced, stail, mode, pos, data, open, rec, acked, crashes>>

(* Mutation: appendRecord does not call Sync. *)
NoSync(p) ==
    /\ pc[p] = "sync"
    /\ pc' = [pc EXCEPT ![p] = "apply"]
    /\ UNCHANGED <<disk, mode, pos, data, open, writer, rec, acked, crashes>>

Sync(p) ==
    /\ pc[p] = "sync"
    /\ synced' = Len(wal) /\ stail' = tail
    /\ pc' = [pc EXCEPT ![p] = "apply"]
    /\ UNCHANGED <<wal, tail, mode, pos, data, open, writer, rec, acked, crashes>>

SyncFails(p) ==
    /\ pc[p] = "sync" /\ SyncFaults
    /\ writer' = NoProc /\ Return(p)
    /\ UNCHANGED <<disk, mode, pos, data, open, rec, acked, crashes>>

(* The map changes, the deferred Unlock runs, the caller gets nil. *)
Apply(p) ==
    /\ pc[p] = "apply"
    /\ data' = Applied(data, rec[p])
    /\ acked' = acked \cup {[idx |-> Len(wal), rec |-> rec[p]]}
    /\ writer' = NoProc /\ Return(p)
    /\ UNCHANGED <<disk, mode, pos, open, rec, crashes>>

Close ==
    /\ mode = "up" /\ writer = NoProc
    /\ open' = FALSE
    /\ UNCHANGED <<disk, mode, pos, data, writer, pc, rec, acked, crashes>>

(* Mutation: reads do not take RLock. *)
ReadersUnlocked == mode = "up"

(* Get and Keys hold RLock, so they run only while nobody holds Lock, and  *)
(* change nothing.                                                         *)
ReadersAdmitted == mode = "up" /\ writer = NoProc

Get(k) == data[k]

-----------------------------------------------------------------------------
(* The end of the process: everything but the file is gone. *)
Stop ==
    /\ mode # "down" /\ crashes < MaxCrashes
    /\ crashes' = crashes + 1
    /\ mode' = "down" /\ pos' = 0 /\ data' = Empty /\ open' = FALSE
    /\ writer' = NoProc
    /\ pc' = [p \in Procs |-> "idle"]
    /\ UNCHANGED <<rec, acked>>

Crash == Stop /\ UNCHANGED disk

(* The tails a power loss may leave behind the first n lines: the one on   *)
(* the medium, all that was written, or, if lines can tear, a part of what *)
(* followed.                                                               *)
TailsAfterLoss(n) ==
    LET rest    == IF n < Len(wal) THEN wal[n + 1] ELSE tail
        durable == IF n = synced THEN stail ELSE NoTail
    IN  {durable} \cup (IF n = Len(wal) THEN {tail} ELSE {})
                  \cup (IF TornTail /\ rest # durable THEN {Garbage, rest} ELSE {})

PowerLoss ==
    /\ Stop
    /\ \E n \in synced..Len(wal) :
          /\ wal' = SubSeq(wal, 1, n) /\ synced' = n
          /\ tail' \in TailsAfterLoss(n) /\ stail' = tail'

-----------------------------------------------------------------------------
(* New: open the file, replay it line by line, reopen it for appending.    *)
Restart ==
    /\ mode \in {"down", "refused"}
    /\ mode' = "replay" /\ pos' = 0 /\ data' = Empty
    /\ UNCHANGED <<disk, open, writer, pc, rec, acked, crashes>>

(* Mutation: a line that does not decode is skipped. *)
ReplaySkips ==
    /\ mode = "replay" /\ pos < Len(wal)
    /\ data' = IF Decodes(wal[pos + 1]) THEN Applied(data, wal[pos + 1]) ELSE data
    /\ pos' = pos + 1
    /\ UNCHANGED <<disk, mode, open, writer, pc, rec, acked, crashes>>

ReplayLine ==
    /\ mode = "replay" /\ pos < Len(wal)
    /\ Decodes(wal[pos + 1])
    /\ data' = Applied(data, wal[pos + 1])
    /\ pos' = pos + 1
    /\ UNCHANGED <<disk, mode, open, writer, pc, rec, acked, crashes>>

(* The scanner hands out a last line that lacks its newline as well. *)
FinishReplay ==
    /\ mode = "replay" /\ pos = Len(wal)
    /\ \/ tail = NoTail /\ UNCHANGED data
       \/ Decodes(tail) /\ data' = Applied(data, tail)
    /\ mode' = "up" /\ open' = TRUE
    /\ UNCHANGED <<disk, pos, writer, pc, rec, acked, crashes>>

RefuseReplay ==
    /\ mode = "replay"
    /\ \/ pos < Len(wal) /\ ~Decodes(wal[pos + 1])
       \/ pos = Len(wal) /\ tail # NoTail /\ ~Decodes(tail)
    /\ mode' = "refused" /\ data' = Empty
    /\ UNCHANGED <<disk, pos, open, writer, pc, rec, acked, crashes>>

-----------------------------------------------------------------------------
Steps(p) == Lock(p) \/ Write(p) \/ WriteFails(p) \/ Sync(p) \/ SyncFails(p) \/ Apply(p)

New == Restart \/ ReplayLine \/ FinishReplay \/ RefuseReplay

Next ==
    \/ \E p \in Procs : Put(p) \/ Delete(p) \/ Steps(p)
    \/ Close \/ Crash \/ PowerLoss \/ New

Spec == Init /\ [][Next]_vars

(* A started call keeps running, a started replay keeps reading, and Go's   *)
(* RWMutex hands the lock to every waiter in the end.  Nothing restarts    *)
(* the process by itself.                                                  *)
Fairness ==
    /\ WF_vars(ReplayLine \/ FinishReplay \/ RefuseReplay)
    /\ \A p \in Procs : WF_vars(Steps(p)) /\ SF_vars(Lock(p))

FairSpec == Spec /\ Fairness

-----------------------------------------------------------------------------
(* Every variable keeps its shape; only non-empty keys and known lines     *)
(* reach the log (Put and Delete reject the empty key).                    *)
TypeOK ==
    /\ wal \in Seq(Lines) /\ tail \in Lines \cup {NoTail}
    /\ synced \in 0..Len(wal) /\ stail \in Lines \cup {NoTail}
    /\ mode \in {"down", "replay", "up", "refused"} /\ pos \in 0..Len(wal)
    /\ data \in [Keys -> Values \cup {Absent}]
    /\ open \in BOOLEAN
    /\ writer \in Procs \cup {NoProc}
    /\ pc \in [Procs -> {"idle", "lock", "append", "sync", "apply"}]
    /\ rec \in [Procs -> [key : Keys \cup {NoKey}, val : Values \cup {Absent}]]
    /\ acked \subseteq [idx : Nat, rec : Records]
    /\ crashes \in 0..MaxCrashes

(* Once Put or Delete has returned nil its record is on the medium, whole  *)
(* and in its place, and stays there through every crash and power loss.   *)
AckedDurable == \A a \in acked : a.idx <= synced /\ wal[a.idx] = a.rec

(* "The in-memory map is just a cached projection of that sequence": what  *)
(* Get may return under RLock is what a replay of the log would rebuild,   *)
(* never the state of a half-done Put and never a write the log forgot.    *)
ReadsSeeLog == ReadersAdmitted => \A k \in Keys : Get(k) = Replayed(wal, Len(wal))[k]

(* Whatever fails (a torn line, a partial write, a failed fsync, a line    *)
(* too long to read back), New never skips an acknowledged write: when the *)
(* store is up, every one acknowledged before this start is in the lines   *)
(* that were replayed.  New refuses the log rather than lose a write.      *)
NoSilentLoss ==
    \A a \in acked :
        /\ a.idx <= synced
        /\ mode = "up" /\ a.idx <= pos => wal[a.idx] = a.rec

(* "Survive control-plane restarts and crashes": New never returns an      *)
(* error on a log the store itself wrote.                                  *)
NeverRefuses == mode # "refused"

(* Put and Delete return in the end, also after Close and after an I/O     *)
(* error: no path keeps mu locked.                                         *)
CallsReturn == \A p \in Procs : pc[p] # "idle" ~> pc[p] = "idle"

-----------------------------------------------------------------------------
(* The inductive invariant behind NoSilentLoss: mu excludes writers, the   *)
(* line a writer has appended is the last one, what has been replayed was  *)
(* decodable, and an acknowledged line is the record or was spoilt by the  *)
(* tail it was glued to.                                                   *)
Holding(p) == pc[p] \in {"append", "sync", "apply"}

Exclusion == \A p \in Procs : Holding(p) <=> writer = p

CallsWellFormed == \A p \in Procs : pc[p] # "idle" => rec[p] \in Records

LastLineIsMine ==
    \A p \in Procs :
        /\ pc[p] \in {"sync", "apply"} => wal # << >> /\ wal[Len(wal)] \in {rec[p], Garbage}
        /\ pc[p] = "apply" => synced = Len(wal)

ReplayedLinesDecode == \A i \in 1..pos : wal[i] \in Records

AckedKept == \A a \in acked : a.idx \in 1..synced /\ wal[a.idx] \in {a.rec, Garbage}

LogInv ==
    TypeOK /\ Exclusion /\ CallsWellFormed /\ LastLineIsMine
           /\ ReplayedLinesDecode /\ AckedKept

(* Without torn lines and partial writes every line is a record. *)
CleanLog == tail = NoTail /\ stail = NoTail /\ \A i \in 1..Len(wal) : wal[i] \in Records

(* Where the map stands relative to the log, step by step of a Put, a      *)
(* Delete and a replay.                                                    *)
MapTracksLog ==
    /\ mode # "up" => \A p \in Procs : pc[p] = "idle"
    /\ mode = "replay" => data = Replayed(wal, pos)
    /\ mode = "up" /\ (\A p \in Procs : pc[p] \notin {"sync", "apply"})
          => data = Replayed(wal, Len(wal))
    /\ \A p \in Procs : pc[p] \in {"sync", "apply"} => data = Replayed(wal, Len(wal) - 1)

ProjectionInv == LogInv /\ CleanLog /\ MapTracksLog /\ mode # "refused"

-----------------------------------------------------------------------------
(* The store implements the durable map of DurableKV: a call takes effect  *)
(* at Write, is safe at Sync and is acknowledged at Apply; the page cache  *)
(* decides what a power loss brings back.                                  *)
Current == Replayed(wal, Len(wal))

Recoverable == {Replayed(wal, n) : n \in synced..Len(wal)}

Phase(step) == CASE step = "idle" -> "idle"
                 [] step \in {"lock", "append"} -> "called"
                 [] step \in {"sync", "apply"} -> "applied"

CallStates == [p \in Procs |-> Phase(pc[p])]

KV == INSTANCE DurableKV WITH
        current <- Current, maybe <- Recoverable, st <- CallStates, req <- rec

Implements == KV!Spec
=============================================================================
