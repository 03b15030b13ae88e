---------------------------- MODULE StoreProofs ----------------------------
(***************************************************************************)
(* Machine-checked theorems about the store, for every set of callers,     *)
(* keys and values, every log length and every number of crashes.          *)
(***************************************************************************)
EXTENDS Store, SequenceTheorems, TLAPS

(* What PowerLoss leaves of the file: a prefix of the lines. *)
LEMMA Prefix ==
    ASSUME NEW S, NEW log \in Seq(S), NEW n \in 0..Len(log)
    PROVE  /\ SubSeq(log, 1, n) \in Seq(S)
           /\ Len(SubSeq(log, 1, n)) = n
           /\ \A i \in 1..n : SubSeq(log, 1, n)[i] = log[i]
<1>1. \A i \in 1..n : log[i] \in S
  OBVIOUS
<1> QED
  BY <1>1, SubSeqProperties

(* What Write leaves of the file: one line more, the others in place. *)
LEMMA Extended ==
    ASSUME NEW S, NEW log \in Seq(S), NEW r \in S
    PROVE  /\ Append(log, r) \in Seq(S)
           /\ Len(Append(log, r)) = Len(log) + 1
           /\ Append(log, r)[Len(log) + 1] = r
           /\ \A i \in 1..Len(log) : Append(log, r)[i] = log[i]
  OBVIOUS

(* The tails a power loss leaves are lines or nothing. *)
LEMMA LossTails ==
    ASSUME TypeOK, NEW n \in synced..Len(wal)
    PROVE  TailsAfterLoss(n) \subseteq Lines \cup {NoTail}
  BY DEF TypeOK, TailsAfterLoss, Lines

(* The initial state satisfies the log invariant. *)
LEMMA LogInit == Init => LogInv
<1> SUFFICES ASSUME Init PROVE LogInv
  OBVIOUS
<1>1. Empty \in [Keys -> Values \cup {Absent}] /\ 0 \in 0..MaxCrashes
  BY StoreConstants DEF Empty
<1>2. rec \in [Procs -> [key : Keys \cup {NoKey}, val : Values \cup {Absent}]]
  BY DEF Init
<1>3. pc \in [Procs -> {"idle", "lock", "append", "sync", "apply"}]
  BY DEF Init
<1>4. /\ wal = << >> /\ tail = NoTail /\ synced = 0 /\ stail = NoTail
      /\ mode = "down" /\ pos = 0 /\ data = Empty /\ open \in BOOLEAN
      /\ writer = NoProc /\ acked = {} /\ crashes = 0
  BY DEF Init
<1>5. wal \in Seq(Lines) /\ Len(wal) = 0
  BY <1>4
<1>6. TypeOK
  BY <1>1, <1>2, <1>3, <1>4, <1>5 DEF TypeOK
<1>7. Exclusion
  BY StoreConstants DEF Init, Exclusion, Holding
<1> QED
  BY <1>6, <1>7 DEF Init, LogInv, CallsWellFormed, LastLineIsMine, ReplayedLinesDecode, AckedKept

(* The volatile state a stopped process leaves is well typed. *)
LEMMA Stopped ==
    ASSUME Stop, crashes \in 0..MaxCrashes
    PROVE  /\ data' \in [Keys -> Values \cup {Absent}]
           /\ pc' \in [Procs -> {"idle", "lock", "append", "sync", "apply"}]
           /\ crashes' \in 0..MaxCrashes
           /\ open' \in BOOLEAN /\ mode' = "down" /\ pos' = 0 /\ writer' = NoProc
           /\ rec' = rec /\ acked' = acked
<1>1. data' \in [Keys -> Values \cup {Absent}]
  BY DEF Stop, Empty
<1>2. pc' \in [Procs -> {"idle", "lock", "append", "sync", "apply"}]
  BY DEF Stop
<1>3. crashes' \in 0..MaxCrashes
  BY StoreConstants DEF Stop
<1>4. open' \in BOOLEAN /\ mode' = "down" /\ pos' = 0 /\ writer' = NoProc
      /\ rec' = rec /\ acked' = acked
  BY DEF Stop
<1> QED
  BY <1>1, <1>2, <1>3, <1>4

(* Every step preserves the log invariant, whatever fails. *)
LEMMA LogStep == LogInv /\ [Next]_vars => LogInv'
<1> SUFFICES ASSUME LogInv, [Next]_vars PROVE LogInv'
  OBVIOUS
<1> USE StoreConstants
<1>1. ASSUME NEW p \in Procs, NEW k \in Keys \cup {NoKey}, NEW v \in Values \cup {Absent},
             Begin(p, k, v)
      PROVE  LogInv'
  BY <1>1 DEF LogInv, TypeOK, Exclusion, CallsWellFormed, LastLineIsMine,
     ReplayedLinesDecode, AckedKept, Holding, Begin, disk, Records
<1>2. ASSUME NEW p \in Procs, Lock(p) PROVE LogInv'
  BY <1>2 DEF LogInv, TypeOK, Exclusion, CallsWellFormed, LastLineIsMine,
     ReplayedLinesDecode, AckedKept, Holding, Lock, disk
<1>3. ASSUME NEW p \in Procs, Write(p) PROVE LogInv'
  <2> DEFINE line == IF tail = NoTail THEN rec[p] ELSE Garbage
  <2>1. line \in Lines /\ line \in {rec[p], Garbage} /\ wal \in Seq(Lines)
    BY <1>3 DEF LogInv, TypeOK, CallsWellFormed, Write, Lines
  <2>2. /\ wal' \in Seq(Lines) /\ Len(wal') = Len(wal) + 1 /\ wal'[Len(wal) + 1] = line
        /\ \A i \in 1..Len(wal) : wal'[i] = wal[i]
    BY <1>3, <2>1, Extended DEF Write
  <2> HIDE DEF line
  <2>3. TypeOK'
    BY <1>3, <2>2 DEF LogInv, TypeOK, Write
  <2>4. LastLineIsMine'
    BY <1>3, <2>1, <2>2 DEF LogInv, TypeOK, Exclusion, LastLineIsMine, Holding, Write
  <2>5. Exclusion' /\ CallsWellFormed'
    BY <1>3 DEF LogInv, TypeOK, Exclusion, CallsWellFormed, Holding, Write
  <2>6. ReplayedLinesDecode' /\ AckedKept'
    BY <1>3, <2>2 DEF LogInv, TypeOK, ReplayedLinesDecode, AckedKept, Write
  <2> QED
    BY <2>3, <2>4, <2>5, <2>6 DEF LogInv
<1>4. ASSUME NEW p \in Procs, WriteFails(p) PROVE LogInv'
  <2>1. tail' \in Lines \cup {NoTail}
    BY <1>4 DEF LogInv, TypeOK, CallsWellFormed, WriteFails, PartialTails, Lines
  <2> QED
    BY <1>4, <2>1 DEF LogInv, TypeOK, Exclusion, CallsWellFormed, LastLineIsMine,
       ReplayedLinesDecode, AckedKept, Holding, WriteFails, Return
<1>5. ASSUME NEW p \in Procs, Sync(p) PROVE LogInv'
  BY <1>5 DEF LogInv, TypeOK, Exclusion, CallsWellFormed, LastLineIsMine,
     ReplayedLinesDecode, AckedKept, Holding, Sync
<1>6. ASSUME NEW p \in Procs, SyncFails(p) PROVE LogInv'
  BY <1>6 DEF LogInv, TypeOK, Exclusion, CallsWellFormed, LastLineIsMine,
     ReplayedLinesDecode, AckedKept, Holding, SyncFails, Return, disk
<1>7. ASSUME NEW p \in Procs, Apply(p) PROVE LogInv'
  <2>1. rec[p] \in Records /\ synced = Len(wal) /\ Len(wal) \in 1..synced
        /\ wal[Len(wal)] \in {rec[p], Garbage}
    BY <1>7 DEF LogInv, TypeOK, CallsWellFormed, LastLineIsMine, Apply
  <2>2. AckedKept'
    BY <1>7, <2>1 DEF LogInv, TypeOK, AckedKept, Apply, disk
  <2>3. TypeOK'
    <3>1. data' \in [Keys -> Values \cup {Absent}]
      BY <1>7, <2>1 DEF LogInv, TypeOK, Apply, Applied, Records
    <3>2. acked' \subseteq [idx : Nat, rec : Records]
      BY <1>7, <2>1 DEF LogInv, TypeOK, Apply
    <3> QED
      BY <1>7, <3>1, <3>2 DEF LogInv, TypeOK, Apply, Return, disk
  <2> QED
    BY <1>7, <2>2, <2>3 DEF LogInv, TypeOK, Exclusion, CallsWellFormed, LastLineIsMine,
       ReplayedLinesDecode, Holding, Apply, Return, disk
<1>8. ASSUME Close PROVE LogInv'
  BY <1>8 DEF LogInv, TypeOK, Exclusion, CallsWellFormed, LastLineIsMine,
     ReplayedLinesDecode, AckedKept, Holding, Close, disk
<1>9. ASSUME Crash PROVE LogInv'
  <2>1. TypeOK'
    BY <1>9, Stopped DEF LogInv, TypeOK, Crash, disk
  <2> QED
    BY <1>9, <2>1 DEF LogInv, TypeOK, Exclusion, CallsWellFormed, LastLineIsMine,
       ReplayedLinesDecode, AckedKept, Holding, Crash, Stop, disk
<1>10. ASSUME PowerLoss PROVE LogInv'
  <2>1. PICK n \in synced..Len(wal) :
           /\ wal' = SubSeq(wal, 1, n) /\ synced' = n
           /\ tail' \in TailsAfterLoss(n) /\ stail' = tail'
    BY <1>10 DEF PowerLoss
  <2>2. /\ wal' \in Seq(Lines) /\ Len(wal') = n
        /\ \A i \in 1..n : wal'[i] = wal[i]
    BY <2>1, Prefix DEF LogInv, TypeOK
  <2>3. tail' \in Lines \cup {NoTail}
    BY <2>1, LossTails DEF LogInv
  <2>4. TypeOK'
    BY <1>10, <2>1, <2>2, <2>3, Stopped DEF LogInv, TypeOK, PowerLoss
  <2>5. AckedKept'
    BY <1>10, <2>1, <2>2 DEF LogInv, TypeOK, AckedKept, PowerLoss, Stop
  <2> QED
    BY <1>10, <2>4, <2>5 DEF LogInv, TypeOK, Exclusion, CallsWellFormed, LastLineIsMine,
       ReplayedLinesDecode, Holding, PowerLoss, Stop
<1>11. ASSUME Restart PROVE LogInv'
  BY <1>11 DEF LogInv, TypeOK, Exclusion, CallsWellFormed, LastLineIsMine,
     ReplayedLinesDecode, AckedKept, Holding, Restart, Empty, disk
<1>12. ASSUME ReplayLine PROVE LogInv'
  <2>1. wal[pos + 1] \in Records
    BY <1>12 DEF ReplayLine, Decodes
  <2>2. data' \in [Keys -> Values \cup {Absent}]
    BY <1>12, <2>1 DEF LogInv, TypeOK, ReplayLine, Applied, Records
  <2> QED
    BY <1>12, <2>1, <2>2 DEF LogInv, TypeOK, Exclusion, CallsWellFormed, LastLineIsMine,
       ReplayedLinesDecode, AckedKept, Holding, ReplayLine, disk
<1>13. ASSUME FinishReplay PROVE LogInv'
  <2>1. data' \in [Keys -> Values \cup {Absent}]
    BY <1>13 DEF LogInv, TypeOK, FinishReplay, Decodes, Applied, Records
  <2> QED
    BY <1>13, <2>1 DEF LogInv, TypeOK, Exclusion, CallsWellFormed, LastLineIsMine,
       ReplayedLinesDecode, AckedKept, Holding, FinishReplay, disk
<1>14. ASSUME RefuseReplay PROVE LogInv'
  BY <1>14 DEF LogInv, TypeOK, Exclusion, CallsWellFormed, LastLineIsMine,
     ReplayedLinesDecode, AckedKept, Holding, RefuseReplay, Empty, disk
<1>15. ASSUME UNCHANGED vars PROVE LogInv'
  BY <1>15 DEF LogInv, TypeOK, Exclusion, CallsWellFormed, LastLineIsMine,
     ReplayedLinesDecode, AckedKept, Holding, vars
<1> QED
  BY <1>1, <1>2, <1>3, <1>4, <1>5, <1>6, <1>7, <1>8, <1>9, <1>10, <1>11, <1>12, <1>13,
     <1>14, <1>15 DEF Next, Steps, New, Put, Delete

(* Type correctness: every call the store accepts writes a well-formed     *)
(* record under a non-empty key, in every environment.                     *)
THEOREM TypeCorrect == Spec => []TypeOK
<1>1. LogInv => TypeOK
  BY DEF LogInv
<1> QED
  BY LogInit, LogStep, <1>1, PTL DEF Spec

(* New never opens the store without a write it acknowledged, in every     *)
(* environment: torn lines, partial writes, failed fsyncs, long lines.     *)
THEOREM RefusesRatherThanLoses == Spec => []NoSilentLoss
<1>1. LogInv => NoSilentLoss
  BY StoreConstants DEF LogInv, TypeOK, ReplayedLinesDecode, AckedKept, NoSilentLoss
<1> QED
  BY LogInit, LogStep, <1>1, PTL DEF Spec

-----------------------------------------------------------------------------
(* Where appends are whole and lines cannot tear, every line of the file   *)
(* is a record; the fsync may still fail.                                  *)
LEMMA CleanStep ==
    ASSUME CleanWrites, LogInv, CleanLog, [Next]_vars
    PROVE  CleanLog'
<1> USE StoreConstants DEF CleanWrites
<1>1. ASSUME NEW p \in Procs, Write(p) PROVE CleanLog'
  <2>1. rec[p] \in Records /\ rec[p] \in Lines /\ wal \in Seq(Lines)
    BY <1>1 DEF LogInv, TypeOK, CallsWellFormed, Write, Lines
  <2>2. wal' = Append(wal, rec[p])
    BY <1>1 DEF CleanLog, Write
  <2>3. Len(wal') = Len(wal) + 1 /\ wal'[Len(wal) + 1] = rec[p]
        /\ \A i \in 1..Len(wal) : wal'[i] = wal[i]
    BY <2>1, <2>2, Extended
  <2> QED
    BY <1>1, <2>1, <2>3 DEF CleanLog, LogInv, TypeOK, Write
<1>2. ASSUME NEW p \in Procs, WriteFails(p) PROVE CleanLog'
  BY <1>2 DEF CleanLog, WriteFails
<1>3. ASSUME NEW p \in Procs, Sync(p) PROVE CleanLog'
  BY <1>3 DEF CleanLog, Sync
<1>4. ASSUME PowerLoss PROVE CleanLog'
  <2>1. PICK n \in synced..Len(wal) :
           /\ wal' = SubSeq(wal, 1, n) /\ tail' \in TailsAfterLoss(n) /\ stail' = tail'
    BY <1>4 DEF PowerLoss
  <2>2. Len(wal') = n /\ \A i \in 1..n : wal'[i] = wal[i]
    BY <2>1, Prefix DEF LogInv, TypeOK
  <2>3. TailsAfterLoss(n) = {NoTail}
    BY DEF TailsAfterLoss, CleanLog
  <2> QED
    BY <2>1, <2>2, <2>3 DEF CleanLog, LogInv, TypeOK
<1>5. ASSUME UNCHANGED disk PROVE CleanLog'
  BY <1>5 DEF CleanLog, disk
<1> QED
  BY <1>1, <1>2, <1>3, <1>4, <1>5 DEF Next, Steps, New, Put, Delete, Begin, Lock, SyncFails,
     Apply, Close, Crash, Restart, ReplayLine, FinishReplay, RefuseReplay, vars, disk

(* The initial file is empty. *)
LEMMA CleanInit == Init => CleanLog
  BY DEF Init, CleanLog

(* Durability: where appends are whole and lines cannot tear, a write that *)
(* returned nil is on the medium for good, whatever crashes, loses power   *)
(* or fails to sync afterwards.                                            *)
THEOREM AcknowledgedIsDurable ==
    ASSUME CleanWrites
    PROVE  Spec => []AckedDurable
<1>1. LogInv /\ CleanLog => AckedDurable
  BY StoreConstants DEF LogInv, TypeOK, CleanLog, AckedKept, AckedDurable
<1>2. LogInv /\ CleanLog /\ [Next]_vars => CleanLog'
  BY CleanStep
<1> QED
  BY LogInit, LogStep, CleanInit, <1>1, <1>2, PTL DEF Spec

-----------------------------------------------------------------------------
(* No line replayed: the empty map. *)
LEMMA ReplayNothing == ASSUME NEW log PROVE Replayed(log, 0) = Empty
<1>1. \A k : LastValue(log, 0, k) = {}
  BY DEF RecordsOf, LastValue
<1> QED
  BY <1>1 DEF Replayed, Empty, ValueIn

(* One more line: its record is applied to what the earlier lines say.     *)
LEMMA ReplayOne ==
    ASSUME NEW log, NEW n \in Nat, log[n + 1] \in Records
    PROVE  Replayed(log, n + 1) = Applied(Replayed(log, n), log[n + 1])
<1> DEFINE r == log[n + 1]
<1>1. r # Garbage /\ r.key \in Keys
  BY StoreConstants DEF Records
<1>2. n + 1 \in RecordsOf(log, n + 1, r.key)
  BY <1>1 DEF RecordsOf
<1>3. \A j \in RecordsOf(log, n + 1, r.key) : j <= n + 1 /\ j \in Int
  BY DEF RecordsOf
<1>4. LastValue(log, n + 1, r.key) = {r.val}
  BY <1>2, <1>3 DEF LastValue
<1>9. ValueIn({r.val}) = r.val
  BY DEF ValueIn
<1>5. ASSUME NEW k \in Keys, k # r.key
      PROVE  LastValue(log, n + 1, k) = LastValue(log, n, k)
  <2>1. RecordsOf(log, n + 1, k) = RecordsOf(log, n, k)
    BY <1>5 DEF RecordsOf
  <2> QED
    BY <2>1 DEF LastValue
<1>6. ASSUME NEW k \in Keys
      PROVE  Replayed(log, n + 1)[k] = Applied(Replayed(log, n), log[n + 1])[k]
  <2>1. CASE k = r.key
    BY <2>1, <1>4, <1>9 DEF Replayed, Applied
  <2>2. CASE k # r.key
    BY <2>2, <1>5 DEF Replayed, Applied
  <2> QED
    BY <2>1, <2>2
<1>7. Replayed(log, n + 1) = [k \in Keys |-> Replayed(log, n + 1)[k]]
  BY DEF Replayed
<1>8. Applied(Replayed(log, n), log[n + 1])
        = [k \in Keys |-> Applied(Replayed(log, n), log[n + 1])[k]]
  BY <1>1 DEF Replayed, Applied
<1> QED
  BY <1>6, <1>7, <1>8

(* Two files that agree on their first n lines replay them alike.          *)
LEMMA ReplayAgrees ==
    ASSUME NEW log, NEW log2, NEW n \in Nat, \A i \in 1..n : log[i] = log2[i]
    PROVE  Replayed(log, n) = Replayed(log2, n)
<1>1. ASSUME NEW k \in Keys
      PROVE  LastValue(log, n, k) = LastValue(log2, n, k)
  BY DEF LastValue, RecordsOf
<1> QED
  BY <1>1 DEF Replayed

(* The initial state satisfies the projection invariant. *)
LEMMA ProjectionInit == Init => ProjectionInv
<1> SUFFICES ASSUME Init PROVE ProjectionInv
  OBVIOUS
<1>1. MapTracksLog /\ mode # "refused"
  BY DEF Init, MapTracksLog
<1> QED
  BY <1>1, LogInit, CleanInit DEF ProjectionInv

(* Without faults every step keeps the map in step with the log.           *)
LEMMA ProjectionStep ==
    ASSUME FaultFree, ProjectionInv, [Next]_vars
    PROVE  ProjectionInv'
<1> USE StoreConstants
<1>1. LogInv /\ CleanLog /\ MapTracksLog /\ mode # "refused" /\ LogInv' /\ CleanLog'
  BY LogStep, CleanStep DEF ProjectionInv, FaultFree
<1>2. wal \in Seq(Lines) /\ Len(wal) \in Nat /\ pos \in 0..Len(wal)
  BY <1>1 DEF LogInv, TypeOK
<1> SUFFICES MapTracksLog' /\ mode' # "refused"
  BY <1>1 DEF ProjectionInv
<1>3. ASSUME NEW p \in Procs, NEW k \in Keys \cup {NoKey}, NEW v \in Values \cup {Absent},
             Begin(p, k, v)
      PROVE  MapTracksLog' /\ mode' # "refused"
  BY <1>1, <1>3 DEF LogInv, TypeOK, MapTracksLog, Begin, disk
<1>4. ASSUME NEW p \in Procs, Lock(p) PROVE MapTracksLog' /\ mode' # "refused"
  BY <1>1, <1>4 DEF LogInv, TypeOK, MapTracksLog, Lock, disk
<1>5. ASSUME NEW p \in Procs, Write(p) PROVE MapTracksLog' /\ mode' # "refused"
  <2>1. rec[p] \in Lines /\ wal' = Append(wal, rec[p])
    BY <1>1, <1>5 DEF LogInv, CallsWellFormed, CleanLog, Write, Lines
  <2>2. Len(wal') = Len(wal) + 1 /\ \A i \in 1..Len(wal) : wal'[i] = wal[i]
    BY <1>2, <2>1, Extended
  <2>3. Replayed(wal', Len(wal)) = Replayed(wal, Len(wal))
    BY <1>2, <2>2, ReplayAgrees
  <2>4. mode = "up" /\ \A q \in Procs : pc[q] \notin {"sync", "apply"}
    BY <1>1, <1>5 DEF LogInv, TypeOK, Exclusion, Holding, MapTracksLog, Write
  <2>5. data' = Replayed(wal', Len(wal') - 1)
    BY <1>1, <1>2, <1>5, <2>2, <2>3, <2>4 DEF MapTracksLog, Write
  <2> QED
    BY <1>1, <1>5, <2>4, <2>5 DEF LogInv, TypeOK, MapTracksLog, Write
<1>6. ASSUME NEW p \in Procs, WriteFails(p) PROVE MapTracksLog' /\ mode' # "refused"
  BY <1>1, <1>6 DEF LogInv, TypeOK, MapTracksLog, WriteFails, Return
<1>7. ASSUME NEW p \in Procs, Sync(p) PROVE MapTracksLog' /\ mode' # "refused"
  BY <1>1, <1>7 DEF LogInv, TypeOK, MapTracksLog, Sync
<1>8. ASSUME NEW p \in Procs, SyncFails(p) PROVE MapTracksLog' /\ mode' # "refused"
  BY <1>8 DEF SyncFails, FaultFree
<1>9. ASSUME NEW p \in Procs, Apply(p) PROVE MapTracksLog' /\ mode' # "refused"
  <2>1. /\ wal # << >> /\ wal[Len(wal)] = rec[p] /\ rec[p] \in Records
        /\ data = Replayed(wal, Len(wal) - 1)
    BY <1>1, <1>2, <1>9 DEF LogInv, CallsWellFormed, LastLineIsMine, CleanLog, MapTracksLog, Apply
  <2>2. Len(wal) - 1 \in Nat /\ (Len(wal) - 1) + 1 = Len(wal)
    BY <1>2, <2>1
  <2>3. Replayed(wal, (Len(wal) - 1) + 1)
          = Applied(Replayed(wal, Len(wal) - 1), wal[(Len(wal) - 1) + 1])
    BY <2>1, <2>2, ReplayOne
  <2>4. data' = Replayed(wal', Len(wal'))
    BY <1>9, <2>1, <2>2, <2>3 DEF Apply, disk
  <2>5. mode = "up" /\ \A q \in Procs : q # p => pc[q] \notin {"sync", "apply"}
    BY <1>1, <1>9 DEF LogInv, TypeOK, Exclusion, Holding, MapTracksLog, Apply
  <2> QED
    BY <1>1, <1>9, <2>4, <2>5 DEF LogInv, TypeOK, MapTracksLog, Apply, Return
<1>10. ASSUME Close PROVE MapTracksLog' /\ mode' # "refused"
  BY <1>1, <1>10 DEF MapTracksLog, Close, disk
<1>11. ASSUME Stop PROVE MapTracksLog' /\ mode' # "refused"
  BY <1>11 DEF MapTracksLog, Stop
<1>12. ASSUME Restart PROVE MapTracksLog' /\ mode' # "refused"
  BY <1>1, <1>12, ReplayNothing DEF MapTracksLog, Restart, disk
<1>13. ASSUME ReplayLine PROVE MapTracksLog' /\ mode' # "refused"
  <2>1. data' = Replayed(wal', pos')
    BY <1>1, <1>2, <1>13, ReplayOne DEF MapTracksLog, ReplayLine, Decodes, disk
  <2> QED
    BY <1>1, <1>13, <2>1 DEF MapTracksLog, ReplayLine
<1>14. ASSUME FinishReplay PROVE MapTracksLog' /\ mode' # "refused"
  <2>1. tail = NoTail /\ ~Decodes(tail)
    BY <1>1 DEF CleanLog, Decodes, Lines
  <2> QED
    BY <1>1, <1>14, <2>1 DEF MapTracksLog, FinishReplay, disk
<1>15. ~RefuseReplay
  <2>1. tail = NoTail /\ (pos < Len(wal) => wal[pos + 1] \in Records)
    BY <1>1, <1>2 DEF CleanLog
  <2> QED
    BY <2>1 DEF RefuseReplay, Decodes, FaultFree
<1>16. ASSUME UNCHANGED vars PROVE MapTracksLog' /\ mode' # "refused"
  BY <1>1, <1>16 DEF MapTracksLog, vars
<1> QED
  BY <1>3, <1>4, <1>5, <1>6, <1>7, <1>8, <1>9, <1>10, <1>11, <1>12, <1>13, <1>14, <1>15,
     <1>16 DEF Next, Steps, New, Put, Delete, Crash, PowerLoss

(* Linearizable reads: without faults, what a reader sees under RLock is   *)
(* always the replay of the log, through any interleaving of callers and   *)
(* any crash.                                                              *)
THEOREM ReadsAreProjections ==
    ASSUME FaultFree
    PROVE  Spec => []ReadsSeeLog
<1>1. ASSUME ProjectionInv PROVE ReadsSeeLog
  BY <1>1, StoreConstants DEF ProjectionInv, LogInv, Exclusion, Holding, MapTracksLog,
     ReadsSeeLog, ReadersAdmitted, Get
<1>2. ProjectionInv => ReadsSeeLog
  BY <1>1
<1>3. ProjectionInv /\ [Next]_vars => ProjectionInv'
  BY ProjectionStep
<1> QED
  BY ProjectionInit, <1>2, <1>3, PTL DEF Spec

(* Recoverability: without faults New never refuses the log.               *)
THEOREM AlwaysRecovers ==
    ASSUME FaultFree
    PROVE  Spec => []NeverRefuses
<1>1. ProjectionInv => NeverRefuses
  BY DEF ProjectionInv, NeverRefuses
<1>2. ProjectionInv /\ [Next]_vars => ProjectionInv'
  BY ProjectionStep
<1> QED
  BY ProjectionInit, <1>1, <1>2, PTL DEF Spec


-----------------------------------------------------------------------------
(* A step that leaves the file and the callers alone is not seen by them. *)
LEMMA Unseen ==
    ASSUME UNCHANGED <<wal, synced, rec>>
    PROVE  Current' = Current /\ Recoverable' = Recoverable /\ rec' = rec
  BY DEF Current, Recoverable

(* A caller's step is the only one that changes. *)
LEMMA PhaseMoves ==
    ASSUME NEW p \in Procs, NEW s, pc' = [pc EXCEPT ![p] = s], DOMAIN pc = Procs
    PROVE  CallStates' = [CallStates EXCEPT ![p] = Phase(s)]
  BY DEF CallStates

(* The phases of a call. *)
LEMMA Phases ==
    /\ Phase("idle") = "idle"
    /\ Phase("lock") = "called" /\ Phase("append") = "called"
    /\ Phase("sync") = "applied" /\ Phase("apply") = "applied"
  BY DEF Phase

(* The empty log is the empty map. *)
LEMMA ImplementsInit == Init => KV!Init
<1> SUFFICES ASSUME Init PROVE KV!Init
  OBVIOUS
<1>1. wal = << >> /\ synced = 0 /\ Len(wal) = 0
  BY DEF Init
<1>2. Current = Empty
  BY <1>1, ReplayNothing DEF Current
<1>3. Recoverable = {Current}
  BY <1>1 DEF Recoverable, Current
<1>4. CallStates = [p \in Procs |-> "idle"]
  BY Phases DEF Init, CallStates
<1>5. \A p \in Procs : rec[p].val = Absent
  BY DEF Init
<1> QED
  BY <1>2, <1>3, <1>4, <1>5 DEF KV!Init, Empty

(* Write is where an update takes effect; only the new line's map joins    *)
(* those a power loss may bring back.                                      *)
LEMMA WriteCommits ==
    ASSUME LogInv, CleanLog, NEW p \in Procs, Write(p)
    PROVE  KV!Commit(p)
<1> USE StoreConstants
<1>1. rec[p] \in Records /\ rec[p] \in Lines /\ wal \in Seq(Lines) /\ Len(wal) \in Nat /\ synced \in 0..Len(wal)
  BY DEF LogInv, TypeOK, CallsWellFormed, Write, Lines
<1>2. wal' = Append(wal, rec[p]) /\ synced' = synced /\ rec' = rec
  BY DEF CleanLog, Write
<1>3. Len(wal') = Len(wal) + 1 /\ wal'[Len(wal) + 1] = rec[p] /\ \A i \in 1..Len(wal) : wal'[i] = wal[i]
  BY <1>1, <1>2, Extended
<1>4. \A n \in 0..Len(wal) : Replayed(wal', n) = Replayed(wal, n)
  <2> TAKE n \in 0..Len(wal)
  <2>1. n \in Nat /\ \A i \in 1..n : wal'[i] = wal[i]
    BY <1>1, <1>3
  <2> QED
    BY <2>1, ReplayAgrees
<1>5. Current' = [Current EXCEPT ![rec[p].key] = rec[p].val]
  <2>1. Replayed(wal', Len(wal) + 1) = Applied(Replayed(wal', Len(wal)), rec[p])
    BY <1>1, <1>3, ReplayOne
  <2>2. Replayed(wal', Len(wal)) = Replayed(wal, Len(wal))
    BY <1>1, <1>4
  <2> QED
    BY <1>3, <2>1, <2>2 DEF Current, Applied
<1>6. Recoverable' = Recoverable \cup {Current'}
  <2> DEFINE m == Len(wal)
             R(n) == Replayed(wal, n)
             R2(n) == Replayed(wal', n)
  <2>1. Recoverable' = {R2(n) : n \in synced..(m + 1)} /\ Recoverable = {R(n) : n \in synced..m} /\ Current' = R2(m + 1)
    BY <1>2, <1>3 DEF Recoverable, Current
  <2>2. m \in Nat /\ synced \in 0..m /\ \A n \in 0..m : R2(n) = R(n)
    BY <1>1, <1>4
  <2> HIDE DEF m, R, R2
  <2>3. synced..(m + 1) = (synced..m) \cup {m + 1}
    BY <2>2
  <2>4. \A n \in synced..m : R2(n) = R(n)
    BY <2>2
  <2> QED
    BY <2>1, <2>3, <2>4
<1>7. /\ CallStates[p] = "called" /\ \A q \in Procs : CallStates[q] # "applied"
      /\ CallStates' = [CallStates EXCEPT ![p] = "applied"]
  <2>1. \A q \in Procs : pc[q] \in {"idle", "lock", "append"}
    BY DEF LogInv, TypeOK, Exclusion, Holding, Write
  <2>2. pc[p] = "append"
    BY DEF Write
  <2>3. pc' = [pc EXCEPT ![p] = "sync"] /\ DOMAIN pc = Procs
    BY DEF LogInv, TypeOK, Write
  <2> QED
    BY <2>1, <2>2, <2>3, PhaseMoves, Phases DEF CallStates
<1> QED
  BY <1>2, <1>5, <1>6, <1>7 DEF KV!Commit

(* What a power loss leaves is one of the maps it may bring back. *)
LEMMA LossIsCrash ==
    ASSUME LogInv, PowerLoss
    PROVE  KV!Crash
<1>1. PICK n \in synced..Len(wal) : wal' = SubSeq(wal, 1, n) /\ synced' = n
  BY DEF PowerLoss
<1>2. wal \in Seq(Lines) /\ n \in 0..Len(wal) /\ n \in Nat
  BY <1>1 DEF LogInv, TypeOK
<1>3. Len(wal') = n /\ \A i \in 1..n : wal'[i] = wal[i]
  BY <1>1, <1>2, Prefix
<1>4. Replayed(wal', n) = Replayed(wal, n)
  BY <1>2, <1>3, ReplayAgrees
<1>5. Current' = Replayed(wal, n) /\ Current' \in Recoverable
  BY <1>1, <1>3, <1>4 DEF Current, Recoverable
<1>6. Recoverable' = {Current'}
  BY <1>1, <1>2, <1>3 DEF Recoverable, Current
<1>7. CallStates' = [p \in Procs |-> "idle"] /\ rec' = rec
  BY Phases DEF PowerLoss, Stop, CallStates
<1> QED
  BY <1>5, <1>6, <1>7 DEF KV!Crash

(* Every step of the store is a step of the durable map, or none.          *)
LEMMA ImplementsStep ==
    ASSUME CleanWrites, ~SyncFaults, LogInv, CleanLog, [Next]_vars
    PROVE  [KV!Next]_KV!kvars
<1> USE StoreConstants
<1>0. DOMAIN pc = Procs /\ Len(wal) \in Nat /\ synced \in 0..Len(wal)
  BY DEF LogInv, TypeOK
<1>1. ASSUME UNCHANGED <<wal, synced, rec, pc>> PROVE UNCHANGED KV!kvars
  BY <1>1, Unseen DEF KV!kvars, CallStates
<1>2. ASSUME NEW p \in Procs, NEW k \in Keys \cup {NoKey}, NEW v \in Values \cup {Absent}, Begin(p, k, v)
      PROVE  KV!Call(p)
  <2>1. k \in Keys /\ UNCHANGED <<wal, synced>> /\ pc[p] = "idle" /\ pc' = [pc EXCEPT ![p] = "lock"]
        /\ rec' = [rec EXCEPT ![p] = [key |-> k, val |-> v]]
    BY <1>2 DEF Begin, disk
  <2>2. Current' = Current /\ Recoverable' = Recoverable
    BY <2>1 DEF Current, Recoverable
  <2>3. CallStates[p] = "idle" /\ CallStates' = [CallStates EXCEPT ![p] = "called"]
    BY <1>0, <2>1, PhaseMoves, Phases DEF CallStates
  <2> QED
    BY <2>1, <2>2, <2>3 DEF KV!Call
<1>3. ASSUME NEW p \in Procs, Lock(p) PROVE UNCHANGED KV!kvars
  <2>1. pc[p] = "lock" /\ pc' = [pc EXCEPT ![p] = "append"] /\ UNCHANGED <<wal, synced, rec>>
    BY <1>3 DEF Lock, disk
  <2>2. \A q \in Procs : Phase(pc'[q]) = Phase(pc[q])
    BY <1>0, <2>1, Phases
  <2>3. CallStates' = CallStates
    BY <2>2 DEF CallStates
  <2> QED
    BY <2>1, <2>3, Unseen DEF KV!kvars
<1>4. ASSUME NEW p \in Procs, Write(p) PROVE KV!Commit(p)
  BY <1>4, WriteCommits
<1>5. ASSUME NEW p \in Procs, WriteFails(p) PROVE KV!Fail(p)
  <2>1. pc[p] = "append" /\ pc' = [pc EXCEPT ![p] = "idle"] /\ UNCHANGED <<wal, synced, rec>>
    BY <1>5 DEF WriteFails, Return
  <2>2. CallStates[p] = "called" /\ CallStates' = [CallStates EXCEPT ![p] = "idle"]
    BY <1>0, <2>1, PhaseMoves, Phases DEF CallStates
  <2> QED
    BY <2>1, <2>2, Unseen DEF KV!Fail
<1>6. ASSUME NEW p \in Procs, Sync(p) PROVE KV!Flush
  <2>1. pc[p] = "sync" /\ pc' = [pc EXCEPT ![p] = "apply"] /\ UNCHANGED <<wal, rec>> /\ synced' = Len(wal)
    BY <1>6 DEF Sync
  <2>2. \A q \in Procs : Phase(pc'[q]) = Phase(pc[q])
    BY <1>0, <2>1, Phases
  <2>3. CallStates' = CallStates
    BY <2>2 DEF CallStates
  <2>4. Recoverable' = {Current} /\ Current' = Current
    BY <1>0, <2>1 DEF Recoverable, Current
  <2> QED
    BY <2>1, <2>3, <2>4 DEF KV!Flush
<1>7. ASSUME NEW p \in Procs, Apply(p) PROVE KV!Ack(p)
  <2>1. pc[p] = "apply" /\ pc' = [pc EXCEPT ![p] = "idle"] /\ UNCHANGED <<wal, synced, rec>>
    BY <1>7 DEF Apply, Return, disk
  <2>2. CallStates[p] = "applied" /\ CallStates' = [CallStates EXCEPT ![p] = "idle"]
    BY <1>0, <2>1, PhaseMoves, Phases DEF CallStates
  <2>3. synced = Len(wal)
    BY <2>1 DEF LogInv, LastLineIsMine
  <2>4. Recoverable = {Current}
    BY <1>0, <2>3 DEF Recoverable, Current
  <2> QED
    BY <2>1, <2>2, <2>4, Unseen DEF KV!Ack
<1>8. ASSUME Crash PROVE KV!Crash
  <2>1. UNCHANGED <<wal, synced, rec>> /\ pc' = [p \in Procs |-> "idle"]
    BY <1>8 DEF Crash, Stop, disk
  <2>2. CallStates' = [p \in Procs |-> "idle"]
    BY <2>1, Phases DEF CallStates
  <2> QED
    BY <2>1, <2>2, Unseen DEF KV!Crash
<1>9. ASSUME PowerLoss PROVE KV!Crash
  BY <1>9, LossIsCrash
<1>10. ASSUME Close \/ New \/ UNCHANGED vars PROVE UNCHANGED KV!kvars
  <2>1. UNCHANGED <<wal, synced, rec, pc>>
    BY <1>10 DEF Close, New, Restart, ReplayLine, FinishReplay, RefuseReplay, disk, vars
  <2> QED
    BY <1>1, <2>1
<1>11. ASSUME NEW p \in Procs PROVE ~SyncFails(p)
  BY DEF SyncFails
<1>12. CASE \E p \in Procs : Put(p) \/ Delete(p)
  <2>1. \E p \in Procs : KV!Call(p)
    BY <1>2, <1>12 DEF Put, Delete
  <2> QED
    BY <2>1 DEF KV!Next
<1>13. CASE \E p \in Procs : Steps(p)
  <2> PICK p \in Procs : Steps(p)
    BY <1>13
  <2>1. CASE Lock(p)
    BY <1>3, <2>1
  <2>2. CASE Write(p) \/ WriteFails(p) \/ Sync(p) \/ Apply(p)
    BY <1>4, <1>5, <1>6, <1>7, <2>2 DEF KV!Next
  <2> QED
    BY <1>11, <2>1, <2>2 DEF Steps
<1>14. CASE Crash \/ PowerLoss
  BY <1>8, <1>9, <1>14 DEF KV!Next
<1> QED
  BY <1>10, <1>12, <1>13, <1>14 DEF Next

(* The store is a durable map: where appends are whole, lines cannot tear  *)
(* and Sync does not fail, every behaviour of the log, the lock, the       *)
(* crashes and the replay is one of DurableKV, in which updates take       *)
(* effect one at a time and an acknowledged one is never undone.           *)
THEOREM StoreImplementsMap ==
    ASSUME CleanWrites, ~SyncFaults
    PROVE  Spec => Implements
<1>1. LogInv /\ CleanLog /\ [Next]_vars => CleanLog'
  BY CleanStep
<1>2. LogInv /\ CleanLog /\ [Next]_vars => [KV!Next]_KV!kvars
  BY ImplementsStep
<1> QED
  BY LogInit, LogStep, CleanInit, ImplementsInit, <1>1, <1>2, PTL DEF Spec, Implements, KV!Spec
=============================================================================
