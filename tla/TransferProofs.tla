--------------------------- MODULE TransferProofs ---------------------------
(***************************************************************************)
(* Machine-checked theorems about the model file transfer, for any number  *)
(* of uploads, downloads, names and files, with power losses and resumed   *)
(* downloads.                                                              *)
(***************************************************************************)
EXTENDS Transfer, SequenceTheorems, TLAPS

(* The history knows files, and every file it saw last is a committed one. *)
HistoryOK ==
    /\ committed \subseteq Files
    /\ last \in [Names -> committed \cup {Absent}]

(* A name the kernel has still to write back has a file. *)
DirtyFiles == \A n \in dirty : files[n] # Absent

(* An upload that receives has its temporary file; one that was validated  *)
(* has the declared file in it.                                            *)
UploadsOK ==
    \A u \in Uploads :
        /\ up[u] = "recv" => temps[u] # Absent
        /\ up[u] = "valid" => temps[u] = declared[u]

(* A download sends from the offset of what the agent has; the file it has *)
(* open is a committed one and what was sent is a prefix of it, all of it  *)
(* once the download is complete.                                          *)
StreamsOK ==
    \A d \in Downloads :
        /\ dl[d] = "new" => got[d] = << >>
        /\ dl[d] = "open" => off[d] = Len(got[d])
        /\ dl[d] # "new" /\ d \notin tainted =>
              /\ fd[d] \in committed
              /\ Len(got[d]) <= Len(fd[d])
              /\ \A i \in 1..Len(got[d]) : got[d][i] = fd[d][i]
              /\ dl[d] = "complete" => Len(got[d]) = Len(fd[d])

(* The inductive invariant of the transfer. *)
TransferInv ==
    TypeOK /\ HistoryOK /\ DirtyFiles /\ UploadsOK /\ StreamsOK /\ WholeFiles /\ TempsOwned

(* One block more, the others in place. *)
LEMMA OneMore ==
    ASSUME NEW S, NEW s \in Seq(S), NEW b \in S
    PROVE  /\ Append(s, b) \in Seq(S) /\ Len(s) \in Nat /\ Len(Append(s, b)) = Len(s) + 1
           /\ Append(s, b)[Len(s) + 1] = b
           /\ \A i \in 1..Len(s) : Append(s, b)[i] = s[i]
  OBVIOUS

(* What a power loss leaves of a file: a prefix of it. *)
LEMMA CutShort ==
    ASSUME NEW S, NEW s \in Seq(S), NEW k \in Nat, k < Len(s)
    PROVE  SubSeq(s, 1, k) \in Seq(S)
<1>1. \A i \in 1..k : s[i] \in S
  OBVIOUS
<1> QED
  BY <1>1, SubSeqProperties

(* The files clients upload are sequences of blocks. *)
LEMMA FilesAreSeqs == Files \subseteq Seq(Blocks)
  BY TransferConstants

(* The empty model directory satisfies the invariant. *)
LEMMA TransferInit == Init => TransferInv
<1> SUFFICES ASSUME Init PROVE TransferInv
  OBVIOUS
<1>1. << >> \in Seq(Blocks) /\ Len(<< >>) = 0
  OBVIOUS
<1>2. fd \in [Downloads -> Seq(Blocks)] /\ got \in [Downloads -> Seq(Blocks)]
  BY <1>1 DEF Init
<1>3. stops \in 0..MaxStops
  BY TransferConstants DEF Init
<1>4. TypeOK
  BY <1>2, <1>3 DEF Init, TypeOK
<1>5. StreamsOK
  BY <1>1 DEF Init, StreamsOK
<1>6. HistoryOK
  BY DEF Init, HistoryOK
<1> QED
  BY <1>4, <1>5, <1>6 DEF Init, TransferInv, DirtyFiles, UploadsOK, WholeFiles, TempsOwned

(* A step of an upload that leaves the model directory and the downloads   *)
(* alone only has to keep the uploads in order.                            *)
LEMMA UploadSteps ==
    ASSUME TransferInv,
           UNCHANGED <<files, dirty, name, declared, downloadVars, history>>,
           temps' \in [Uploads -> Seq(Blocks) \cup {Absent}],
           \A u \in Uploads : temps'[u] \notin {Absent, << >>} => temps'[u][1] \notin Bad,
           up' \in [Uploads -> {"new", "recv", "valid", "done", "failed"}],
           UploadsOK', TempsOwned'
    PROVE  TransferInv'
<1> USE DEF TransferInv, downloadVars, history
<1>1. TypeOK'
  BY DEF TypeOK
<1>2. HistoryOK' /\ DirtyFiles' /\ WholeFiles'
  BY DEF HistoryOK, DirtyFiles, WholeFiles
<1>3. StreamsOK'
  BY DEF StreamsOK
<1> QED
  BY <1>1, <1>2, <1>3

(* The deferred function of a failing upload removes its temporary file. *)
LEMMA Failing ==
    ASSUME TransferInv, NEW u \in Uploads, Fail(u)
    PROVE  /\ temps' \in [Uploads -> Seq(Blocks) \cup {Absent}]
           /\ \A v \in Uploads : temps'[v] \notin {Absent, << >>} => temps'[v][1] \notin Bad
           /\ up' \in [Uploads -> {"new", "recv", "valid", "done", "failed"}]
           /\ declared' = declared => UploadsOK'
           /\ crashed' = crashed => TempsOwned'
<1> USE DEF TransferInv
<1>1. /\ temps'[u] = Absent /\ up'[u] = "failed"
      /\ \A v \in Uploads : v # u => temps'[v] = temps[v] /\ up'[v] = up[v]
  BY DEF Fail, TypeOK
<1>2. /\ temps' \in [Uploads -> Seq(Blocks) \cup {Absent}]
      /\ up' \in [Uploads -> {"new", "recv", "valid", "done", "failed"}]
  BY DEF Fail, TypeOK
<1>3. \A v \in Uploads : temps'[v] \notin {Absent, << >>} => temps'[v][1] \notin Bad
  BY <1>1 DEF TypeOK
<1>4. declared' = declared => UploadsOK'
  BY <1>1 DEF UploadsOK
<1>5. crashed' = crashed => TempsOwned'
  BY <1>1 DEF TempsOwned
<1> QED
  BY <1>2, <1>3, <1>4, <1>5

(* Every step of an upload preserves the invariant. *)
LEMMA UploadStep == ASSUME TransferInv, NEW u \in Uploads, UploadModel(u) PROVE TransferInv'
<1> USE TransferConstants DEF TransferInv
<1>1. ASSUME BeginUpload(u) PROVE TransferInv'
  <2>1. /\ temps' \in [Uploads -> Seq(Blocks) \cup {Absent}]
        /\ temps'[u] = << >> /\ up'[u] = "recv" /\ temps'[u] # Absent
        /\ \A v \in Uploads : v # u => temps'[v] = temps[v] /\ up'[v] = up[v]
    <3>1. << >> \in Seq(Blocks) /\ Absent \notin Seq(Blocks)
      OBVIOUS
    <3> QED
      BY <1>1, <3>1 DEF BeginUpload, TypeOK
  <2>2. up' \in [Uploads -> {"new", "recv", "valid", "done", "failed"}]
    BY <1>1 DEF BeginUpload, TypeOK
  <2>3. \A v \in Uploads : temps'[v] \notin {Absent, << >>} => temps'[v][1] \notin Bad
    BY <2>1 DEF TypeOK
  <2>4. UploadsOK' /\ TempsOwned'
    BY <1>1, <2>1 DEF BeginUpload, UploadsOK, TempsOwned, history
  <2> QED
    BY <1>1, <2>1, <2>2, <2>3, <2>4, UploadSteps DEF BeginUpload
<1>2. ASSUME NEW b \in Blocks, ReceiveChunk(u, b) PROVE TransferInv'
  <2>1. CASE Fail(u)
    BY <1>2, <2>1, Failing, UploadSteps DEF ReceiveChunk, history
  <2>2. CASE /\ ~(temps[u] = << >> /\ b \in Bad)
             /\ temps' = [temps EXCEPT ![u] = Append(@, b)] /\ UNCHANGED up
    <3>1. temps[u] \in Seq(Blocks) /\ up[u] = "recv"
      BY <1>2 DEF ReceiveChunk, TypeOK, UploadsOK
    <3>2. /\ temps'[u] \in Seq(Blocks) /\ temps'[u] # Absent
          /\ temps' \in [Uploads -> Seq(Blocks) \cup {Absent}]
          /\ \A v \in Uploads : v # u => temps'[v] = temps[v]
      <4>1. Append(temps[u], b) \in Seq(Blocks) /\ Append(temps[u], b) # Absent
        BY <3>1, OneMore
      <4> QED
        BY <2>2, <4>1 DEF TypeOK
    <3>3. temps'[u][1] \notin Bad
      <4>1. CASE temps[u] = << >>
        BY <2>2, <3>1, <4>1 DEF TypeOK
      <4>2. CASE temps[u] # << >>
        <5>1. temps[u][1] \notin Bad /\ 1 \in 1..Len(temps[u])
          BY <3>1, <4>2, EmptySeq DEF TypeOK
        <5>2. temps'[u][1] = temps[u][1]
          BY <2>2, <3>1, <5>1, OneMore DEF TypeOK
        <5> QED
          BY <5>1, <5>2
      <4> QED
        BY <4>1, <4>2
    <3>4. \A v \in Uploads : temps'[v] \notin {Absent, << >>} => temps'[v][1] \notin Bad
      BY <3>2, <3>3 DEF TypeOK
    <3>5. UploadsOK' /\ TempsOwned'
      BY <1>2, <2>2, <3>1, <3>2 DEF ReceiveChunk, UploadsOK, TempsOwned, history
    <3>6. up' \in [Uploads -> {"new", "recv", "valid", "done", "failed"}]
      BY <2>2 DEF TypeOK
    <3> QED
      BY <1>2, <3>2, <3>4, <3>5, <3>6, UploadSteps DEF ReceiveChunk
  <2> QED
    BY <1>2, <2>1, <2>2 DEF ReceiveChunk
<1>3. ASSUME AbortUpload(u) PROVE TransferInv'
  BY <1>3, Failing, UploadSteps DEF AbortUpload, history
<1>4. ASSUME Validate(u) PROVE TransferInv'
  <2>1. CASE Fail(u)
    BY <1>4, <2>1, Failing, UploadSteps DEF Validate, history
  <2>2. CASE temps[u] = declared[u] /\ up' = [up EXCEPT ![u] = "valid"] /\ UNCHANGED temps
    <3>1. /\ up' \in [Uploads -> {"new", "recv", "valid", "done", "failed"}]
          /\ up[u] = "recv" /\ up'[u] = "valid" /\ \A v \in Uploads : v # u => up'[v] = up[v]
      BY <1>4, <2>2 DEF Validate, TypeOK
    <3>2. UploadsOK' /\ TempsOwned'
      BY <1>4, <2>2, <3>1 DEF Validate, UploadsOK, TempsOwned, history
    <3>3. /\ temps' \in [Uploads -> Seq(Blocks) \cup {Absent}]
          /\ \A v \in Uploads : temps'[v] \notin {Absent, << >>} => temps'[v][1] \notin Bad
      BY <2>2 DEF TypeOK
    <3> QED
      BY <1>4, <3>1, <3>2, <3>3, UploadSteps DEF Validate
  <2> QED
    BY <1>4, <2>1, <2>2 DEF Validate
<1>5. ASSUME Commit(u) PROVE TransferInv'
  <2>1. CASE Fail(u) /\ UNCHANGED <<files, dirty, last, committed, cut>>
    BY <1>5, <2>1, Failing, UploadSteps DEF Commit, history
  <2>2. CASE /\ files' = [files EXCEPT ![name[u]] = temps[u]] /\ dirty' = dirty \cup {name[u]}
             /\ up' = [up EXCEPT ![u] = "done"] /\ temps' = [temps EXCEPT ![u] = Absent]
             /\ last' = [last EXCEPT ![name[u]] = declared[u]]
             /\ committed' = committed \cup {declared[u]} /\ cut' = cut \ {name[u]}
    <3>1. /\ temps[u] = declared[u] /\ declared[u] \in Files /\ declared[u] \in Seq(Blocks)
          /\ name[u] \in Names /\ declared[u] # Absent
      BY <1>5, FilesAreSeqs DEF Commit, TypeOK, UploadsOK
    <3>2. /\ files'[name[u]] = declared[u] /\ last'[name[u]] = declared[u]
          /\ \A n \in Names : n # name[u] => files'[n] = files[n] /\ last'[n] = last[n]
          /\ files' \in [Names -> Seq(Blocks) \cup {Absent}]
      BY <2>2, <3>1 DEF TypeOK, HistoryOK
    <3>3. /\ temps'[u] = Absent /\ up'[u] = "done"
          /\ \A v \in Uploads : v # u => temps'[v] = temps[v] /\ up'[v] = up[v]
          /\ temps' \in [Uploads -> Seq(Blocks) \cup {Absent}]
          /\ up' \in [Uploads -> {"new", "recv", "valid", "done", "failed"}]
      BY <2>2 DEF TypeOK
    <3>4. TypeOK'
      <4>1. \A v \in Uploads : temps'[v] \notin {Absent, << >>} => temps'[v][1] \notin Bad
        BY <3>3 DEF TypeOK
      <4> QED
        BY <1>5, <2>2, <3>1, <3>2, <3>3, <4>1 DEF Commit, TypeOK, downloadVars
    <3>5. HistoryOK'
      BY <2>2, <3>1 DEF HistoryOK
    <3>6. DirtyFiles' /\ WholeFiles'
      BY <2>2, <3>1, <3>2 DEF DirtyFiles, WholeFiles, TypeOK
    <3>7. UploadsOK' /\ TempsOwned'
      BY <1>5, <3>3 DEF Commit, UploadsOK, TempsOwned
    <3>8. StreamsOK'
      BY <1>5, <2>2 DEF Commit, StreamsOK, downloadVars
    <3> QED
      BY <3>4, <3>5, <3>6, <3>7, <3>8
  <2> QED
    BY <1>5, <2>1, <2>2 DEF Commit
<1> QED
  BY <1>1, <1>2, <1>3, <1>4, <1>5 DEF UploadModel

(* Every step of a download preserves the invariant. *)
LEMMA DownloadStep == ASSUME TransferInv, NEW d \in Downloads, Download(d) PROVE TransferInv'
<1> USE TransferConstants DEF TransferInv
<1>0. /\ \A e \in Downloads : got[e] \in Seq(Blocks) /\ Len(got[e]) \in Nat
      /\ \A e \in Downloads : fd[e] \in Seq(Blocks) /\ Len(fd[e]) \in Nat
  BY DEF TypeOK
<1>1. ASSUME DownloadModel(d) PROVE TransferInv'
  <2>1. files[path] \in Seq(Blocks) /\ path \in Names
    BY <1>1 DEF DownloadModel, TypeOK
  <2>2. /\ dl'[d] = "open" /\ fd'[d] = files[path] /\ off'[d] = Len(got[d])
        /\ \A e \in Downloads : e # d => dl'[e] = dl[e] /\ fd'[e] = fd[e] /\ off'[e] = off[e]
        /\ got' = got /\ committed' = committed
        /\ \A e \in Downloads : e # d => (e \in tainted' <=> e \in tainted)
        /\ d \notin tainted' => d \notin tainted /\ path \notin cut
        /\ d \notin tainted' /\ dl[d] # "new" => fd[d] = files[path]
    BY <1>1 DEF DownloadModel, TypeOK
  <2>3. TypeOK'
    BY <1>0, <1>1, <2>1 DEF DownloadModel, TypeOK
  <2>4. HistoryOK' /\ DirtyFiles' /\ UploadsOK' /\ WholeFiles' /\ TempsOwned'
    BY <1>1 DEF DownloadModel, HistoryOK, DirtyFiles, UploadsOK, WholeFiles, TempsOwned
  <2>5. d \notin tainted' => files[path] \in committed
    BY <1>1, <2>1, <2>2 DEF DownloadModel, WholeFiles, HistoryOK
  <2>6. d \notin tainted' => /\ Len(got[d]) <= Len(files[path])
                            /\ \A i \in 1..Len(got[d]) : got[d][i] = files[path][i]
    <3>1. CASE dl[d] = "new"
      <4>1. Len(got[d]) = 0 /\ Len(files[path]) \in Nat
        BY <2>1, <3>1 DEF StreamsOK
      <4> QED
        BY <4>1
    <3>2. CASE dl[d] # "new"
      BY <2>2, <3>2 DEF StreamsOK
    <3> QED
      BY <3>1, <3>2
  <2>7. StreamsOK'
    BY <2>2, <2>5, <2>6 DEF StreamsOK
  <2> QED
    BY <2>3, <2>4, <2>7
<1>2. ASSUME SendChunk(d) PROVE TransferInv'
  <2> DEFINE b == fd[d][off[d] + 1]
  <2>1. dl[d] = "open" /\ off[d] = Len(got[d]) /\ off[d] < Len(fd[d]) /\ off[d] + 1 \in 1..Len(fd[d])
    BY <1>0, <1>2 DEF SendChunk, StreamsOK
  <2>2. b \in Blocks
    BY <1>0, <2>1
  <2>3. /\ got'[d] \in Seq(Blocks) /\ Len(got'[d]) = Len(got[d]) + 1 /\ got'[d][Len(got[d]) + 1] = b
        /\ \A i \in 1..Len(got[d]) : got'[d][i] = got[d][i]
        /\ \A e \in Downloads : e # d => got'[e] = got[e] /\ off'[e] = off[e]
        /\ off'[d] = off[d] + 1
    <3>1. /\ Append(got[d], b) \in Seq(Blocks) /\ Len(Append(got[d], b)) = Len(got[d]) + 1
          /\ Append(got[d], b)[Len(got[d]) + 1] = b
          /\ \A i \in 1..Len(got[d]) : Append(got[d], b)[i] = got[d][i]
      BY <1>0, <2>2, OneMore
    <3>2. got' = [got EXCEPT ![d] = Append(got[d], b)]
      BY <1>2 DEF SendChunk
    <3> HIDE DEF b
    <3> QED
      BY <1>2, <3>1, <3>2 DEF SendChunk, TypeOK
  <2> HIDE DEF b
  <2>4. TypeOK'
    <3>1. got' \in [Downloads -> Seq(Blocks)] /\ off' \in [Downloads -> Nat]
      BY <1>0, <1>2, <2>1, <2>3 DEF SendChunk, TypeOK
    <3> QED
      BY <1>2, <3>1 DEF SendChunk, TypeOK, history
  <2>5. HistoryOK' /\ DirtyFiles' /\ UploadsOK' /\ WholeFiles' /\ TempsOwned'
    BY <1>2 DEF SendChunk, HistoryOK, DirtyFiles, UploadsOK, WholeFiles, TempsOwned, history
  <2>6. ASSUME d \notin tainted
        PROVE  /\ Len(got'[d]) <= Len(fd[d])
               /\ \A i \in 1..Len(got'[d]) : got'[d][i] = fd[d][i]
    <3>1. \A i \in 1..Len(got[d]) : got[d][i] = fd[d][i]
      BY <2>1, <2>6 DEF StreamsOK
    <3>2. got'[d][Len(got[d]) + 1] = fd[d][Len(got[d]) + 1]
      BY <2>1, <2>3 DEF b
    <3>3. \A i \in 1..Len(got'[d]) : i \in 1..Len(got[d]) \/ i = Len(got[d]) + 1
      BY <1>0, <2>3
    <3> QED
      BY <1>0, <2>1, <2>3, <3>1, <3>2, <3>3
  <2>7. StreamsOK'
    BY <1>2, <2>1, <2>3, <2>6 DEF SendChunk, StreamsOK, history
  <2> QED
    BY <2>4, <2>5, <2>7
<1>3. ASSUME EndOfFile(d) PROVE TransferInv'
  <2>1. /\ dl[d] = "open" /\ dl'[d] = "complete" /\ \A e \in Downloads : e # d => dl'[e] = dl[e]
        /\ off[d] = Len(got[d]) /\ off[d] >= Len(fd[d])
    BY <1>3 DEF EndOfFile, TypeOK, StreamsOK
  <2>2. TypeOK'
    BY <1>3 DEF EndOfFile, TypeOK, history
  <2>3. d \notin tainted => Len(got[d]) = Len(fd[d])
    BY <1>0, <2>1 DEF StreamsOK
  <2>4. StreamsOK'
    BY <1>3, <2>1, <2>3 DEF EndOfFile, StreamsOK, history
  <2> QED
    BY <1>3, <2>2, <2>4 DEF EndOfFile, HistoryOK, DirtyFiles, UploadsOK, WholeFiles, TempsOwned, history
<1>4. ASSUME BreakDownload(d) PROVE TransferInv'
  <2>1. TypeOK'
    BY <1>4 DEF BreakDownload, TypeOK, history
  <2>2. StreamsOK'
    BY <1>4 DEF BreakDownload, StreamsOK, TypeOK, history
  <2> QED
    BY <1>4, <2>1, <2>2 DEF BreakDownload, HistoryOK, DirtyFiles, UploadsOK, WholeFiles, TempsOwned, history
<1> QED
  BY <1>1, <1>2, <1>3, <1>4 DEF Download

(* A stop of the control plane breaks its streams and leaves temporary     *)
(* files, each of an upload that is now known to have crashed.             *)
LEMMA Stopping ==
    ASSUME TransferInv, Stop
    PROVE  /\ up' \in [Uploads -> {"new", "recv", "valid", "done", "failed"}]
           /\ dl' \in [Downloads -> {"new", "open", "complete", "broken"}]
           /\ stops' \in 0..MaxStops /\ crashed' \subseteq Uploads
           /\ UploadsOK' /\ TempsOwned' /\ StreamsOK'
<1> USE DEF TransferInv
<1>1. /\ up' \in [Uploads -> {"new", "recv", "valid", "done", "failed"}]
      /\ dl' \in [Downloads -> {"new", "open", "complete", "broken"}]
  BY DEF Stop, TypeOK
<1>2. stops' \in 0..MaxStops /\ crashed' \subseteq Uploads
  BY TransferConstants DEF Stop, TypeOK
<1>3. UploadsOK' /\ TempsOwned'
  BY DEF Stop, TypeOK, UploadsOK, TempsOwned
<1>4. StreamsOK'
  <2>1. \A d \in Downloads : dl'[d] = IF dl[d] = "open" THEN "broken" ELSE dl[d]
    BY DEF Stop
  <2> QED
    BY <2>1 DEF Stop, StreamsOK
<1> QED
  BY <1>1, <1>2, <1>3, <1>4

(* Every step preserves the invariant, whatever stops. *)
LEMMA TransferStep == TransferInv /\ [Next]_vars => TransferInv'
<1> SUFFICES ASSUME TransferInv, [Next]_vars PROVE TransferInv'
  OBVIOUS
<1> USE TransferConstants DEF TransferInv
<1>1. ASSUME NEW n \in Names, UpdatePath(n) PROVE TransferInv'
  BY <1>1 DEF UpdatePath, TypeOK, HistoryOK, DirtyFiles, UploadsOK, StreamsOK, WholeFiles, TempsOwned, history
<1>2. ASSUME NEW n \in Names, WriteBack(n) PROVE TransferInv'
  BY <1>2 DEF WriteBack, TypeOK, HistoryOK, DirtyFiles, UploadsOK, StreamsOK, WholeFiles, TempsOwned,
     downloadVars, history
<1>3. ASSUME Crash PROVE TransferInv'
  <2>1. TypeOK'
    BY <1>3, Stopping DEF Crash, Stop, TypeOK
  <2> QED
    BY <1>3, <2>1, Stopping DEF Crash, Stop, HistoryOK, DirtyFiles, WholeFiles
<1>4. ASSUME PowerLoss PROVE TransferInv'
  <2>1. PICK keep \in [dirty -> 0..MaxBlocks] :
          LET short == {n \in dirty : keep[n] < Len(files[n])} IN
          /\ files' = [n \in Names |-> IF n \in short THEN SubSeq(files[n], 1, keep[n]) ELSE files[n]]
          /\ cut' = cut \cup short
    BY <1>4 DEF PowerLoss
  <2> DEFINE short == {n \in dirty : keep[n] < Len(files[n])}
  <2>2. \A n \in short : n \in Names /\ files[n] \in Seq(Blocks) /\ SubSeq(files[n], 1, keep[n]) \in Seq(Blocks)
    <3> SUFFICES ASSUME NEW n \in short
                 PROVE  n \in Names /\ files[n] \in Seq(Blocks) /\ SubSeq(files[n], 1, keep[n]) \in Seq(Blocks)
      OBVIOUS
    <3>1. n \in Names /\ files[n] \in Seq(Blocks) /\ keep[n] \in Nat /\ keep[n] < Len(files[n])
      BY DEF TypeOK, DirtyFiles
    <3> QED
      BY <3>1, CutShort
  <2>3. /\ files' = [n \in Names |-> IF n \in short THEN SubSeq(files[n], 1, keep[n]) ELSE files[n]]
        /\ cut' = cut \cup short
    BY <2>1
  <2> HIDE DEF short
  <2>4. files' \in [Names -> Seq(Blocks) \cup {Absent}] /\ cut' \subseteq Names
    BY <2>2, <2>3 DEF TypeOK
  <2>5. PowerLosses /\ Stop /\ dirty' = {}
    BY <1>4 DEF PowerLoss
  <2>6. TypeOK'
    BY <2>4, <2>5, Stopping DEF Stop, TypeOK
  <2>7. WholeFiles'
    BY <2>3, <2>5 DEF Stop, WholeFiles
  <2> QED
    BY <2>5, <2>6, <2>7, Stopping DEF Stop, HistoryOK, DirtyFiles
<1>5. CASE UNCHANGED vars
  BY <1>5 DEF vars, TypeOK, HistoryOK, DirtyFiles, UploadsOK, StreamsOK, WholeFiles, TempsOwned
<1> QED
  BY <1>1, <1>2, <1>3, <1>4, <1>5, UploadStep, DownloadStep DEF Next

(* The transfer's invariant holds in every reachable state. *)
LEMMA TransferInvariant == Spec => []TransferInv
<1>1. Init => TransferInv
  BY TransferInit
<1>2. TransferInv /\ [Next]_vars => TransferInv'
  BY TransferStep
<1> QED
  BY <1>1, <1>2, PTL DEF Spec

(* Every variable keeps its shape, and no temporary file starts with a     *)
(* block that fails the check of the first chunk.                          *)
THEOREM TransferTypeCorrect == Spec => []TypeOK
<1>1. TransferInv => TypeOK
  BY DEF TransferInv
<1> QED
  BY <1>1, TransferInvariant, PTL

(* Under a final name there is, whole, the file last committed there,      *)
(* unless the power failed between the rename and the write-back.          *)
THEOREM FilesStayWhole == Spec => []WholeFiles
<1>1. TransferInv => WholeFiles
  BY DEF TransferInv
<1> QED
  BY <1>1, TransferInvariant, PTL

(* Every way an upload can end removes its temporary file, but a crash. *)
THEOREM TempsAreOwned == Spec => []TempsOwned
<1>1. TransferInv => TempsOwned
  BY DEF TransferInv
<1> QED
  BY <1>1, TransferInvariant, PTL

(* A download that completes delivers one committed file, however often it *)
(* broke and was resumed, while uploads replace the file and updates move  *)
(* the record, unless it was resumed in another file or one a power loss   *)
(* has cut.                                                                *)
THEOREM CompleteDownloads == Spec => []DownloadsWhole
<1>1. TransferInv => DownloadsWhole
  <2> SUFFICES ASSUME TransferInv, NEW d \in Downloads, dl[d] = "complete", d \notin tainted
               PROVE  got[d] \in committed
    BY DEF DownloadsWhole
  <2>1. /\ got[d] \in Seq(Blocks) /\ fd[d] \in Seq(Blocks) /\ Len(got[d]) = Len(fd[d])
        /\ \A i \in 1..Len(got[d]) : got[d][i] = fd[d][i]
        /\ fd[d] \in committed
    BY DEF TransferInv, TypeOK, StreamsOK
  <2>2. got[d] = fd[d]
    BY <2>1, SeqEqual
  <2> QED
    BY <2>1, <2>2
<1> QED
  BY <1>1, TransferInvariant, PTL
=============================================================================
