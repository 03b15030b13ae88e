------------------------------ MODULE Transfer ------------------------------
(***************************************************************************)
(* Model files on the control plane                                        *)
(* (api/grpc/registry/model_transfer.go) and the client that uploads them  *)
(* (client/cmd/upload.go).  An upload streams blocks into a temporary file *)
(* of its own, checks size and SHA256 against the metadata, and renames    *)
(* the file to its final name; a download opens the path in the model's    *)
(* record and streams what the open file holds, from an offset the agent   *)
(* asks for.  Handlers run concurrently, streams break, and the process or *)
(* the machine may stop.                                                   *)
(*                                                                         *)
(* A file is the sequence of its blocks.  A rename replaces a directory    *)
(* entry: a download that has the old file open keeps reading it.          *)
(***************************************************************************)
EXTENDS Naturals, Sequences, FiniteSets

CONSTANTS
    Uploads,      \* uploads
    Names,        \* final names: base names ending in .onnx
    Files,        \* the files clients upload
    Bad,          \* blocks that fail the check of the first chunk
    Downloads,    \* downloads
    Absent,       \* no file
    CanResume,    \* agents resume broken downloads
    PowerLosses,  \* the machine may lose power
    MaxBlocks,    \* bound: blocks an upload sends
    MaxStops      \* bound: crashes and power losses

Blocks == UNION {{f[i] : i \in 1..Len(f)} : f \in Files}

ASSUME TransferConstants ==
    /\ \A f \in Files : f \in Seq(Blocks) /\ Len(f) > 0
    /\ Absent \notin Seq(Blocks)
    /\ CanResume \in BOOLEAN /\ PowerLosses \in BOOLEAN
    /\ MaxBlocks \in Nat /\ MaxStops \in Nat

VARIABLES
    files,     \* the model directory: final name to content
    dirty,     \* names whose content the kernel has not written back
    temps,     \* "<upload>.uploading": content or Absent
    up,        \* each upload's step
    name,      \* its final name
    declared,  \* the file its metadata declares, by size and hash
    path,      \* the file_path of the model record downloads ask for
    dl,        \* each download's step
    fd,        \* the file it has open
    off,       \* its read offset
    got,       \* what the agent has received
    cut,       \* history: names whose content a power loss has cut short
    tainted,   \* history: downloads of such a name, or resumed in another file
    last,      \* history: under each name, the file of the last upload committed
    committed, \* history: the files committed under any name
    crashed,   \* history: uploads ended by a crash
    stops      \* crashes so far

vars == <<files, dirty, temps, up, name, declared, path, dl, fd, off, got,
          cut, tainted, last, committed, crashed, stops>>
downloadVars == <<path, dl, fd, off, got>>
history == <<cut, tainted, last, committed, crashed, stops>>

Init ==
    /\ files = [n \in Names |-> Absent] /\ dirty = {}
    /\ temps = [u \in Uploads |-> Absent] /\ up = [u \in Uploads |-> "new"]
    /\ name \in [Uploads -> Names] /\ declared \in [Uploads -> Files]
    /\ path \in Names
    /\ dl = [d \in Downloads |-> "new"] /\ fd = [d \in Downloads |-> << >>]
    /\ off = [d \in Downloads |-> 0] /\ got = [d \in Downloads |-> << >>]
    /\ cut = {} /\ tainted = {} /\ last = files /\ committed = {} /\ crashed = {} /\ stops = 0

-----------------------------------------------------------------------------
(* UploadModel.                                                            *)

(* The metadata is valid; the temporary file is created under a new UUID. *)
BeginUpload(u) ==
    /\ up[u] = "new"
    /\ up' = [up EXCEPT ![u] = "recv"] /\ temps' = [temps EXCEPT ![u] = << >>]
    /\ UNCHANGED <<files, dirty, name, declared, downloadVars, history>>

(* Mutation: the temporary file is not removed. *)
FailKeepsTemp(u) == up' = [up EXCEPT ![u] = "failed"] /\ UNCHANGED temps

(* The deferred function: the temporary file is removed unless it has been *)
(* renamed.                                                                *)
Fail(u) == up' = [up EXCEPT ![u] = "failed"] /\ temps' = [temps EXCEPT ![u] = Absent]

(* A chunk: the first one must look like a protobuf field tag.  The client *)
(* reads its file twice, for the hash and for the chunks, so the blocks    *)
(* need not be those of the declared file.                                 *)
ReceiveChunk(u, b) ==
    /\ up[u] = "recv" /\ Len(temps[u]) < MaxBlocks
    /\ IF temps[u] = << >> /\ b \in Bad
       THEN Fail(u)
       ELSE temps' = [temps EXCEPT ![u] = Append(@, b)] /\ UNCHANGED up
    /\ UNCHANGED <<files, dirty, name, declared, downloadVars, history>>

(* The stream breaks, a message has the wrong kind, or a write fails. *)
AbortUpload(u) ==
    /\ up[u] = "recv" /\ Fail(u)
    /\ UNCHANGED <<files, dirty, name, declared, downloadVars, history>>

(* Mutation: only the size is checked. *)
ValidateSize(u) ==
    /\ up[u] = "recv"
    /\ IF Len(temps[u]) = Len(declared[u])
       THEN up' = [up EXCEPT ![u] = "valid"] /\ UNCHANGED temps
       ELSE Fail(u)
    /\ UNCHANGED <<files, dirty, name, declared, downloadVars, history>>

(* The client has finished: size and hash must be the declared ones. *)
Validate(u) ==
    /\ up[u] = "recv"
    /\ IF temps[u] = declared[u]
       THEN up' = [up EXCEPT ![u] = "valid"] /\ UNCHANGED temps
       ELSE Fail(u)
    /\ UNCHANGED <<files, dirty, name, declared, downloadVars, history>>

(* The rename, without an fsync of the file before it. *)
Commit(u) ==
    /\ up[u] = "valid"
    /\ \/ /\ files' = [files EXCEPT ![name[u]] = temps[u]] /\ dirty' = dirty \cup {name[u]}
          /\ up' = [up EXCEPT ![u] = "done"] /\ temps' = [temps EXCEPT ![u] = Absent]
          /\ last' = [last EXCEPT ![name[u]] = declared[u]]
          /\ committed' = committed \cup {declared[u]} /\ cut' = cut \ {name[u]}
       \/ Fail(u) /\ UNCHANGED <<files, dirty, last, committed, cut>>
    /\ UNCHANGED <<name, declared, downloadVars, tainted, crashed, stops>>

-----------------------------------------------------------------------------
(* DownloadModel.                                                          *)

(* UpdateModel may give the record another path at any time. *)
UpdatePath(n) ==
    /\ n # path /\ path' = n
    /\ UNCHANGED <<files, dirty, temps, up, name, declared, dl, fd, off, got, history>>

(* The registry lookup, os.Open and Seek; a missing file is an error.  A   *)
(* resumed download asks for the offset of what the agent has.             *)
DownloadModel(d) ==
    /\ files[path] # Absent
    /\ dl[d] = "new" \/ (dl[d] = "broken" /\ CanResume)
    /\ tainted' = IF path \in cut \/ (dl[d] = "broken" /\ fd[d] # files[path])
                  THEN tainted \cup {d} ELSE tainted
    /\ dl' = [dl EXCEPT ![d] = "open"]
    /\ fd' = [fd EXCEPT ![d] = files[path]]
    /\ off' = [off EXCEPT ![d] = Len(got[d])]
    /\ UNCHANGED <<files, dirty, temps, up, name, declared, path, got, cut, last, committed, crashed, stops>>

(* Mutation: the file is opened by its path for every chunk. *)
SendChunkByPath(d) ==
    /\ dl[d] = "open" /\ files[path] # Absent /\ off[d] < Len(files[path])
    /\ got' = [got EXCEPT ![d] = Append(@, files[path][off[d] + 1])]
    /\ off' = [off EXCEPT ![d] = @ + 1]
    /\ UNCHANGED <<files, dirty, temps, up, name, declared, path, dl, fd, history>>

SendChunk(d) ==
    /\ dl[d] = "open" /\ off[d] < Len(fd[d])
    /\ got' = [got EXCEPT ![d] = Append(@, fd[d][off[d] + 1])]
    /\ off' = [off EXCEPT ![d] = @ + 1]
    /\ UNCHANGED <<files, dirty, temps, up, name, declared, path, dl, fd, history>>

(* io.EOF, also when the offset lies behind the end of the file. *)
EndOfFile(d) ==
    /\ dl[d] = "open" /\ off[d] >= Len(fd[d])
    /\ dl' = [dl EXCEPT ![d] = "complete"]
    /\ UNCHANGED <<files, dirty, temps, up, name, declared, path, fd, off, got, history>>

(* The agent cancels, or Send or Read fails. *)
BreakDownload(d) ==
    /\ dl[d] = "open"
    /\ dl' = [dl EXCEPT ![d] = "broken"]
    /\ UNCHANGED <<files, dirty, temps, up, name, declared, path, fd, off, got, history>>

-----------------------------------------------------------------------------
(* The control plane dies: its streams break, temporary files stay. *)
Stop ==
    /\ stops < MaxStops /\ stops' = stops + 1
    /\ LET open == {u \in Uploads : up[u] \in {"recv", "valid"}} IN
       /\ up' = [u \in Uploads |-> IF u \in open THEN "failed" ELSE up[u]]
       /\ crashed' = crashed \cup open
    /\ dl' = [d \in Downloads |-> IF dl[d] = "open" THEN "broken" ELSE dl[d]]
    /\ UNCHANGED <<temps, name, declared, path, fd, off, got, tainted, last, committed>>

Crash == Stop /\ UNCHANGED <<files, dirty, cut>>

(* Without power, each file that was not written back may be cut short. *)
PowerLoss ==
    /\ PowerLosses /\ Stop
    /\ \E keep \in [dirty -> 0..MaxBlocks] :
          LET short == {n \in dirty : keep[n] < Len(files[n])} IN
          /\ files' = [n \in Names |-> IF n \in short THEN SubSeq(files[n], 1, keep[n]) ELSE files[n]]
          /\ cut' = cut \cup short
    /\ dirty' = {}

(* The kernel writes the file back. *)
WriteBack(n) ==
    /\ n \in dirty /\ dirty' = dirty \ {n}
    /\ UNCHANGED <<files, temps, up, name, declared, downloadVars, history>>

UploadModel(u) ==
    \/ BeginUpload(u) \/ AbortUpload(u) \/ Validate(u) \/ Commit(u)
    \/ \E b \in Blocks : ReceiveChunk(u, b)

Download(d) == DownloadModel(d) \/ SendChunk(d) \/ EndOfFile(d) \/ BreakDownload(d)

Next ==
    \/ \E u \in Uploads : UploadModel(u)
    \/ \E d \in Downloads : Download(d)
    \/ \E n \in Names : UpdatePath(n) \/ WriteBack(n)
    \/ Crash \/ PowerLoss

Spec == Init /\ [][Next]_vars

-----------------------------------------------------------------------------
(* Every variable keeps its shape; no file starts with a block that fails  *)
(* the check of the first chunk.                                           *)
TypeOK ==
    /\ files \in [Names -> Seq(Blocks) \cup {Absent}] /\ dirty \subseteq Names
    /\ temps \in [Uploads -> Seq(Blocks) \cup {Absent}]
    /\ \A u \in Uploads : temps[u] \notin {Absent, << >>} => temps[u][1] \notin Bad
    /\ up \in [Uploads -> {"new", "recv", "valid", "done", "failed"}]
    /\ name \in [Uploads -> Names] /\ declared \in [Uploads -> Files] /\ path \in Names
    /\ dl \in [Downloads -> {"new", "open", "complete", "broken"}]
    /\ fd \in [Downloads -> Seq(Blocks)] /\ got \in [Downloads -> Seq(Blocks)]
    /\ off \in [Downloads -> Nat] /\ cut \subseteq Names /\ tainted \subseteq Downloads
    /\ crashed \subseteq Uploads /\ stops \in 0..MaxStops

(* Under a final name there is, whole, the file that the last upload       *)
(* committed there declared: concurrent uploads of one name do not mix,    *)
(* and a failed, broken or corrupt upload leaves what was there before.    *)
(* The one exception is a power loss between the rename and the            *)
(* write-back, because nothing calls fsync.                                *)
WholeFiles == \A n \in Names : files[n] = last[n] \/ n \in cut

(* "Ensure temp file is always cleaned up on any failure path": only an    *)
(* upload in progress has a temporary file, or one a crash has ended.      *)
TempsOwned == \A u \in Uploads : temps[u] # Absent => up[u] \in {"recv", "valid"} \/ u \in crashed

(* A download that completes has delivered one committed file, although    *)
(* uploads replace the file and updates move the record while it is        *)
(* streamed, and also when it broke off and was resumed in the file it     *)
(* began with.                                                             *)
DownloadsWhole == \A d \in Downloads : dl[d] = "complete" /\ d \notin tainted => got[d] \in committed
=============================================================================
