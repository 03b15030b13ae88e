SPECIFICATION FairSpec
CONSTANTS
  p1 = p1
  p2 = p2
  k1 = k1
  k2 = k2
  v1 = v1
  v2 = v2
  NoKey = NoKey
  Absent = Absent
  NoProc = NoProc
  NoTail = NoTail
  Garbage = Garbage
  Procs = {p1, p2}
  Keys = {k1}
  Values = {v1, v2}
  Oversize = {v2}
  TornTail = TRUE
  WriteFaults = TRUE
  SyncFaults = TRUE
  MaxLog = 2
  MaxCrashes = 2
INVARIANTS
  TypeOK
  NoSilentLoss
PROPERTIES
  CallsReturn
