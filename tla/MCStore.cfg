SPECIFICATION Spec
CONSTANTS
  p1 = p1
  p2 = p2
  k1 = k1
  k2 = k2
  v1 = v1
  v2 = v2
  NoKey = NoKey
  Absent = Absent
  NoProc = NoProc
  NoTail = NoTail
  Garbage = Garbage
  Procs = {p1, p2}
  Keys = {k1, k2}
  Values = {v1, v2}
  Oversize = {}
  TornTail = FALSE
  WriteFaults = FALSE
  SyncFaults = FALSE
  MaxLog = 3
  MaxCrashes = 2
SYMMETRY Symm
INVARIANTS
  AckedDurable
  ReadsSeeLog
  
PROPERTIES
  Implements
