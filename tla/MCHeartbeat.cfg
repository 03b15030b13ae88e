SPECIFICATION Spec
CONSTANTS
  a1 = a1
  a2 = a2
  r1 = r1
  r2 = r2
  i1 = i1
  i2 = i2
  i3 = i3
  i4 = i4
  NoId = NoId
  Absent = Absent
  Agents = {a1, a2}
  Ids = {i1, i2, i3, i4}
  Replicas = {r1, r2}
  Hosted <- OneEach
  Preloaded = {a1, a2}
  OfflineAfter = 1
  StaleAfter = 2
  Prompt = TRUE
  Hangs = FALSE
  MaxFaults = 2
SYMMETRY Symm
INVARIANTS
  OrphansBounded
  CacheIsFresh

  
  
