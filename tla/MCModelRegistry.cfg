SPECIFICATION FairSpec
CONSTANTS
  p1 = p1
  p2 = p2
  i1 = i1
  i2 = i2
  i3 = i3
  n1 = n1
  n2 = n2
  ns1 = ns1
  ns2 = ns2
  NoName = NoName
  Absent = Absent
  Procs = {p1, p2}
  Ids = {i1, i2, i3}
  Namespaces = {ns1}
  Names = {n1, n2}
  Renames = TRUE
INVARIANTS
  DuplicatesNeedOverlap
  RemovedStaysRemoved
PROPERTIES
  RegistrationsReturn
CHECK_DEADLOCK FALSE
