SPECIFICATION ClientSpec
CONSTANTS
  p1 = p1
  p2 = p2
  i1 = i1
  i2 = i2
  n1 = n1
  ns1 = ns1
  ns2 = ns2
  u1 = u1
  u2 = u2
  f1 = f1
  f2 = f2
  NoName = NoName
  NoNs = NoNs
  Absent = Absent
  Missing = Missing
  Empty = Empty
  Bad = Bad
  NoCall = NoCall
  Default = ns1
  Procs = {p1, p2}
  Ids = {i1, i2}
  Namespaces = {ns1, ns2}
  Names = {n1}
  Renames = TRUE
  Users = {u1, u2}
  Manifests <- SomeManifests
  Flags = {NoNs, ns2}
  Formats = {f1, f2}
  MaxEvents = 2
SYMMETRY Symm
INVARIANTS
  DuplicatesNeedRetry
  SettingsKept
PROPERTIES
  ReportsAreTrue
CHECK_DEADLOCK FALSE
