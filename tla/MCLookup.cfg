SPECIFICATION Spec
CONSTANTS
  m1 = m1
  m2 = m2
  r1 = r1
  r2 = r2
  n1 = n1
  n2 = n2
  a = a
  b = b
  ns1 = ns1
  ns2 = ns2
  NoName = NoName
  NoNs = NoNs
  Absent = Absent
  Models = {m1, m2}
  Replicas = {r1, r2}
  Nodes = {n1, n2}
  Names = {a, b}
  Namespaces = {ns1, ns2}
  NsOf <- Namespace
  Worlds <- SomeWorlds
  MaxWrites = 2
INVARIANTS
  StatusIsSound
  HostsAreSound
  ListingsAreSound
  GhostReplicasNeedRace
CHECK_DEADLOCK FALSE
