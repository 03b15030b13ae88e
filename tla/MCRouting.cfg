SPECIFICATION FairSpec
CONSTANTS
  a1 = a1
  a2 = a2
  m1 = m1
  m2 = m2
  c1 = c1
  c2 = c2
  d1 = d1
  d2 = d2
  Agents = {a1, a2}
  Models = {m1, m2}
  Calls = {c1, c2}
  Deploys = {d1, d2}
  Tables <- MCTables
  Worlds <- MCWorlds
  One = 2
INVARIANTS
  ForwardedOnce
  RightReplica
  LostDeploysNeedRace
PROPERTIES
  SharesFollowWeights
  InferencesReturn
