SPECIFICATION Spec
CONSTANTS
  r1 = r1
  r2 = r2
  i1 = i1
  i2 = i2
  m1 = m1
  m2 = m2
  Absent = Absent
  Rpcs = {r1, r2}
  Ids = {i1}
  Metas = {m1, m2}
  MaxTime = 3
SYMMETRY Symm
INVARIANTS
  LostUpdatesNeedRace
  GhostsNeedRace
