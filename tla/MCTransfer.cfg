SPECIFICATION Spec
CONSTANTS
  b1 = b1
  b2 = b2
  b3 = b3
  b4 = b4
  bad = bad
  u1 = u1
  u2 = u2
  d1 = d1
  n1 = n1
  n2 = n2
  Absent = Absent
  Uploads = {u1, u2}
  Names = {n1, n2}
  Files <- ThreeFiles
  Bad = {bad}
  Downloads = {d1}
  CanResume = TRUE
  PowerLosses = TRUE
  MaxBlocks = 3
  MaxStops = 1
SYMMETRY Symm
INVARIANTS
  WholeFiles
  TempsOwned
  DownloadsWhole
CHECK_DEADLOCK FALSE
