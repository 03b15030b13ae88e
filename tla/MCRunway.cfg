SPECIFICATION FairSpec
CONSTANTS
  c1 = c1
  c2 = c2
  c3 = c3
  Calls = {c1, c2}
  Counts = {0, 2}
  MaxGens = 2
  QueueCap = 1
INVARIANTS
  JobsOnce
PROPERTIES
  InferenceReturns
  JobsServed
  WorkersEnd
CHECK_DEADLOCK FALSE
