SPECIFICATION MCSpec
CONSTANTS
  t1 = t1
  t2 = t2
  t3 = t3
  m1 = m1
  m2 = m2
  m3 = m3
  None = None
  Threads <- ThreadsOfMain
  Mutexes <- MutexesOfMain
  Order <- DeepOrder
  Size = 3
  Traders = {1, 2}
  UPDATES = 2
  NUM_UPDATES = 3
  Candidates = {1, 2}
CHECK_DEADLOCK FALSE
INVARIANTS
  NoDeadlock
  GraphAgrees
  SearchFindsExactlyCycles
  SharedStateWhole
PROPERTIES
  RefusedOnlyInDeadlock
  RingImplementsDetection
  AllReturn
