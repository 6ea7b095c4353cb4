SPECIFICATION MCSpec
CONSTANTS
  p1 = p1
  p2 = p2
  c1 = c1
  c2 = c2
  n1 = n1
  n2 = n2
  n3 = n3
  NULL = NULL
  Producers = {p1}
  StealProducers = {p1, p2}
  Consumers = {c1, c2}
  Nodes = {n1, n2, n3}
  MSGS_PER_PRODUCER = 2
  STEAL_MSGS = 2
  SWEEP_PERIOD = 2
  TAG_MODULUS = 2
  StoreBuffered = FALSE
CHECK_DEADLOCK FALSE
INVARIANTS
  StatesSound
  ChainIsStack
  OneOwner
PROPERTIES
  HazardProtects
  BothEndComplete
