SPECIFICATION SpecBuffered
CONSTANTS
  p1 = p1
  c1 = c1
  c2 = c2
  n1 = n1
  n2 = n2
  NULL = NULL
  Producers = {p1}
  Consumers = {c1, c2}
  Nodes = {n1, n2}
  MSGS_PER_PRODUCER = 2
  SWEEP_PERIOD = 2
  TAG_MODULUS = 16
  StoreBuffered = TRUE
CHECK_DEADLOCK FALSE
PROPERTIES
  HazardProtects
