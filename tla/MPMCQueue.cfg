SPECIFICATION FairSpec
CONSTANTS
  p1 = p1
  p2 = p2
  c1 = c1
  c2 = c2
  None = None
  Producers = {p1, p2}
  Consumers = {c1, c2}
  CAPACITY = 2
  ItemsPerThread = 2
CHECK_DEADLOCK FALSE
INVARIANTS
  SlotExclusive
  ReadsWhatWasPushed
PROPERTIES
  AnswersAreRight
  ImplementsBoundedQueue
  AllDelivered
