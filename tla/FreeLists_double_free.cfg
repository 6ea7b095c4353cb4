SPECIFICATION SpecFreesAgain
CONSTANTS
  HEADER = 16
  ALIGNMENT = 16
  POOL_SIZE = 128
  Requests = {0, 1, 17, 40}
  NUM_ALLOCATION = 2
CHECK_DEADLOCK FALSE
INVARIANT
  DoubleFreeDetected
