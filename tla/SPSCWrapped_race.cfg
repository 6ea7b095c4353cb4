SPECIFICATION SpecC
CONSTANTS
  CAPACITY = 3
  NUM_OPS = 6
  None = None
CHECK_DEADLOCK FALSE
INVARIANT
  WrittenBeforePublished
