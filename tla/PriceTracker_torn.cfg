SPECIFICATION TickerOnly
CONSTANTS
  NUM_UPDATES = 3
  Candidates = {1, 2}
CHECK_DEADLOCK FALSE
INVARIANT
  PairConsistent
