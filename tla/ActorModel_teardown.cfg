SPECIFICATION Spec
CONSTANTS
  p1 = p1
  p2 = p2
  Producers = {p1, p2}
  NUM_WORKERS = 2
  ORDERS_PER_PRODUCER = 3
  CAPACITY = 2
  Router = Router
  Main = Main
  Pill = Pill
CHECK_DEADLOCK FALSE
INVARIANT
  HandlesOnlyWhileAlive
