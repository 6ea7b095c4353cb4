SPECIFICATION MCSpec
CONSTANTS
  THREADS = 3
  CAPACITY = 2
  NUM_TASKS = 5
  None = None
  p1 = p1
  p2 = p2
  Producers = {p1, p2}
  NUM_WORKERS = 2
  ORDERS_PER_PRODUCER = 3
  MAILBOX_CAPACITY = 2
  Router = Router
  Main = Main
  Pill = Pill
  QUEUE_CAP = 2
  TOTAL_FRAMES = 4
  MARKET_WORKERS = 3
  TOTAL_TICKS = 4
  JOB_THREADS = 2
  JOBS = 3
  SkipGets = TRUE
  NUM_MESSAGES = 5
  Clients = {1, 2}
  Fds = {1, 2}
  RESPONSE = 2
  SNDBUF = 1
  MAX_SEGMENTS = 2
  Listen = 0
  MAX_NPCS = 3
  SCRIPT_LENGTH = 4
CHECK_DEADLOCK FALSE
INVARIANTS
  RingIsFIFO
  DrainedAtDestroy
  NoTaskStranded
  HandedOverOnce
  EventsHandled
PROPERTIES
  EveryProgramEnds
