SPECIFICATION MCSpec
CONSTANTS
  CACHE_CAPACITY = 2
  PAGE_SIZE = 9
  LastPage = 2
  Values = {1, 2}
  MaxPins = 2
  MallocMayFail = TRUE
  WriteMayFail = TRUE
  Guards = {1, 2}
  NoPage = NoPage
  Keys = {0, 1, 2, 4}
  LRU_CAPACITY = 3
  TABLE_SIZE = 2
  Nodes = {1, 2, 3}
  Symbols = {0, 1, 2, 8}
  None = None
  Empty = Empty
  Deleted = Deleted
  INITIAL_CAPACITY = 2
  MaxCapacity = 8
  HEADER = 3
  POOL_SIZE = 32
  MIN_BLOCK_SIZE = 4
  Sizes = {1, 5, 12}
  FIT_HEADER = 16
  ALIGNMENT = 16
  FIT_POOL_SIZE = 128
  FIT_REQUESTS = {0, 1, 17, 40}
  NUM_ALLOCATION = 4
  ARENA_CAPACITY = 12
  INT = 2
  FIRST_CAPACITY = 1
  Strings = {1, 2}
  STACK_CAP = 2
  Buffers = {1, 2, 3}
  Texts <- StringTexts
  MaxLen = 4
  LEFT_AT = 1
  NoText = NoText
  Dead = Dead
  Failed = Failed
  Junk = Junk
  Handles = {1, 2, 3}
  Objects = {11, 12, 13}
  Nil = Nil
  TrackedThreads = {1, 2}
  Addresses = {1, 2, 3}
  MAX_ALLOCS = 2
CHECK_DEADLOCK FALSE
INVARIANTS
  CacheSound
  NoLostUpdate
  FreeListSound
  BuffersSound
  BuddiesSound
  FreeListsWhole
  VectorIntact
  OwnersFreeOnce
  TableIsHeap
PROPERTIES
  ImplementsLRU
  ImplementsSymbolMap
