SPECIFICATION Spec
CONSTANTS
  CACHE_CAPACITY = 2
  PAGE_SIZE = 9
  LastPage = 2
  Values = {1, 2}
  MaxPins = 1
  MallocMayFail = FALSE
  WriteMayFail = FALSE
CHECK_DEADLOCK FALSE
INVARIANT
  FreeListSurvivesCrash
