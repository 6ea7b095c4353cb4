SPECIFICATION MCSpec
CONSTANTS
  CAPACITY = 4
  IndexModulus = 16
  SEED = 13
  NUM_OPS = 24
  WRAPPED_CAPACITY = 3
  WRAPPED_OPS = 8
  None = None
  AUDIO_CAPACITY = 2
  SAMPLES = 5
  BLOCK = 2
  Silence = Silence
  Raw = Raw
CHECK_DEADLOCK FALSE
INVARIANTS
  ArrivesInOrder
  NoDataRace
  ExactCount
PROPERTIES
  ImplementsBoundedQueue
  WrappedImplementsBoundedQueue
  EveryProgramReceives
