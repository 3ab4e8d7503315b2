CONSTANTS
  RingCap = 2
  BufSize = 2
  Window = 2
  MaxHeard = 5
  MaxTyped = 3
SPECIFICATION FairSpec
CHECK_DEADLOCK FALSE
INVARIANTS
  NothingStale
  KeysInOrder
PROPERTIES
  StreamSpec
  OutputSent
  KeysWritten
