SPECIFICATION RingSpec
CONSTANTS
  RingMax = 3
INVARIANTS NothingIsOverwritten
