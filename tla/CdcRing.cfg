CONSTANTS
  RingSize = 4
  MaxLen = 2
  MaxHeard = 9
SPECIFICATION FairSpec
PROPERTY
  StreamFairSpec
