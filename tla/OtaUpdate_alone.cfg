CONSTANTS
  u1 = u1
  u2 = u2
  Update <- BadUpdate
  Factory = Factory
  Chunks = 3
  Sound <- OnlyFactory
  Erased = Erased
  Mixed = Mixed
SPECIFICATION FairSpec
INVARIANT
  InOrder
PROPERTIES
  UpdateEnds
  ServesAfterReset
