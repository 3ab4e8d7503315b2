CONSTANTS
  s1 = s1
  s2 = s2
  s3 = s3
  d1 = d1
  d2 = d2
  Session <- TwoSessions
  Device <- OneDevice
  MaxPerDevice = 2
  RingCap = 1
  ReadMax = 1
  NoSession = NoSession
  MaxSessions = 2
  Stacks = 3
  NoDevice = NoDevice
SPECIFICATION Spec
INVARIANT
  RingPrivate
