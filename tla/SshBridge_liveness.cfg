CONSTANTS
  s1 = s1
  s2 = s2
  s3 = s3
  d1 = d1
  d2 = d2
  Session <- TwoSessions
  Device <- OneDevice
  MaxPerDevice = 1
  RingCap = 1
  ReadMax = 1
  NoSession = NoSession
  MaxSessions = 2
  Stacks = 2
  NoDevice = NoDevice
SPECIFICATION FairSpec
PROPERTIES
  ClosedSessionEnds
  AdmissionFairSpec
