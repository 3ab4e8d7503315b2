CONSTANTS
  u1 = u1
  u2 = u2
  Update <- TwoUpdates
  Factory = Factory
  Chunks = 1
  Sound <- SoundImages
  Erased = Erased
  Mixed = Mixed
SPECIFICATION Spec
INVARIANTS
  TakeTurns
  Recoverable
  ReportsTruth
  OtaInv
PROPERTY
  RunningKept
