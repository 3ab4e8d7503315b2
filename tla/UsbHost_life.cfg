CONSTANTS
  Writer = {}
  Target <- FirstPort
  Device <- Replugged
  MAX_USB_PORTS = 2
SPECIFICATION FairSpec
CHECK_DEADLOCK FALSE
INVARIANTS
  Polled
  ReadyIsTrue
  PortsPaired
PROPERTIES
  ClosedClean
  Served
