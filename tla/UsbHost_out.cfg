CONSTANTS
  Writer = {w1, w2}
  Target <- FirstPort
  Device <- OneAdapter
  MAX_USB_PORTS = 1
SPECIFICATION FairSpec
INVARIANTS
  OneOwner
PROPERTIES
  WriteEnds
