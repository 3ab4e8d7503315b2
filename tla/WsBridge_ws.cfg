CONSTANTS
  com1 = com1
  usb0 = usb0
  Ports <- TwoPorts
  Fd = {f1, f2}
  WS_RING_CAP = 1
  MaxHeard <- ThreeOnCom1
  MaxTyped = 1
  NoPort = NoPort
SPECIFICATION FairSpec
CHECK_DEADLOCK FALSE
INVARIANTS
  OneHome
  BytesInOrder
  KeysOnce
PROPERTY
  HeardByAll
