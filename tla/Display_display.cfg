CONSTANTS
  TERM_ROWS = 2
  TERM_COLS = 2
  PAGE_COUNT = 2
  Chunks <- Reads
  Pins = {5, 6}
  DC_OUT = 6
  DCOUT_PRESS = 1
  MINI_MESSAGE = 1
  SYS_MESSAGE = 1
  FACTORY_RESET_PRESS = 3
  WPS_TENS = 1
  None = None
  MaxInputs = 2
SPECIFICATION FairSpec
INVARIANTS
  CursorInside
  MessageGone
PROPERTY
  ShownAtLast
