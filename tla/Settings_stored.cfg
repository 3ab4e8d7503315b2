CONSTANTS
  Keys <- SavedKeys
  Unsaved <- OtherKeys
  Default <- CfgToml
  Shown = {"com1"}
  Empty = ""
  Forms <- OpenNetwork
  Browser = {b1}
  Router <- HomeRouter
  None = None
  MAX_ENTRIES = 2
  MaxBoots = 3
  MaxRequests = 2
SPECIFICATION FairSpec
CHECK_DEADLOCK FALSE
INVARIANTS
  SettingsSurvive
  CredsOfRouter
  LogNewestFirst
PROPERTY
  RebootHappens
