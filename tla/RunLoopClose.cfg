SPECIFICATION FairSpec
CONSTANTS
  Workers = {}
  Pump = pump
  Main = main
  Windows = {w}
  Masters = {w}
  MaxCalls = 0
  MaxMainCalls = 0
  MayQuit = TRUE
  MayCall = FALSE
  MayAnimate = TRUE
  Wayland = FALSE
  Migrated = FALSE
PROPERTIES ClosedMasterQuits
CHECK_DEADLOCK FALSE
