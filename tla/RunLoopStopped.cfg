SPECIFICATION Spec
CONSTANTS
  Workers = {}
  Pump = pump
  Main = main
  Windows = {}
  Masters = {}
  MaxCalls = 0
  MaxMainCalls = 0
  MayQuit = TRUE
  MayCall = FALSE
  MayAnimate = FALSE
  Wayland = FALSE
  Migrated = FALSE
INVARIANTS StoppedRuns
CHECK_DEADLOCK FALSE
