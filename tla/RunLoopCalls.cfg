SPECIFICATION FairSpec
CONSTANTS
  Workers = {a, b}
  Pump = pump
  Main = main
  Windows = {}
  Masters = {}
  MaxCalls = 1
  MaxMainCalls = 1
  MayQuit = TRUE
  MayCall = TRUE
  MayAnimate = FALSE
  Wayland = FALSE
  Migrated = FALSE
INVARIANTS EventsFlushed NoLostWakeup
PROPERTIES WaiterReleasedByItsCall ImplementsExecutor CallsServed QuitEndsLoop
CHECK_DEADLOCK FALSE
