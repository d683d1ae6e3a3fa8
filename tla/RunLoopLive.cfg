SPECIFICATION FairSpec
CONSTANTS
  Workers = {a}
  Pump = pump
  Main = main
  Windows = {w}
  Masters = {w}
  MaxCalls = 2
  MaxMainCalls = 2
  MayQuit = FALSE
  MayCall = FALSE
  MayAnimate = TRUE
  Wayland = TRUE
  Migrated = TRUE
INVARIANTS TypeOK NoLostWakeup
PROPERTIES DirtyDrawn AnimationsTicked
CHECK_DEADLOCK FALSE
