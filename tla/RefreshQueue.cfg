SPECIFICATION FairSpec
CONSTANTS
  Refreshers = {a}
  Main = main
  Objects = {o, p}
  MaxRefreshes = 2
  Migrated = FALSE
  None = none
INVARIANTS OnlyLateOmitted DrainedToTheEnd
PROPERTY EntriesGo
CHECK_DEADLOCK FALSE
