SPECIFICATION Spec
CONSTANTS
  plain = plain
  swing = swing
  forever = forever
  Anims = {plain, swing, forever}
  RepeatCount <- Repeats
  AutoReverse = {swing}
  MaxStarts = 3
INVARIANTS PlayedInFull OnlyLateStranded
CHECK_DEADLOCK FALSE
