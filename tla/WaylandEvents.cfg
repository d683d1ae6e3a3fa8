SPECIFICATION Spec
CONSTANTS
    Windows = {v, w}
    Keys = {a, s}
    Threads = {g}
    Repeating = {a}
    None = None
    Capacity = 1
    MaxCalls = 2
    MaxPosts = 1
    MaxActs = 3
INVARIANTS TypeOK RepeatIsHeld NoStuckKeys
PROPERTIES MainWakes
CHECK_DEADLOCK FALSE
