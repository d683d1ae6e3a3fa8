SPECIFICATION Spec
CONSTANTS
    Windows = {w}
    Outputs = {a, b, c}
    None = None
    Scales = {1, 2}
    MaxCalls = 3
    MaxMoves = 2
SYMMETRY OutputsAlike
INVARIANTS TypeOK NoneDangling RecordedWhereShown OutputsAgree
PROPERTIES FullscreenFollows
CHECK_DEADLOCK FALSE
