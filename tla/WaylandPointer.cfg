SPECIFICATION Spec
CONSTANTS
    Windows = {v, w}
    Edges = {"left"}
    Shadowed = {v}
    None = None
    Polite = TRUE
    MaxMoves = 4
    MaxCalls = 3
INVARIANTS TypeOK NoDangling HoveredIsTrue EnterHeeded CursorFollows ResizeEnds
CHECK_DEADLOCK FALSE
