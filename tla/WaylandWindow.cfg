SPECIFICATION Spec
CONSTANTS
    Sizes = {4, 6}
    CreateSize = 4
    FullSize = 9
    MaxSize = 8
    Border = 5
    Kinds <- KindsValue
    MaxCalls = 5
    MaxOwn = 1
INVARIANTS TypeOK BufferMatches ToldSize TimelySizeWins ScanoutSafe IntentReached NothingOutstanding
CHECK_DEADLOCK FALSE
