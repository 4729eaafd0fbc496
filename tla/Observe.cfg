SPECIFICATION ObserveSpec
CONSTANTS
    MaxNodes = 11
    MaxEdges = 12
    MaxFacts = 6
    RefCap = 3
    ContextCap = 21
    Pids <- MCPids
    Programs = {"misc", "job"}
    Long <- MCLong
    Pages = {2}
    PageBytes = 4
    ProfileCap = 4
    Absent <- MCAbsent
    Garbled <- MCGarbled
    RawCap = 3
    SnapCap = 2
    HistoryCap = 2
    Thresholds <- MCThresholds
    MaxRepairs = 1
    Scenarios <- MCScenarios
INVARIANTS
    SharesOwnProcess
    SnapshotIsBest
    WindowIsTail
    ContextHonest
    VerdictHonest
CHECK_DEADLOCK FALSE
