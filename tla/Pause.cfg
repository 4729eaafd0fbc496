CONSTANTS
    p1 = p1
    p2 = p2
    Pids = {p1, p2}
    MaxPaused = 2
    Hosts <- AllHosts
SPECIFICATION FairSpec
CHECK_DEADLOCK FALSE
INVARIANTS
    StopsGuarded
    OwnStopsInLedger
    LedgerJournaled
PROPERTY
    NothingStaysPaused
