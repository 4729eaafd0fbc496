CONSTANTS
    p1 = p1
    p2 = p2
    Pids = {p1}
    MaxPaused = 1
    Hosts <- KilledHosts
SPECIFICATION Spec
CHECK_DEADLOCK FALSE
INVARIANT
    RecoveryResumesOwed
