CONSTANTS
    N = 2
    Streams = {out}
    Room = 1
    PipeCap = 1
    MaxWrites = 2
    Liberties = {"stray", "close", "flood", "poll", "read"}
SPECIFICATION FairSpec
CHECK_DEADLOCK FALSE
INVARIANTS
    CaptureComplete
    GroupDies
PROPERTY
    Returns
