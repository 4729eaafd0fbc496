CONSTANTS
    N = 1
    Streams = {out}
    Room = 0
    PipeCap = 1
    MaxWrites = 1
    Liberties = {"close"}
SPECIFICATION FairSpec
CHECK_DEADLOCK FALSE
PROPERTY
    NeverStalls
