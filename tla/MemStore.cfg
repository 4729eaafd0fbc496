CONSTANTS
    Slugs = {1, 2, 3, 4}
    Reserved = {2}
    Descs = {"d", ""}
    NoText = ""
    Kept <- MCKept
    NoDesc = NoDesc
    p1 = p1
    p2 = p2
    Procs = {p1, p2}
    Readers = {p1}
    Writes <- MCWrites
    MaxFiles = 2
    TopK = 1
    MaxOps = 2
SPECIFICATION Spec
INVARIANTS IndexExact ReadYourWrites Bounded
PROPERTY Implements
CHECK_DEADLOCK FALSE
