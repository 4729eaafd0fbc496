\* A suite whose second case expects a denial.
SPECIFICATION Spec
CONSTANTS
    Suites <- LadderSuites
    UnsafeNames = {"../x"}
    Samples = 1
    MaxCases = 2
    D1 = D1
    Categories = {D1}
    NoDiag = NoDiag
    AnyTerm = AnyTerm
INVARIANT LadderMonotone
CHECK_DEADLOCK FALSE
