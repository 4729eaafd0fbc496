\* Every kind of case beside every other, two samples each.
SPECIFICATION Spec
CONSTANTS
    Suites <- MCSuites
    UnsafeNames = {"../x"}
    Samples = 2
    MaxCases = 2
    D1 = D1
    Categories = {D1}
    NoDiag = NoDiag
    AnyTerm = AnyTerm
INVARIANTS
    NothingLeftOver
    ReportHonest
    ExitZeroEarned
CHECK_DEADLOCK FALSE
