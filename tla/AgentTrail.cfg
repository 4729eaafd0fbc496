CONSTANTS
    U64Max = 7
    Capabilities <- MCCapabilities
    Budgets <- MCBudgets
    NetworkDeny = TRUE
    MayPause <- MCMayPause
    NetworkChannels = {"remote"}
    NoTarget = "no_target"
    Recommendations <- TrailRecs
    MaxSteps = 3
    MaxRepairs = 1
    StepBudget = 0
    TokenBudget = 0
    WallBudget = FALSE
    MaxDecode = 0
    FinishOnNoProgress = TRUE
    WriteJournal = TRUE
    Attached = {"store", "sim", "device"}
    RefreshMachine = FALSE
    JournalFaults = TRUE
    Observations = {"goal"}
    Repairs = {"repair"}
    Marked = {"goal"}
    Attempts = 2
    HasExpect = FALSE
    HasPostCheck = TRUE
    MaxPaused = 1
SPECIFICATION Spec
INVARIANTS
    TypeOK
    EffectsAuthorised
    TrailConnected
    SpendWithinBudget
CONSTRAINT ShortRetry
