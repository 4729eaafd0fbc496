CONSTANTS
    U64Max = 7
    Capabilities <- MCCapabilities
    Budgets <- MCBudgets
    NetworkDeny = TRUE
    MayPause <- MCMayPause
    NetworkChannels = {"remote"}
    NoTarget = "no_target"
    Recommendations <- DeviceRecs
    MaxSteps = 3
    MaxRepairs = 1
    StepBudget = 0
    TokenBudget = 0
    WallBudget = FALSE
    MaxDecode = 0
    FinishOnNoProgress = TRUE
    WriteJournal = TRUE
    Attached = {"store", "sim", "device"}
    RefreshMachine = FALSE
    JournalFaults = FALSE
    Observations = {"goal", "other"}
    Repairs = {"repair"}
    Marked = {"goal"}
    Attempts = 1
    HasExpect = TRUE
    HasPostCheck = FALSE
    MaxPaused = 0
SPECIFICATION Spec
INVARIANT
    MachineSpendWithinBudget
