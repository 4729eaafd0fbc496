CONSTANTS
    U64Max = 7
    Capabilities <- MCCapabilities
    Budgets <- MCBudgets
    NetworkDeny = TRUE
    MayPause <- MCMayPause
    NetworkChannels = {"remote"}
    NoTarget = "no_target"
    Recommendations <- AllRecs
    MaxSteps = 3
    MaxRepairs = 1
    StepBudget = 2
    TokenBudget = 2
    WallBudget = TRUE
    MaxDecode = 1
    FinishOnNoProgress = TRUE
    WriteJournal = FALSE
    Attached = {"store"}
    RefreshMachine = TRUE
    JournalFaults = FALSE
    Observations = {"goal", "other"}
    Repairs = {"repair", "lesson"}
    Marked = {"goal", "lesson"}
    Attempts = 2
    HasExpect = TRUE
    HasPostCheck = TRUE
    MaxPaused = 0
SPECIFICATION FairSpec
INVARIANTS
    ChargedWithinBudget
    ResultHonest
PROPERTY
    Terminates
