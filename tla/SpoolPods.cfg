CONSTANTS
    NumFiles = 1
    Startup <- OldHistories
    MaxLength = 4
    MaxRuns = 2
    MaxAttempts = 1
    MetadataRows = TRUE
    Baseline = TRUE
    FaultBudget = 1
    SignalBudget = 0
    ChurnBudget = 1
SPECIFICATION Spec
INVARIANTS TypeOK NothingOld NothingLost StatusLast
