CONSTANTS
    NumFiles = 2
    Startup <- EmptyHistories
    MaxLength = 2
    MaxRuns = 1
    MaxAttempts = 2
    MetadataRows = FALSE
    Baseline = FALSE
    FaultBudget = 1
    SignalBudget = 1
    ChurnBudget = 0
SPECIFICATION FairSpec
INVARIANTS NothingLost NothingTwice SpoolRecoverable PrefixKept StatusLast
PROPERTIES CheckpointGrows Reported
