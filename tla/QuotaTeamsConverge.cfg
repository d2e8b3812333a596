CONSTANTS
    Teams = {t1, t2}
    Workspaces = {w1}
    NoTeam = NoTeam
    NoWorkspace = NoWorkspace
    MaxQuota = 1
    MaxBorrow = 0
    Capacity = 1
    EditBudget = 2
    FaultBudget = 0
    RacingTeamEdits = TRUE
    Reserving = FALSE
SPECIFICATION FairSpec
PROPERTIES Converges
\* Once every object is deleted and the edits are used up, nothing is left to do.
CHECK_DEADLOCK FALSE
