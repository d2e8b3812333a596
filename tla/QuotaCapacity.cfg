CONSTANTS
    Teams = {t1, t2}
    Workspaces = {w1}
    NoTeam = NoTeam
    NoWorkspace = NoWorkspace
    MaxQuota = 2
    MaxBorrow = 0
    Capacity = 2
    EditBudget = 2
    FaultBudget = 1
    RacingTeamEdits = TRUE
    Reserving = FALSE
SPECIFICATION Spec
SYMMETRY Symmetry
INVARIANTS MembershipIntact
PROPERTIES TeamWriteWithinCapacity
\* Once every object is deleted and the edits are used up, nothing is left to do.
CHECK_DEADLOCK FALSE
