CONSTANTS
    Teams = {t1}
    Workspaces = {w1, w2}
    NoTeam = NoTeam
    NoWorkspace = NoWorkspace
    MaxQuota = 2
    MaxBorrow = 1
    Capacity = 2
    EditBudget = 1
    FaultBudget = 1
    RacingTeamEdits = TRUE
    Reserving = TRUE
SPECIFICATION Spec
SYMMETRY Symmetry
INVARIANTS TypeOK BudgetHeld ReservationWithinMaximum
\* Once every object is deleted and the edits are used up, nothing is left to do.
CHECK_DEADLOCK FALSE
