SPECIFICATION Spec
CONSTANTS
    Teams = {1, 2}
    Workspaces = {1}
    MaxQuota = 1
    NoLimit = NoLimit
    Limits = {NoLimit}
    Supplies = {1, 2}
    Spare = 0
    EditBudget = 4
    FaultBudget = 1
INVARIANTS TypeOK TreeIntact
PROPERTIES OpensWithinSupply HoldsFollow
CHECK_DEADLOCK FALSE
