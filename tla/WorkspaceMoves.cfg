SPECIFICATION Spec
CONSTANTS
    Names = {a}
    Namespaces = {n1, n2}
    Existing = {n2}
    None = None
    MaxUid = 3
    EditBudget = 4
    WorkBudget = 1
    FaultBudget = 2
    a = a
    n1 = n1
    n2 = n2
PROPERTIES MoveEnds DeletionEnds
CHECK_DEADLOCK FALSE
