SPECIFICATION Spec
CONSTANTS
    Names = {a, b}
    Namespaces = {n1, n2}
    Existing = {n2}
    None = None
    MaxUid = 3
    EditBudget = 4
    WorkBudget = 1
    FaultBudget = 1
    a = a
    b = b
    n1 = n1
    n2 = n2
INVARIANTS TypeOK NothingSurvives
PROPERTIES NamespaceKept CleanupKeepsRoutes
CHECK_DEADLOCK FALSE
