SPECIFICATION Spec
CONSTANTS
    k1 = k1
    k2 = k2
    h1 = h1
    h2 = h2
    copy = copy
    model = model
    d1 = d1
    d2 = d2
    None = None
    Procs = {p1, p2}
    Keys = {k1, k2}
    Hashes = {h1, h2}
    Artifacts = {copy}
    Tracked = {}
    Requests <- ThreeRequests
    Bytes <- MCBytes
    CallBudget = 2
    EditBudget = 1
    CompletionFile = FALSE
    FaultBudget = 1
SYMMETRY Symmetry
INVARIANTS TypeOK 
PROPERTIES LedgerKept
