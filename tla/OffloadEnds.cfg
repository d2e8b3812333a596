SPECIFICATION Spec
CONSTANTS
    k1 = k1
    k2 = k2
    h1 = h1
    h2 = h2
    copy = copy
    model = model
    d1 = d1
    d2 = d2
    None = None
    Procs = {p1}
    Keys = {k1}
    Hashes = {h1}
    Artifacts = {copy, model}
    Tracked = {model}
    Requests <- OneRequest
    Bytes <- MCBytes
    CallBudget = 2
    EditBudget = 1
    CompletionFile = TRUE
    FaultBudget = 1
PROPERTIES OnlyIntactIndexed IdentityKept OffloadEnds
