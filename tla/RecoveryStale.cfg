SPECIFICATION RecoverySpec
CONSTANTS
    w1 = w1
    i1 = i1
    e1 = e1
    e2 = e2
    web = web
    c0 = c0
    c1 = c1
    c2 = c2
    op1 = op1
    None = None
    Self = w1
    Owners = {w1}
    Ids = {i1}
    Apps = {web}
    Endpoints = {e1, e2}
    Canonical = {e1, e2}
    Operations = {op1, op2}
    Credentials = {c0, c1, c2}
    Names = {n1, n2, n3}
    Applications <- MCApplications
    Socket <- MCSocket
    InitialCredential <- MCInitialCredential
    FreshCredential <- MCFreshCredential
    Workloads <- MCWorkloads
    Preloaded <- EmptyState
    RecordLimit = 2
    ViewLimit = 100
    OperationLimit = 3
    MaxU64 = 6
    MaxI64 = 6
    WorkerFaults = {"daemon"}
    MaxPosts = 1
    RerunComplete = FALSE
    StaleBackup = TRUE
SYMMETRY NameSymmetry
INVARIANTS
    ResultAcceptable
