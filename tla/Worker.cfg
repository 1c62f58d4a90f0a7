SPECIFICATION FairWorkerSpec
CONSTANTS
    w1 = w1
    w2 = w2
    i1 = i1
    i2 = i2
    e1 = e1
    e2 = e2
    e3 = e3
    web = web
    c0 = c0
    None = None
    Self = w1
    Owners = {w1}
    Ids = {i1}
    Apps = {web}
    Endpoints = {e1, e2}
    Canonical = {e1, e2}
    Operations = {}
    Credentials = {c0}
    Names = {n1, n2, n3}
    Applications <- MCApplications
    Socket <- MCSocket
    InitialCredential <- MCInitialCredential
    Workloads <- MCWorkloads
    Preloaded <- EmptyState
    RecordLimit = 2
    ViewLimit = 100
    OperationLimit = 2
    MaxU64 = 4
    MaxI64 = 4
    WorkerFaults = {"unit", "probe", "daemon"}
    MaxPosts = 2
INVARIANTS
    WorkerAhead
    PostsVerifiedOnly
    AnsweredIsDurable
    DeletionReserve
PROPERTIES
    DeletionsArrive
