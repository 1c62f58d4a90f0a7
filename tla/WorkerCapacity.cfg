SPECIFICATION FairWorkerSpec
CONSTANTS
    w1 = w1
    w2 = w2
    i1 = i1
    i2 = i2
    e1 = e1
    e2 = e2
    e3 = e3
    web = web
    c0 = c0
    None = None
    Self = w1
    Owners = {w1, w2}
    Ids = {i1, i2}
    Apps = {web}
    Endpoints = {e1, e2, e3}
    Canonical = {e1, e2, e3}
    Operations = {}
    Credentials = {c0}
    Names = {n1, n2, n3}
    Applications <- MCApplications
    Socket <- MCSocket
    InitialCredential <- MCInitialCredential
    Workloads <- MCWorkloads
    Preloaded <- MCOtherWorker
    RecordLimit = 2
    ViewLimit = 36
    OperationLimit = 3
    MaxU64 = 4
    MaxI64 = 4
    WorkerFaults = {}
    MaxPosts = 1
PROPERTIES
    RoutedDeletionsArrive
