SPECIFICATION FairProxySpec
CONSTANTS
    w1 = w1
    w2 = w2
    i1 = i1
    e1 = e1
    e2 = e2
    web = web
    c0 = c0
    c1 = c1
    op1 = op1
    None = None
    Owners = {w1, w2}
    Ids = {i1}
    Apps = {web}
    Endpoints = {e1, e2}
    Canonical = {e1, e2}
    Operations = {op1}
    Credentials = {c0, c1}
    Applications <- MCApplications
    Socket <- MCSocket
    InitialCredential <- MCInitialCredential
    History <- MCHistory
    Routed = {web}
    OwnerLimit = 16
    Recoverer = op1
    NewHash = c1
    RecordLimit = 1
    ViewLimit = 100
    MaxU64 = 5
    ProxyFaults = {"fetch", "save", "crash", "power"}
INVARIANTS
    RetiredStaysRetired
    RestartsWithRoutes
PROPERTIES
    ActivationsContinue
    RetirementArrives
