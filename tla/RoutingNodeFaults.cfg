SPECIFICATION Spec
CONSTANTS
    i1 = i1
    i2 = i2
    e1 = e1
    e2 = e2
    e1m = e1m
    web = web
    c0 = c0
    c1 = c1
    None = None
    Corrupt = Corrupt
    Owners = {w1}
    Ids = {i1, i2}
    Apps = {web}
    Endpoints = {e1, e2}
    Operations = {op1}
    Credentials = {c0, c1}
    Applications <- MCApplications
    Canonical <- MCCanonical
    Socket <- MCSocket
    InitialCredential <- MCInitialCredential
    Offers <- MCGrowingOffers
    RecordLimit = 2
    ViewLimit = 20
    MaxU64 = 4
    Revisions = {1, 3}
    MaxInFlight = 1
    MaxUnsynced = 2
    Faults = {"save", "crash", "power"}
INVARIANTS
    TypeOK
    AcknowledgedSurvives
    SaveProtocol
    AlwaysStarts
    ServedSurvivesCrash
    FreshMeansConfirmed
    DeletionAlwaysFits
PROPERTIES
    KeepsPromise
    HandlesAtomically
    FrozenHistoryStands
CHECK_DEADLOCK FALSE
