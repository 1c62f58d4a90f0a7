SPECIFICATION Spec
CONSTANTS
    i1 = i1
    i2 = i2
    e1 = e1
    e2 = e2
    e1m = e1m
    web = web
    c0 = c0
    c1 = c1
    None = None
    Corrupt = Corrupt
    Owners = {w1, w2}
    Ids = {i1}
    Apps = {web}
    Endpoints = {e1, e1m}
    Operations = {op1}
    Credentials = {c0, c1}
    Applications <- MCApplications
    Canonical <- MCCanonical
    Socket <- MCSocket
    InitialCredential <- MCInitialCredential
    Offers <- MCOffers
    RecordLimit = 1
    ViewLimit = 36
    MaxU64 = 4
    Revisions = {1, 2}
    MaxInFlight = 1
    MaxUnsynced = 2
    Faults = {}
INVARIANTS
    EndpointsExclusive
    FencedNeverCommits
CHECK_DEADLOCK FALSE
