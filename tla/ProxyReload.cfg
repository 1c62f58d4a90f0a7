SPECIFICATION FairReloadSpec
CONSTANTS
    echo = echo
    store = store
    p1 = p1
    p2 = p2
    None = None
    Invalid = Invalid
    Apps = {echo, store}
    Ports = {p1, p2}
    Configs <- MCConfigs
    Objects = {1, 2, 3}
    Limit <- MCLimit
    GlobalLimit = 3
    MaxReloads = 3
    ReloadFaults = {"validation", "accept", "terminate"}
    target_ms = 2
    connect_ms = 5
    AddressLimit = 2
    TargetLists <- MCTargetLists
INVARIANTS
    LimitsHold
    PermitsReturn
    OneAcceptPerPort
    SessionsConnect
PROPERTIES
    ReloadArrives
    DrainEnds
CHECK_DEADLOCK FALSE
