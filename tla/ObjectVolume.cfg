SPECIFICATION FairSpec
CONSTANTS
    None = None
    g1 = g1
    InitialSize = 1
    GroupSize = 4
    Calls <- MCCalls
    Increment = 1
    Threshold = 80
    Reserve = 1
    Objects = {o1}
    Slots = {1, 2}
    MaxStrays = 1
    VolumeFaults = {"unmount", "power", "request", "service", "controller", "space"}
INVARIANTS
    AcknowledgedStand
    ObjectsWhole
    GrowthAccounted
PROPERTIES
    PutsArrive
