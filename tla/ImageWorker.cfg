SPECIFICATION FairImageSpec
CONSTANTS
    Nil = Nil
    Images = {m1}
    Ops = {o1, o2}
    OperationLimit = 2
    Slots = {1, 2}
    RunFaults = {"exit", "orphan", "reboot"}
INVARIANTS
    RegisteredIntact
PROPERTIES
    SealedStands
    OperationsComplete
