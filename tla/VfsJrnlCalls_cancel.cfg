SPECIFICATION Spec
CONSTANTS
    Tasks = {a, b}
    NoTask = NoTask
    Slots = {0}
    StoreSize = 9
    Ops <- AllOps
    Beside <- NoDisk
    ImmediateFsync = FALSE
    MaxCalls = 3
    MaxFaults = 0
INVARIANT CallsAllOrNothing
