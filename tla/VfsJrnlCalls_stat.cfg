SPECIFICATION Spec
CONSTANTS
    Tasks = {a, b}
    NoTask = NoTask
    Slots = {0}
    StoreSize = 9
    Ops <- AllOps
    Beside <- Bare
    ImmediateFsync = FALSE
    MaxCalls = 3
    MaxFaults = 0
INVARIANT StartAssertionHolds
