SPECIFICATION FairSpec
CONSTANTS
    Tasks = {a, b}
    NoTask = NoTask
    Slots = {0}
    StoreSize = 9
    Ops <- AllOps
    Beside <- NoDisk
    ImmediateFsync = FALSE
    MaxCalls = 2
    MaxFaults = 1
INVARIANTS
    TypeOK
    UpdatesKept
    SlotsOwned
    StartAssertionHolds
PROPERTIES
    JournalAtomic
    CallsReturn
