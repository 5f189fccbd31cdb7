\* A commit that runs out of memory, and the calls after it.
SPECIFICATION FairSpec
CONSTANTS
    Data = {a, b}
    FsSectors = 2
    StoreSize = 5
    MaxCount = 1
    Configs <- DefaultConfig
    Stray = FALSE
    DirectIo = FALSE
    MaxPowerCuts = 0
    MaxFaults = 1
PROPERTY StartAnswered
