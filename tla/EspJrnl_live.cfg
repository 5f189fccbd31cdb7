SPECIFICATION FairSpec
CONSTANTS
    Data = {a, b}
    FsSectors = 2
    StoreSize = 6
    MaxCount = 1
    Configs <- DefaultConfig
    Stray = FALSE
    DirectIo = FALSE
    MaxPowerCuts = 2
    MaxFaults = 1
PROPERTIES RecoveryCompletes CallsReturn
