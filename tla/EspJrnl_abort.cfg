SPECIFICATION Spec
CONSTANTS
    Data = {a, b}
    FsSectors = 2
    StoreSize = 5
    MaxCount = 1
    Configs <- ReplayingConfigs
    Stray = FALSE
    DirectIo = FALSE
    MaxPowerCuts = 1
    MaxFaults = 0
INVARIANT ReplayNeverAborts
