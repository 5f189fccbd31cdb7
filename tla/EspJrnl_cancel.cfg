\* A client that may write or cancel out of turn, and one failing disk operation.
SPECIFICATION Spec
CONSTANTS
    Data = {a, b}
    FsSectors = 2
    StoreSize = 5
    MaxCount = 1
    Configs <- DefaultConfig
    Stray = TRUE
    DirectIo = FALSE
    MaxPowerCuts = 0
    MaxFaults = 1
PROPERTY CommitKept
