\* Default configuration, power cuts and a driver error at every sector.
SPECIFICATION Spec
CONSTANTS
    Data = {a, b}
    FsSectors = 2
    StoreSize = 7
    MaxCount = 2
    Configs <- ReplayingConfigs
    Stray = FALSE
    DirectIo = TRUE
    MaxPowerCuts = 2
    MaxFaults = 1
SYMMETRY Symmetric
INVARIANTS TypeOK LogReplayable RecoveredBeforeUse WedgedOnlyByFault
PROPERTIES WriteAhead CommitKept
