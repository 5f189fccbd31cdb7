\* EspJrnl implements AtomicVolume, although log sectors decay at any moment.
SPECIFICATION DecaySpec
CONSTANTS
    Data = {a, b}
    FsSectors = 2
    StoreSize = 6
    MaxCount = 2
    Configs <- DefaultConfig
    Stray = FALSE
    DirectIo = TRUE
    MaxPowerCuts = 1
    MaxFaults = 2
    MaxSpoilt = 1
SYMMETRY Symmetric
INVARIANTS IndInv NoGarbageTransferred
PROPERTIES CommitKeptUnderDecay Refinement
