SPECIFICATION Spec
CONSTANTS
    Tasks = {t1}
    MaxVolumes = 2
    MaxHandles = 2
    MaxDevices = 3
    Partitions = {p1}
    Cards = {c1}
    Paths = {x}
    ReusePaths = FALSE
INVARIANT FormatAccepted
