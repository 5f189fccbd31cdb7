SPECIFICATION Spec
CONSTANTS
    Tasks = {t1}
    MaxVolumes = 2
    MaxHandles = 2
    MaxDevices = 3
    Partitions = {p1, p2}
    Cards = {c1}
    Paths = {x, y}
    ReusePaths = FALSE
SYMMETRY Symmetric
INVARIANTS TypeOK Wired FsObjectLive NothingLeftBehind
