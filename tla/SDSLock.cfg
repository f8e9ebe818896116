SPECIFICATION Spec
CONSTANTS
    Connections = {a, b, d}
    Deleters = {d}
INVARIANTS
    TypeOK
    LockExact
    WaitersExact
    NoSleeperOnFreeLock
    LockInUseStays
    NoDeadHolder
PROPERTIES
    LastDeletesUnlocked
SYMMETRY ConnectionSymmetry
CHECK_DEADLOCK FALSE
