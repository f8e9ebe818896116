SPECIFICATION Spec
CONSTANTS
    Connections = {a, b, d}
    Deleters = {d}
PROPERTIES
    DeletedOnlyUnlocked
SYMMETRY ConnectionSymmetry
CHECK_DEADLOCK FALSE
