SPECIFICATION Spec
CONSTANTS
    Readers = {r1}
    Writers = {w1, w2}
    MaxItems = 1
    NumSlots = 2
    SeqSpace = 8
    FirstSeq = 6
    ReaderLimit = 2
    WriterLimit = 4
    FirstItems = 3
    LaterItems = 2
    MaxCuts = 0
    MaxResets = 1
PROPERTY
    NeverOverflows
CHECK_DEADLOCK FALSE
