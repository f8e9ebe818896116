SPECIFICATION FairSpec
CONSTANTS
    Readers = {r1, r2}
    Writers = {w1}
    MaxItems = 1
    NumSlots = 2
    SeqSpace = 8
    FirstSeq = 6
    ReaderLimit = 8
    WriterLimit = 4
    FirstItems = 3
    LaterItems = 2
    MaxCuts = 1
    MaxResets = 1
INVARIANTS
    DequeuesInOrder
    SlotsExclusive
    WaitersCovered
    AllReceived
PROPERTIES
    EventuallyDone
CHECK_DEADLOCK FALSE
