SPECIFICATION TransportSpec
CONSTANTS
    SeqSpace = 8
    MaxPermitsPerSender = 2
    TrackerBits = 2
    ResendAllMissing = TRUE
    AssumeSequential = FALSE
    MaxSlotsPerSender = 1
    MaxStart = 1
    AllowAsyncPermits = FALSE
    Reorder = TRUE
    MaxSend = 2
    MaxFlow = 2
    MaxFlowMsgs = 2
    MaxWire = 4
    MaxLosses = 1
    MaxAborts = 1
INVARIANTS
    NothingForgotten
    AsksUntilDone
PROPERTY
    ImplementsDataStream
CHECK_DEADLOCK FALSE
