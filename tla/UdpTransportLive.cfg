SPECIFICATION FairSpec
CONSTANTS
    SeqSpace = 8
    MaxPermitsPerSender = 2
    TrackerBits = 2
    ResendAllMissing = TRUE
    AssumeSequential = FALSE
    MaxSlotsPerSender = 1
    MaxStart = 2
    AllowAsyncPermits = TRUE
    Reorder = FALSE
    MaxSend = 2
    MaxFlow = 7
    MaxFlowMsgs = 1
    MaxWire = 3
    MaxLosses = 1
    MaxAborts = 1
PROPERTIES
    AllDelivered
CHECK_DEADLOCK FALSE
