SPECIFICATION Spec
CONSTANTS
    SeqSpace = 8
    TrackerBits = 2
    ResendAllMissing = TRUE
    AssumeSequential = FALSE
    MaxData = 2
    ResendDelay = TRUE
    MaxSend = 10
    MaxWire = 2
    MaxPermits = 2
    MaxFaults = 1
INVARIANTS
    ReleasedOnlyIfDelivered
    DeliveredOnce
    WindowRespected
    TrackerExact
