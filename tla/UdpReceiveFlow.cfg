SPECIFICATION Spec
CONSTANTS
    Senders = {1}
    SeqSpace = 4
    SendSeqs = {0}
    MaxPermitsPerSender = 2
    MaxPendingPermits = 2
    MinSlotsPerSender = 1
    MaxSlotsPerSender = 1
    MaxStart = 2
    MaxPermitDeadTimeouts = 1
    QueueLimit = 2
    ResendDelay = FALSE
    MaxOverrun = 1
INVARIANTS
    RequestListExact
    PermitListExact
    NumPermitsExact
PROPERTIES
    ImplementsFlowReceiver
