SPECIFICATION Spec
CONSTANTS
    Senders = {1, 2}
    SeqSpace = 2
    SendSeqs = {0}
    MaxPermitsPerSender = 1
    MaxPendingPermits = 2
    MinSlotsPerSender = 1
    MaxSlotsPerSender = 1
    MaxStart = 2
    MaxPermitDeadTimeouts = 0
    QueueLimit = 2
    ResendDelay = TRUE
    MaxOverrun = 1
INVARIANTS
    ConsistentFlow
PROPERTIES
    GrantsFitQueue
