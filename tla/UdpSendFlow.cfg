SPECIFICATION MCSpec
CONSTANTS
    Workers = {w1, w2}
    SeqSpace = 4
    QueueSize = 2
    PermitQueueSize = 1
    MaxData = 1
    MaxDeadTimeouts = 2
    AllowAsyncPermits = FALSE
    RemoveDuplicates = TRUE
    CanAbort = TRUE
    IsLocal = TRUE
    StalePermits = FALSE
    MaxTimeouts = 2
    MaxUnacked = 1
INVARIANTS
    CounterExact
    ConsistentSend
    NoStrandedUntilGivenUp
SYMMETRY WorkerSymmetry
