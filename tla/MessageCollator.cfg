SPECIFICATION FairSpec
CONSTANTS
    long = long
    short = short
    None = None
    Messages = {long, short}
    Packets <- MCPackets
    RESENT = 4
    MaxArrivals = 4
    MaxQueue = 1
    MemoryLimit = TRUE
INVARIANTS
    SequencersExact
    ResultsReadable
    BuffersConserved
    TokensExact
PROPERTIES
    EventuallyDelivered
CHECK_DEADLOCK FALSE
