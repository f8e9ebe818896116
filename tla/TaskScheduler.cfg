SPECIFICATION FairSpec
CONSTANTS
    r = r
    a = a
    b = b
    c = c
    Completion = Completion
    None = None
    NumProcessors = 2
    Tasks = {r, a, b, c}
    Roots <- MCRoots
    Children <- MCChildren
    StackSize = 1
    SeqSpace = 4
    FirstSeq = 3
    Throwers = {a}
    CanStop = TRUE
INVARIANTS
    ExecutedOnce
    NothingLost
    CompletesLast
    NoSleepOnWork
PROPERTIES
    ReturnsUnlessRefused
    EventuallyJoined
CHECK_DEADLOCK FALSE
