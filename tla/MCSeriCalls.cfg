SPECIFICATION CallsSpec
CONSTANTS
    Readers = {r1}
    Writers = {}
    Others = {o1, o2}
    Nobody = Nobody
    FifoSize = 2
    Greeting = 2
    ReadSizes = {1, 2}
    WriteSizes = {1}
    NonblockModes = {FALSE}
    LockModes = {TRUE}
    EdgeTriggered = TRUE
    CopyFaults = TRUE
    SlowLine = FALSE
    MaxSignals = 0
    MaxRx = 2
    MaxTx = 2
    Interests <- MCInterests
    Divisors <- OtherDivisor
    MaxIoctls = 1
INVARIANTS
    NoLostPoll
    NoDivisorSent
PROPERTIES
    PollReturns
CHECK_DEADLOCK FALSE
