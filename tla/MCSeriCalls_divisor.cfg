SPECIFICATION CallsSpec
CONSTANTS
    Readers = {}
    Writers = {}
    Others = {o1}
    Nobody = Nobody
    FifoSize = 2
    Greeting = 1
    ReadSizes = {1}
    WriteSizes = {1}
    NonblockModes = {FALSE}
    LockModes = {TRUE}
    EdgeTriggered = TRUE
    CopyFaults = FALSE
    SlowLine = FALSE
    MaxSignals = 0
    MaxRx = 0
    MaxTx = 0
    Interests <- MCInterests
    Divisors <- OtherDivisor
    MaxIoctls = 1
INVARIANTS
    GetReturnsDivisor
CHECK_DEADLOCK FALSE
