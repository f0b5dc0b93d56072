SPECIFICATION Spec
CONSTANTS
    Others = {}
    Nobody = Nobody
    Readers = {r1}
    Writers = {w1}
    FifoSize = 2
    Greeting = 1
    ReadSizes = {1}
    WriteSizes = {1}
    NonblockModes = {FALSE}
    LockModes = {TRUE}
    EdgeTriggered = TRUE
    CopyFaults = FALSE
    SlowLine = FALSE
    MaxSignals = 1
    MaxRx = 1
    MaxTx = 2
INVARIANTS
    MutexExcludes
CHECK_DEADLOCK FALSE
