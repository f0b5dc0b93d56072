SPECIFICATION Spec
CONSTANTS
    Others = {}
    Nobody = Nobody
    Readers = {r1}
    Writers = {w1}
    FifoSize = 4
    Greeting = 1
    ReadSizes = {1}
    WriteSizes = {2}
    NonblockModes = {FALSE}
    LockModes = {TRUE}
    EdgeTriggered = TRUE
    CopyFaults = FALSE
    SlowLine = TRUE
    MaxSignals = 0
    MaxRx = 0
    MaxTx = 5
INVARIANTS
    TxFaithful
CHECK_DEADLOCK FALSE
