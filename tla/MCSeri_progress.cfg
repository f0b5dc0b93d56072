SPECIFICATION Spec
CONSTANTS
    Others = {}
    Nobody = Nobody
    Readers = {r1, r2}
    Writers = {w1}
    FifoSize = 2
    Greeting = 1
    ReadSizes = {1}
    WriteSizes = {2}
    NonblockModes = {TRUE, FALSE}
    LockModes = {TRUE, FALSE}
    EdgeTriggered = TRUE
    CopyFaults = FALSE
    SlowLine = TRUE
    MaxSignals = 2
    MaxRx = 1
    MaxTx = 3
INVARIANTS
    TxFaithful
PROPERTIES
    TxDrains
    SignalReturns
    CallsReturn
CHECK_DEADLOCK FALSE
