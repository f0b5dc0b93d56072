SPECIFICATION Spec
CONSTANTS
    Others = {}
    Nobody = Nobody
    Readers = {r1, r2}
    Writers = {w1}
    FifoSize = 2
    Greeting = 1
    ReadSizes = {1, 2}
    WriteSizes = {1, 2}
    NonblockModes = {TRUE, FALSE}
    LockModes = {TRUE}
    EdgeTriggered = TRUE
    CopyFaults = FALSE
    SlowLine = FALSE
    MaxSignals = 0
    MaxRx = 3
    MaxTx = 3
SYMMETRY Symmetry
INVARIANTS
    TypeOK
    AtMostOneUser
    RxFaithful
    ReadExact
    NoLostWakeup
    MutexExcludes
    TxNeverStalls
    TxFlagReliable
    TxAtMostOnce
CHECK_DEADLOCK FALSE
