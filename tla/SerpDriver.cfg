SPECIFICATION Spec
CONSTANTS
    Readers = {r1, r2}
    Writers = {w1, w2}
    Nobody = Nobody
    Enters = {2}
    ReadSizes = {2}
    WriteSizes = {1, 2}
    CopyFaults = TRUE
    MaxRx = 3
    MaxTx = 2
INVARIANTS
    SerpReadOnce
    SerpEioMeansLoss
    SerpTxFaithful
PROPERTIES
    SerpWritersAdvance
CHECK_DEADLOCK FALSE
