SPECIFICATION Spec
CONSTANTS
    Readers = {r1, r2}
    Writers = {w1, w2}
    Free = Free
    Rounds = 2
INVARIANTS
    TypeOK
    ReadsAreConsistent
    WriterExcludesReaders
    CountExact
PROPERTIES
    ReadersEnd
CHECK_DEADLOCK FALSE
