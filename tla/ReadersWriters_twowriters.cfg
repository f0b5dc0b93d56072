SPECIFICATION Spec
CONSTANTS
    Readers = {r1, r2}
    Writers = {w1, w2}
    Free = Free
    Rounds = 1
PROPERTIES
    ProgramEnds
