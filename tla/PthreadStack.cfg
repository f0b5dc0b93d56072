SPECIFICATION Spec
CONSTANTS
    Producers = {p1, p2}
    Consumers = {c1, c2}
    PerProducer = 3
    PerConsumer = 3
    Size = 2
    Free = Free
    Null = Null
    Junk = Junk
INVARIANTS
    TypeOK
PROPERTIES
    AbstractSpec
    AllReturn
