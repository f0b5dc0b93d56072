SPECIFICATION ProgramsSpec
CONSTANTS
    IntMax = 3
    MaxThreads = 4
    MaxSize = 5
    MaxCount = 2
    PathLength = 2
    OldLengths = {0, 3}
    GccCodes = {0, 1}
    BUFFERSIZE = 2
    Letters = 2
    CopySizes = {0, 1, 5}
    PartSizes = {0, 3}
    SampleSizes = {0, 9, 10, 25}
    Offsets <- MCOffsets
    Classes <- MCClasses
    StackBytes = {10, 17}
INVARIANTS
    ThreadAnswers
    SlicesApart
    FamilyResults
    CopiesWhole
    RecordsRead
    TestsReport
PROPERTIES
    ProgramsEnd
