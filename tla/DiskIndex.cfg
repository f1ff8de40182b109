\* One segment of three bits: two roots with up to four leaves each.
CONSTANTS
    Segments = {0}
    Bits = 3
    MaxLeafSize = 2
    InitialBufferSize = 2
    InitialFblBufferSize = 1
    TotalLoadedLeaves = 2
    MaxFullBufferSize = 2
    FullRecordSize = 2
    PartialRecordSize = 1
    MaxRecords = 4
    MasksInOrder <- MCMasksInOrder
    InputWords <- MCInputWords
    MaxRestarts = 1
    Distances <- MCDistances
    Unbounded = 9
    K = 2
SPECIFICATION Spec
INVARIANTS TypeOK NothingLost HardBufferHeld QuerySeesLeaf
PROPERTIES KnnLeast RefinesEncodingTree
