\* Two workers, slices of one record and of two, three soft buffers, and every
\* assignment of the records to the buffers: both workers may meet in one, a
\* slot grows, the list gets up to three roots.
CONSTANTS
    NumThread = 2
    NumRecords = 3
    NumBuffers = 3
    InitialBufferSize = 1
SPECIFICATION Spec
INVARIANTS TypeOK EachRecordOnce Complete StoredInOrder UsedAfterCreation
           OneWorkerPerSubtree RootList
PROPERTIES PhasesApart RefinesIndexBuild Terminates
