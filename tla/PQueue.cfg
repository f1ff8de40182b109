\* Six elements: pqueue_remove moves one up only when the last is elsewhere.
CONSTANTS
    e1 = e1
    e2 = e2
    e3 = e3
    e4 = e4
    e5 = e5
    e6 = e6
    Elements <- MCElements
    Priorities <- MCPriorities
    InitialSizes <- MCInitialSizes
SPECIFICATION PQueueSpec
SYMMETRY MCSymmetry
INVARIANTS HeapRight
PROPERTIES RefinesPriorityQueue
