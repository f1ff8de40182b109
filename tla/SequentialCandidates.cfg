\* Two trees with two queues each, any leaves found, at any distance, in any queue.
CONSTANTS
    LSize = 2
    NPqueue = 2
    Dataset = {1, 2, 3, 4, 5}
    Leaves <- MCLeaves
    TreeOf <- MCTreeOf
    PointsOf <- MCPointsOf
    Distances <- MCDistances
    MaxCandidateSize = 4
SPECIFICATION Spec
INVARIANTS TypeOK
PROPERTIES RefinesNearestLeaves
