\* Two workers, two queues, every set of near nodes and of empty leaves.
CONSTANTS
    NumThread = 2
    NPqueue = 2
    Nodes <- MCNodes
    RootList <- MCRootList
    Left <- MCLeft
    Right <- MCRight
SPECIFICATION Spec
INVARIANTS TypeOK QueueOwned FoundOnce NoFalseDismissal
PROPERTIES Terminates
