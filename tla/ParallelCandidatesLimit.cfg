\* The documented limit on the number of candidates.
CONSTANTS
    NumThread = 2
    MaxCandidateSize = 2
    Dataset = {0, 1, 2, 3, 4, 5}
    LeafLists <- MCLeafLists
    WordOf <- MCWordOf
SPECIFICATION Spec
INVARIANTS AtMostMaxCandidates
