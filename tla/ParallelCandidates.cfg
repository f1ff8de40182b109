\* Two threads, lists of up to five leaves.
CONSTANTS
    NumThread = 2
    MaxCandidateSize = 3
    Dataset = {0, 1, 2, 3, 4, 5}
    LeafLists <- MCLeafLists
    WordOf <- MCWordOf
SPECIFICATION Spec
INVARIANTS TypeOK LostOnlyByWordRace FillComplete
PROPERTIES Terminates
