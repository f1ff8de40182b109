\* Two segments of three bits: sixteen words, leaves of up to two records, trees
\* of depth up to four. Three equal words make a chain of splits down to the
\* last bit.
CONSTANTS
    Segments <- MCSegments
    Bits = 3
    MaxLeafSize = 2
    RootBits <- MCRootBits
    MaxRecords = 3
SPECIFICATION Spec
INVARIANTS TypeOK NothingLost SearchReaches ExitOnlyOnEqualWords
PROPERTIES InsertionEnds
