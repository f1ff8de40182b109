\* Every command line of up to two options.
CONSTANTS
    Defaults <- MCDefaults
    OptionValues <- MCOptionValues
    MaxOptions = 2
    HeldOut = 1
    DataFile <- MCDataFile
    QueryFile <- MCQueryFile
    GroundTruthK = 2
    Leaves = {"A", "B"}
    LeafOf <- MCLeafOf
    Distances = {1, 2}
SPECIFICATION Spec
INVARIANTS TypeOK AnswersExact RecallComplete
