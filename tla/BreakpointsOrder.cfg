\* One worker and one dimension, seven lines from a sample of sixteen.
CONSTANTS
    NumThread = 1
    LSHDimensionality = 1
    Bits = 3
    AlphabetCardinality = 8
    SampleSize = 16
    DataPointNum = 16
    SampleTypes = {1}
    DataSets <- MCOrderDataSets
SPECIFICATION SelectionSpec
INVARIANTS BreakpointsInOrder
