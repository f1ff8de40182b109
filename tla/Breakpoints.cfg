\* Three workers for five records of the sample and two dimensions: remainders
\* in both parts, every kind of sampling.
CONSTANTS
    NumThread = 3
    LSHDimensionality = 2
    Bits = 2
    AlphabetCardinality = 4
    SampleSize = 5
    DataPointNum = 7
    SampleTypes = {1, 2, 3}
    DataSets <- MCDataSets
SPECIFICATION SelectionSpec
INVARIANTS SelectionWhole
