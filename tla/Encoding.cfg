\* Eight symbols, any three values as breakpoints; bounds inside the values.
CONSTANTS
    LSHDimensionality = 2
    Bits = 3
    AlphabetCardinality = 8
    Tables <- MCTables
    Values <- MCValues
    BinsLowerBound <- MCLower
    BinsUpperBound <- MCUpper
SPECIFICATION EncodingSpec
INVARIANTS SymbolBrackets NeverTooFar
