-------------------------------- MODULE Bins --------------------------------
(***************************************************************************)
(* index->bins, the table of breakpoints: what breakpoints_selection       *)
(* leaves there, encoding and query_to_node_dist read.                     *)
(***************************************************************************)
EXTENDS Integers, SaxBits

CONSTANTS LSHDimensionality,    \* LSH_dimensionality
          AlphabetCardinality   \* sax_alphabet_cardinality

ASSUME DimensionalityAssumption == LSHDimensionality \in Nat
ASSUME CardinalityAssumption == AlphabetCardinality \in 2 .. 256

\* pow(2, n) and 1 << n
Power[n \in 0 .. Bits] == IF n = 0 THEN 1 ELSE 2 * Power[n - 1]

ASSUME AlphabetAssumption == AlphabetCardinality = Power[Bits]

Dims == 0 .. LSHDimensionality - 1
Lines == 0 .. AlphabetCardinality - 2

VARIABLE bins    \* one line less than symbols, for each dimension
=============================================================================
