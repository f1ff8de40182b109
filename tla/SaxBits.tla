------------------------------ MODULE SaxBits -------------------------------
(***************************************************************************)
(* sax_bit_cardinality, which the breakpoints, the encodings and the trees *)
(* of encodings have in common.                                            *)
(***************************************************************************)
EXTENDS Naturals

CONSTANT Bits    \* sax_bit_cardinality

ASSUME BitsAssumption == Bits \in Nat \ {0}
=============================================================================
