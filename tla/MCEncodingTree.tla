--------------------------- MODULE MCEncodingTree ---------------------------
(* EncodingTree for the root whose records have 0 as the top bit of every  *)
(* segment; the other roots differ by a renaming of the bits.              *)
EXTENDS EncodingTree
MCSegments == 0 .. 1
MCRootBits == [s \in Segments |-> 0]
=============================================================================
