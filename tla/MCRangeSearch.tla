--------------------------- MODULE MCRangeSearch ---------------------------
(* RangeSearch on a list of three roots: an inner node over a leaf and an  *)
(* inner node with two leaves, and two roots that are leaves.              *)
EXTENDS RangeSearch
MCNodes == {"A", "A0", "A1", "A10", "A11", "B", "C"}
MCRootList == <<"A", "B", "C">>
MCLeft == ("A" :> "A0") @@ ("A1" :> "A10")
MCRight == ("A" :> "A1") @@ ("A1" :> "A11")
=============================================================================
