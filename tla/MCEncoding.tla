----------------------------- MODULE MCEncoding -----------------------------
(* Encoding in two dimensions: one with any breakpoints at all, in order or *)
(* not, and one with breakpoints that coincide.                             *)
EXTENDS Encoding, TLC
MCLower == [d \in Dims |-> 1]
MCUpper == [d \in Dims |-> 3]
MCValues == 0 .. 4
MCTables == {(0 :> any) @@ (1 :> (0 :> 1 @@ 1 :> 1 @@ 2 :> 1 @@ 3 :> 2
                                  @@ 4 :> 2 @@ 5 :> 2 @@ 6 :> 3)) :
                any \in [Lines -> 1 .. 3]}
=============================================================================
