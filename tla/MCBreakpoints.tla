--------------------------- MODULE MCBreakpoints ---------------------------
(* Breakpoints for every data set of two values in one dimension; in the   *)
(* second one the values are the other way round.                          *)
EXTENDS Breakpoints, TLC
MCDataSets == {(0 :> f) @@ (1 :> [n \in DOMAIN f |-> 3 - f[n]]) :
                  f \in [0 .. DataPointNum - 1 -> 1 .. 2]}
\* A data set for which a program built with libstdc++ gets lines out of order.
MCOrderDataSets == {0 :> [n \in 0 .. 15 |-> IF n \in {0, 2, 4, 6} THEN 2 ELSE 1]}
=============================================================================
