------------------------------ MODULE MCPQueue ------------------------------
(* PQueue with six elements, in up to three levels, three priorities.      *)
EXTENDS PQueue, TLC
CONSTANTS e1, e2, e3, e4, e5, e6
MCElements == {e1, e2, e3, e4, e5, e6}
MCPriorities == 0 .. 2
MCInitialSizes == {0, 1}
MCSymmetry == Permutations(MCElements)
=============================================================================
