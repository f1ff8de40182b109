----------------------- MODULE MCParallelCandidates -----------------------
(* ParallelCandidates with leaves of at most two points, two points to a   *)
(* word; trees share points, so a point may be in more than one leaf.      *)
EXTENDS ParallelCandidates
MCLeafLists == {<<>>,
                <<<<0>>, <<1>>, <<2, 3>>, <<4>>>>,
                <<<<0, 2>>, <<1, 3>>, <<0>>, <<1>>, <<4, 5>>>>,
                <<<<0>>, <<2>>, <<4>>, <<0, 1>>, <<5>>>>}
MCWordOf(p) == p \div 2
=============================================================================
