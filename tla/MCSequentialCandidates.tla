---------------------- MODULE MCSequentialCandidates ----------------------
(* SequentialCandidates with two trees of two leaves each, which share     *)
(* points as the trees of one data set do.                                 *)
EXTENDS SequentialCandidates
MCDistances == {0, 1, 2}
MCPoints == ("a" :> <<1, 2>>) @@ ("b" :> <<3, 4>>)
            @@ ("u" :> <<3, 1>>) @@ ("v" :> <<4, 5>>)
MCLeaves == DOMAIN MCPoints
MCTreeOf(l) == IF l \in {"u", "v"} THEN 2 ELSE 1
MCPointsOf(l) == MCPoints[l]
=============================================================================
