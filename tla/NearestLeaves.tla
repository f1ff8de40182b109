--------------------------- MODULE NearestLeaves ---------------------------
(* What the candidate step of a query promises: the points of the nearest  *)
(* leaves, leaf by leaf over all trees, until there are MaxCandidateSize   *)
(* of them or the range queries have found no more.                        *)
EXTENDS Integers, Sequences, FiniteSets

CONSTANTS Leaves,             \* the leaves of all trees
          Points(_),          \* the points of a leaf
          MaxCandidateSize

VARIABLES dist,         \* the distance of each leaf within the radius
          visited,      \* the leaves whose points have been looked at
          candidates,
          done

Init == /\ \E found \in SUBSET Leaves : dist \in [found -> Nat]
        /\ visited = {}
        /\ candidates = {}
        /\ done = FALSE

\* All points of a nearest leaf, or as many as the limit leaves room for.
Visit(l) ==
    /\ ~done
    /\ \A m \in DOMAIN dist \ visited : dist[l] <= dist[m]
    /\ \E new \in SUBSET (Points(l) \ candidates) :
           /\ candidates' = candidates \cup new
           /\ \/ new = Points(l) \ candidates
              \/ Cardinality(candidates \cup new) = MaxCandidateSize
           /\ Cardinality(candidates \cup new) <= MaxCandidateSize
           /\ done' = (Cardinality(candidates \cup new) = MaxCandidateSize)
    /\ visited' = visited \cup {l}
    /\ UNCHANGED dist

Finish == /\ ~done
          /\ visited = DOMAIN dist
          /\ done' = TRUE
          /\ UNCHANGED <<dist, visited, candidates>>

Next == Finish \/ \E l \in DOMAIN dist \ visited : Visit(l)

vars == <<dist, visited, candidates, done>>
Spec == Init /\ [][Next]_vars /\ WF_vars(Next)
=============================================================================
