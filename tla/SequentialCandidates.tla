------------------------ MODULE SequentialCandidates ------------------------
(***************************************************************************)
(* The candidate step of one query with one thread: the "num_thread == 1"  *)
(* branch of DETLSH.cpp's main. Every tree has N_PQUEUE queues of leaves;  *)
(* the head of each is in result. A round takes the nearest head of all    *)
(* trees, adds the points of its leaf that are new, and refills the head.  *)
(*                                                                         *)
(* A queue is the set of its leaves: a pop returns one of the smallest     *)
(* distance (PQueue's RefinesPriorityQueue).                               *)
(***************************************************************************)
EXTENDS Integers, Sequences, FiniteSets, SequencesExt

CONSTANTS LSize,              \* l_size, the number of trees
          NPqueue,            \* N_PQUEUE
          Dataset,            \* the positions of the points
          Leaves,             \* the leaves of all trees
          TreeOf(_),          \* the tree of a leaf
          PointsOf(_),        \* the positions in its buffer, in their order
          Distances,          \* the distances a leaf may have, below FLT_MAX
          MaxCandidateSize    \* max_candidate_size

ASSUME LSizeAssumption == LSize \in Nat \ {0}
ASSUME NPqueueAssumption == NPqueue \in Nat \ {0}
ASSUME DistancesAssumption == Distances \subseteq Nat /\ IsFiniteSet(Distances) /\ Distances # {}
ASSUME MaxCandidateSizeAssumption == MaxCandidateSize \in Nat \ {0}

Indexes == 1 .. LSize
Queues == 0 .. NPqueue - 1
FltMax == Max(Distances) + 1
NoLeaf == "NULL"

ASSUME LeavesAssumption ==
    /\ NoLeaf \notin Leaves
    /\ \A l \in Leaves : TreeOf(l) \in Indexes /\ PointsOf(l) \in Seq(Dataset)

VARIABLES
    dist,             \* lower_distance of each leaf the range queries found
    queue,            \* range_queue_result[q_loaded].pq[j] of each tree
    pc,
    result,           \* the head taken out of each queue, or NULL
    queue_is_empty,
    mindist,          \* mindist_in_every_index
    num_queue,        \* the queue of each tree that mindist is from
    nodes,            \* the candidates, in the order they are found
    visited           \* the leaves whose points have been added (history)

heads == <<queue, result, queue_is_empty, mindist, num_queue>>
vars == <<dist, pc, heads, nodes, visited>>

Init == /\ \E found \in SUBSET Leaves : dist \in [found -> Distances]
        /\ \E at \in [DOMAIN dist -> Queues] :
               queue = [i \in Indexes |-> [j \in Queues |->
                           {l \in DOMAIN dist : TreeOf(l) = i /\ at[l] = j}]]
        /\ pc = "prime"
        /\ result = [i \in Indexes |-> [j \in Queues |-> NoLeaf]]
        /\ queue_is_empty = [i \in Indexes |-> [j \in Queues |-> FALSE]]
        /\ mindist = [i \in Indexes |-> FltMax]
        /\ num_queue = [i \in Indexes |-> 0]
        /\ nodes = <<>>
        /\ visited = {}

\* What pqueue_pop may return from queue q, and what it leaves there.
Heads(q) == IF q = {} THEN {NoLeaf}
            ELSE {l \in q : \A m \in q : dist[l] <= dist[m]}
RestPeeked(q, l) == q       \* the fault of pqueue_peek for pqueue_pop
Rest(q, l) == q \ {l}

\* The queues of a tree that have a head, of those the nearest, the first of
\* them if there are several; 0 and FLT_MAX if the tree has no leaf left.
Open(empty) == {j \in Queues : ~empty[j]}
BestQueue(res, empty) ==
    IF Open(empty) = {} THEN 0
    ELSE Min({j \in Open(empty) : \A k \in Open(empty) : dist[res[j]] <= dist[res[k]]})
BestDistance(res, empty) ==
    IF Open(empty) = {} THEN FltMax ELSE dist[res[BestQueue(res, empty)]]

-----------------------------------------------------------------------------

\* The loops before while(1): the head of every queue of every tree.
Prime ==
    /\ pc = "prime"
    /\ \E head \in [Indexes -> [Queues -> DOMAIN dist \cup {NoLeaf}]] :
           /\ \A i \in Indexes : \A j \in Queues : head[i][j] \in Heads(queue[i][j])
           /\ result' = head
    /\ queue' = [i \in Indexes |-> [j \in Queues |->
                    Rest(queue[i][j], result'[i][j])]]
    /\ queue_is_empty' = [i \in Indexes |-> [j \in Queues |->
                             result'[i][j] = NoLeaf]]
    /\ num_queue' = [i \in Indexes |-> BestQueue(result'[i], queue_is_empty'[i])]
    /\ mindist' = [i \in Indexes |-> BestDistance(result'[i], queue_is_empty'[i])]
    /\ pc' = "round"
    /\ UNCHANGED <<dist, nodes, visited>>

\* The trees that still have a head.
OpenTrees == {i \in Indexes : Open(queue_is_empty[i]) # {} /\ mindist[i] < FltMax}

\* mindist_index: the first tree with the nearest head.
NearestTree == Min({i \in OpenTrees : \A m \in OpenTrees : mindist[i] <= mindist[m]})

\* The fault of adding a point again that another tree has found.
AddedAgain(ns, points) == SubSeq(ns \o points, 1, Min({Len(ns) + Len(points), MaxCandidateSize}))

\* The points of a leaf that are new, until the limit is reached.
Added(ns, points) ==
    LET added[n \in 0 .. Len(points)] ==
            IF n = 0 THEN ns
            ELSE IF points[n] \in ToSet(added[n - 1]) \/ Len(added[n - 1]) = MaxCandidateSize
                 THEN added[n - 1]
                 ELSE Append(added[n - 1], points[n])
    IN  added[Len(points)]

\* mindist is FLT_MAX: no tree has a leaf left.
Exhausted == /\ pc = "round"
             /\ OpenTrees = {}
             /\ pc' = "done"
             /\ UNCHANGED <<dist, heads, nodes, visited>>

\* A round: the points of the nearest leaf; at the limit that is all, else the
\* head that was used is popped and the tree's nearest head found again.
Round ==
    LET i == NearestTree
        j == num_queue[i]
        leaf == result[i][j]
    IN
    /\ pc = "round"
    /\ OpenTrees # {}
    /\ nodes' = Added(nodes, PointsOf(leaf))
    /\ visited' = visited \cup {leaf}
    /\ \/ /\ Len(nodes') = MaxCandidateSize
          /\ pc' = "done"
          /\ UNCHANGED heads
       \/ /\ Len(nodes') < MaxCandidateSize
          /\ \E head \in Heads(queue[i][j]) :
                 /\ result' = [result EXCEPT ![i][j] = head]
                 /\ queue' = [queue EXCEPT ![i][j] = Rest(@, head)]
                 /\ queue_is_empty' = [queue_is_empty EXCEPT ![i][j] = (head = NoLeaf)]
          /\ num_queue' = [num_queue EXCEPT ![i] =
                              BestQueue(result'[i], queue_is_empty'[i])]
          /\ mindist' = [mindist EXCEPT ![i] =
                            BestDistance(result'[i], queue_is_empty'[i])]
          /\ UNCHANGED pc
    /\ UNCHANGED dist

Done == pc = "done" /\ UNCHANGED vars

Next == Prime \/ Round \/ Exhausted \/ Done

\* The main thread is the only one and never waits.
Spec == Init /\ [][Next]_vars /\ WF_vars(Next)

-----------------------------------------------------------------------------
(* Properties.                                                             *)

\* Types; num_queue is a queue with a head as long as its tree has one, whose
\* leaf the round dereferences; a leaf is never both used and still queued.
TypeOK ==
    /\ pc \in {"prime", "round", "done"}
    /\ nodes \in Seq(UNION {ToSet(PointsOf(l)) : l \in Leaves})
    /\ \A i \in Indexes :
           /\ num_queue[i] \in Queues
           /\ mindist[i] < FltMax => result[i][num_queue[i]] # NoLeaf
           /\ \A j \in Queues :
                  /\ queue[i][j] \cap (visited \cup {result[i][j]}) = {}
                  /\ queue_is_empty[i][j] => queue[i][j] = {}

PointSet(l) == ToSet(PointsOf(l))

\* The merge of all queues of all trees delivers what NearestLeaves promises:
\* no leaf is used before a nearer one of any tree, no point is added twice,
\* and the step ends at the limit or with every leaf used.
Nearest == INSTANCE NearestLeaves WITH
               Points <- PointSet,
               candidates <- ToSet(nodes),
               done <- pc = "done"
RefinesNearestLeaves == Nearest!Spec
=============================================================================
