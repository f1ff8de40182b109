------------------------------ MODULE PQueue ------------------------------
(***************************************************************************)
(* pqueue.c: the binary heap in which a worker collects the leaves of a    *)
(* range query, with cmp_pri of query_support.h (an element comes first    *)
(* when its lower distance is smaller). d is the array from index 1, the   *)
(* element 0 that "exists but doesn't count" is left out. An element       *)
(* carries its own place in the array, kept by set_pos.                    *)
(*                                                                         *)
(* A sift is written as exchanges of the moving element with one on its    *)
(* path; the code keeps it apart and writes it once, where it ends up.     *)
(***************************************************************************)
EXTENDS Integers, Sequences, FiniteSets

CONSTANTS Elements,       \* the query_results that may be inserted
          Priorities,     \* their lower distances
          InitialSizes    \* what pqueue_init may be asked for

ASSUME PrioritiesAssumption == Priorities \subseteq Int
ASSUME InitialSizesAssumption == InitialSizes \subseteq Nat

NoElement == "NULL"

VARIABLES d,            \* the elements of the heap; size is one more
          avail, step,  \* the places allocated, and by how many it grows
          pri,          \* getpri of each element
          pos,          \* getpos of each element
          popped        \* what pqueue_pop returned last

pqueueVars == <<d, avail, step, pri, pos, popped>>
Size == Len(d) + 1

\* pqueue_init(n)
PQueueInit ==
    /\ d = <<>>
    /\ \E n \in InitialSizes : avail = n + 1 /\ step = n + 1
    /\ pri \in [Elements -> Priorities]
    /\ pos = [e \in Elements |-> 0]
    /\ popped = NoElement

ParentOf(x) == x \div 2
LeftOf(x) == 2 * x

\* cmppri(next, curr): next has to come after curr.
After(p, q) == p > q

-----------------------------------------------------------------------------
(* The sifts, on an array h with priorities q; the element at x moves.     *)

Exchanged(h, x, y) ==
    [z \in DOMAIN h |-> IF z = x THEN h[y] ELSE IF z = y THEN h[x] ELSE h[z]]

\* A turn of the loop of bubble_up, the moving element being at place s.at.
Up(s, q) == LET parent == ParentOf(s.at) IN
            IF s.at > 1 /\ After(q[s.h[parent]], q[s.h[s.at]])
            THEN [h |-> Exchanged(s.h, s.at, parent), at |-> parent]
            ELSE s

\* The fault of looking at one parent only.
BubbleUpOnce(h, q, x) == Up([h |-> h, at |-> x], q).h

\* bubble_up: the element rises as long as its parent has to come after it.
BubbleUp(h, q, x) ==
    LET turn[n \in 0 .. Len(h)] ==
            IF n = 0 THEN [h |-> h, at |-> x] ELSE Up(turn[n - 1], q)
    IN  turn[Len(h)].h

\* The fault of never using the right child.
MaxChildLeft(h, q, x) == IF LeftOf(x) > Len(h) THEN 0 ELSE LeftOf(x)

\* The child that comes first, 0 if there is none.
MaxChild(h, q, x) ==
    LET c == LeftOf(x) IN
    IF c > Len(h) THEN 0
    ELSE IF c + 1 <= Len(h) /\ After(q[h[c]], q[h[c + 1]]) THEN c + 1
    ELSE c

\* A turn of the loop of percolate_down.
Down(s, q) == LET child == MaxChild(s.h, q, s.at) IN
              IF child # 0 /\ After(q[s.h[s.at]], q[s.h[child]])
              THEN [h |-> Exchanged(s.h, s.at, child), at |-> child]
              ELSE s

\* percolate_down: the element sinks while a child comes before it.
PercolateDown(h, q, x) ==
    LET turn[n \in 0 .. Len(h)] ==
            IF n = 0 THEN [h |-> h, at |-> x] ELSE Down(turn[n - 1], q)
    IN  turn[Len(h)].h

\* The place of e in h if that is another than before, else what e had.
NewPlace(h, e) == IF \E x \in DOMAIN h : h[x] = e /\ (x > Len(d) \/ d[x] # e)
                  THEN CHOOSE x \in DOMAIN h : h[x] = e
                  ELSE pos[e]

\* set_pos is called for every place that gets another element. The place of
\* an element outside the heap is not read before it is set again: 0 here.
PosAfter(h) == [e \in Elements |-> IF \E x \in DOMAIN h : h[x] = e
                                   THEN NewPlace(h, e) ELSE 0]

\* subtree_is_valid: nothing in the subtree of place x comes before its parent.
SubtreeIsValid[x \in DOMAIN d] ==
    \A c \in {LeftOf(x), LeftOf(x) + 1} \cap DOMAIN d :
        ~After(pri[d[x]], pri[d[c]]) /\ SubtreeIsValid[c]

-----------------------------------------------------------------------------
(* The operations.                                                         *)

Content == {d[x] : x \in DOMAIN d}

\* realloc when the array is full.
Grown == IF Size >= avail THEN Size + step ELSE avail

\* pqueue_insert
Insert(e) == /\ e \notin Content
             /\ avail' = Grown
             /\ d' = BubbleUp(Append(d, e), pri, Size)
             /\ pos' = PosAfter(d')
             /\ UNCHANGED <<step, pri, popped>>

\* q->d[x] = q->d[--q->size]
LastInto(x) == [y \in 1 .. Len(d) - 1 |-> IF y = x THEN d[Len(d)] ELSE d[y]]

\* pqueue_pop
Pop == \/ /\ d = <<>>
          /\ popped' = NoElement
          /\ UNCHANGED <<d, avail, step, pri, pos>>
       \/ /\ d # <<>>
          /\ popped' = d[1]
          /\ d' = IF Len(d) = 1 THEN <<>>
                                ELSE PercolateDown(LastInto(1), pri, 1)
          /\ pos' = PosAfter(d')
          /\ UNCHANGED <<avail, step, pri>>

\* pqueue_change_priority: setpri comes first, the sift sees the new priority.
ChangePriority(e, p) ==
    /\ e \in Content
    /\ pri' = [pri EXCEPT ![e] = p]
    /\ d' = IF After(pri[e], p) THEN BubbleUp(d, pri', pos[e])
                                ELSE PercolateDown(d, pri', pos[e])
    /\ pos' = PosAfter(d')
    /\ UNCHANGED <<avail, step, popped>>

\* pqueue_remove: the last element takes the place and moves either way.
RemoveElement(e) ==
    LET last == d[Len(d)] IN
    /\ e \in Content
    /\ d' = IF e = last THEN LastInto(Len(d))
            ELSE IF After(pri[e], pri[last])
            THEN BubbleUp(LastInto(pos[e]), pri, pos[e])
            ELSE PercolateDown(LastInto(pos[e]), pri, pos[e])
    /\ pos' = PosAfter(d')
    /\ UNCHANGED <<avail, step, pri, popped>>

PQueueNext ==
    \/ Pop
    \/ \E e \in Elements : Insert(e) \/ RemoveElement(e)
    \/ \E e \in Elements, p \in Priorities : ChangePriority(e, p)

PQueueSpec == PQueueInit /\ [][PQueueNext]_pqueueVars

-----------------------------------------------------------------------------
(* Properties.                                                             *)

\* Types; the heap with its unused element 0 fits the allocation, and every
\* element knows its place (pqueue_remove writes there).
PQueueTypeOK ==
    /\ d \in Seq(Elements)
    /\ avail \in Nat /\ Size <= avail
    /\ step \in Nat
    /\ pri \in [Elements -> Priorities]
    /\ popped \in Elements \cup {NoElement}
    /\ \A x \in DOMAIN d : pos[d[x]] = x

\* pqueue_is_valid: after any sequence of operations no element of the heap
\* comes before its parent.
IsValid == d # <<>> => SubtreeIsValid[1]

\* The array is a heap within its allocation whose elements know their places,
\* after every mixture of insertions, removals and changes of priority.
HeapRight == PQueueTypeOK /\ IsValid

\* The heap is a priority queue: a pop returns a leaf of the smallest distance,
\* which the candidate step relies on, and nothing is lost or doubled.
Queue == INSTANCE PriorityQueue WITH content <- Content
RefinesPriorityQueue == Queue!Spec
=============================================================================
