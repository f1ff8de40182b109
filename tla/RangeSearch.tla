---------------------------- MODULE RangeSearch ----------------------------
(***************************************************************************)
(* One range query on one DE-Tree: the root list of range_query, and       *)
(* range_search_lsh, range_search_worker and traverse_subtree of           *)
(* query_support.c. num_thread workers claim roots with a shared counter,  *)
(* descend into the nodes whose box is within the radius, and insert the   *)
(* leaves they reach into N_PQUEUE priority queues in turn, each under its *)
(* own lock. A barrier and the joins end the search.                       *)
(*                                                                         *)
(* Of query_to_node_dist only the outcome of the comparison with           *)
(* search_radius matters here. A near child may have a parent that is not: *)
(* Breakpoints leaves the breakpoints out of order, and a region then may  *)
(* stick out of the one it is part of. What is in it does not (Encoding's  *)
(* NeverTooFar), so that to prune such a child is right.                   *)
(***************************************************************************)
EXTENDS Integers, Sequences, FiniteSets, SequencesExt

CONSTANTS NumThread,      \* num_thread
          NPqueue,        \* N_PQUEUE
          Nodes,          \* the nodes of all subtrees
          RootList,       \* the roots in the order of index->first_node
          Left, Right     \* the children of the inner nodes

ASSUME NumThreadAssumption == NumThread \in Nat \ {0}
ASSUME NPqueueAssumption == NPqueue \in Nat \ {0}
ASSUME RootListAssumption == RootList \in Seq(Nodes) /\ IsInjective(RootList)
ASSUME ChildrenAssumption == /\ Left \in [DOMAIN Left -> Nodes]
                             /\ Right \in [DOMAIN Left -> Nodes]
                             /\ DOMAIN Left \subseteq Nodes

Workers == 0 .. NumThread - 1
Queues == 0 .. NPqueue - 1
Inner == DOMAIN Left
Leaves == Nodes \ Inner
Children(n) == {Left[n], Right[n]}

\* The nodes from a root down to n, n included: those of every set that has n
\* and, with a node, its parent.
ParentsIn(S) == \A m \in Inner : Children(m) \cap S # {} => m \in S
Above == [n \in Nodes |-> {m \in Nodes :
             \A S \in SUBSET Nodes : n \in S /\ ParentsIn(S) => m \in S}]

\* What splits make of the roots: no root has a parent, every other node has
\* one, and a root above it.
ASSUME ForestAssumption ==
    /\ \A n \in Inner : Left[n] # Right[n] /\ Children(n) \cap ToSet(RootList) = {}
    /\ \A m, n \in Inner : m # n => Children(m) \cap Children(n) = {}
    /\ \A n \in Nodes : Above[n] \cap ToSet(RootList) # {}

Nobody == -1

VARIABLES
    near,          \* whether the box of a node is within search_radius
    boxed,         \* whether isax_cardinalities is not NULL
    main,          \* program point of range_search_lsh
    created,       \* workers started so far
    pc,            \* program point of each worker
    node_counter,  \* the shared counter over the root list
    stack,         \* the calls of traverse_subtree still to make, first first
    tnumber,       \* the queue each worker inserts into next
    lock,          \* holder of each queue's mutex
    slot,          \* the place a worker's pqueue_insert has read from size
    queue          \* the leaves in each priority queue

vars == <<near, boxed, main, created, pc, node_counter, stack, tnumber, lock,
          slot, queue>>

\* The tree is what the build left: empty leaves have no box (near then means
\* nothing), every other node has one, and a split leaves no two empty children.
Init == /\ near \in [Nodes -> BOOLEAN]
        /\ boxed \in [Nodes -> BOOLEAN]
        /\ \A n \in Nodes : ~boxed[n] => /\ n \in Leaves /\ n \notin ToSet(RootList)
                                        /\ ~near[n]
        /\ \A n \in Inner : \E c \in Children(n) : boxed[c]
        /\ main = "create"
        /\ created = 0
        /\ pc = [w \in Workers |-> "idle"]
        /\ node_counter = 0
        /\ stack = [w \in Workers |-> <<>>]
        /\ tnumber \in [Workers -> Queues]      \* rand() % N_PQUEUE
        /\ lock = [q \in Queues |-> Nobody]
        /\ slot = [w \in Workers |-> 0]
        /\ queue = [q \in Queues |-> <<>>]

Goto(w, l) == pc' = [pc EXCEPT ![w] = l]
At(w, l) == pc[w] = l
Current(w) == Head(stack[w])

-----------------------------------------------------------------------------
(* range_search_worker.                                                    *)

\* The fault of a plain ++, which loses increments.
PlainIncrement == node_counter' \in {node_counter, node_counter + 1}

\* __sync_fetch_and_add(node_counter, 1)
FetchAndAdd == node_counter' = node_counter + 1

\* The next root of the list, or the barrier after the last one.
Claim(w) == /\ At(w, "claim")
            /\ FetchAndAdd
            /\ \/ /\ node_counter >= Len(RootList)
                  /\ Goto(w, "barrier")
                  /\ UNCHANGED stack
               \/ /\ node_counter < Len(RootList)
                  /\ stack' = [stack EXCEPT ![w] = <<RootList[node_counter + 1]>>]
                  /\ Goto(w, "traverse")
            /\ UNCHANGED <<near, boxed, main, created, tnumber, lock, slot, queue>>

\* The fault of descending only into the first child that has a box.
FirstBoxedChild(n) == IF boxed[Left[n]] THEN <<Left[n]>> ELSE <<Right[n]>>

\* The calls an inner node leads to: children without a box are skipped.
BoxedChildren(n) == (IF boxed[Left[n]] THEN <<Left[n]>> ELSE <<>>) \o
                    (IF boxed[Right[n]] THEN <<Right[n]>> ELSE <<>>)

\* One call of traverse_subtree: prune, descend, or go and insert a leaf.
Traverse(w) ==
    LET n == Current(w) IN
    /\ At(w, "traverse") /\ stack[w] # <<>>
    /\ \/ /\ ~near[n]
          /\ stack' = [stack EXCEPT ![w] = Tail(@)]
          /\ UNCHANGED pc
       \/ /\ near[n] /\ n \in Inner
          /\ stack' = [stack EXCEPT ![w] = BoxedChildren(n) \o Tail(@)]
          /\ UNCHANGED pc
       \/ /\ near[n] /\ n \in Leaves
          /\ Goto(w, "lock")
          /\ UNCHANGED stack
    /\ UNCHANGED <<near, boxed, main, created, node_counter, tnumber, lock,
                   slot, queue>>

\* The subtree is done.
Return(w) == /\ At(w, "traverse") /\ stack[w] = <<>>
             /\ Goto(w, "claim")
             /\ UNCHANGED <<near, boxed, main, created, node_counter, stack,
                            tnumber, lock, slot, queue>>

\* The fault of one mutex per worker.
LockFreeAlways(q) == TRUE
LockFree(q) == lock[q] = Nobody

\* pthread_mutex_lock(&lock_queue[*tnumber])
Lock(w) == LET q == tnumber[w] IN
           /\ At(w, "lock")
           /\ LockFree(q)
           /\ lock' = [lock EXCEPT ![q] = w]
           /\ Goto(w, "reserve")
           /\ UNCHANGED <<near, boxed, main, created, node_counter, stack,
                          tnumber, slot, queue>>

\* pqueue_insert reads size ...
Reserve(w) == /\ At(w, "reserve")
              /\ slot' = [slot EXCEPT ![w] = Len(queue[tnumber[w]])]
              /\ Goto(w, "insert")
              /\ UNCHANGED <<near, boxed, main, created, node_counter, stack,
                             tnumber, lock, queue>>

\* ... and writes the leaf there, with size one more.
Insert(w) == LET q == tnumber[w] IN
             /\ At(w, "insert")
             /\ queue' = [queue EXCEPT ![q] =
                             Append(SubSeq(@, 1, slot[w]), Current(w))]
             /\ Goto(w, "unlock")
             /\ UNCHANGED <<near, boxed, main, created, node_counter, stack,
                            tnumber, lock, slot>>

\* The fault of running off the array of queues.
NextQueueUnwrapped(t) == t + 1

NextQueue(t) == (t + 1) % NPqueue

\* pthread_mutex_unlock, and the next queue's turn.
Unlock(w) == LET q == tnumber[w] IN
             /\ At(w, "unlock")
             /\ lock' = [lock EXCEPT ![q] = Nobody]
             /\ tnumber' = [tnumber EXCEPT ![w] = NextQueue(@)]
             /\ stack' = [stack EXCEPT ![w] = Tail(@)]
             /\ Goto(w, "traverse")
             /\ UNCHANGED <<near, boxed, main, created, node_counter, slot, queue>>

\* The fault of a barrier that has to be full to be left.
AllStillThere == \A v \in Workers : pc[v] = "barrier"
AllArrived == \A v \in Workers : pc[v] \in {"barrier", "exit"}

\* pthread_barrier_wait(lock_barrier)
Barrier(w) == /\ At(w, "barrier")
              /\ AllArrived
              /\ Goto(w, "exit")
              /\ UNCHANGED <<near, boxed, main, created, node_counter, stack,
                             tnumber, lock, slot, queue>>

-----------------------------------------------------------------------------
(* range_search_lsh.                                                       *)

\* pthread_create of the next worker.
Create == /\ main = "create"
          /\ created' = created + 1
          /\ Goto(created, "claim")
          /\ main' = IF created' = NumThread THEN "join" ELSE "create"
          /\ UNCHANGED <<near, boxed, node_counter, stack, tnumber, lock, slot, queue>>

\* pthread_join of every worker; the queues are the result.
Join == /\ main = "join"
        /\ \A w \in Workers : At(w, "exit")
        /\ main' = "done"
        /\ UNCHANGED <<near, boxed, created, pc, node_counter, stack, tnumber,
                       lock, slot, queue>>

Worker(w) == \/ Claim(w) \/ Traverse(w) \/ Return(w) \/ Lock(w) \/ Reserve(w)
             \/ Insert(w) \/ Unlock(w) \/ Barrier(w)

Done == main = "done" /\ UNCHANGED vars

Next == (\E w \in Workers : Worker(w)) \/ Create \/ Join \/ Done

\* The scheduler runs every thread that can run; each mutex is taken finitely
\* often, so a worker that waits for one gets it.
Fairness == /\ \A w \in Workers : WF_vars(Worker(w))
            /\ WF_vars(Create \/ Join)

Spec == Init /\ [][Next]_vars /\ Fairness

-----------------------------------------------------------------------------
(* Properties.                                                             *)

\* The leaves that are near, as all the nodes above them are.
Hits == {n \in Leaves : \A m \in Above[n] : near[m]}
Inserted(n) == UNION {{<<q, x>> : x \in {y \in DOMAIN queue[q] : queue[q][y] = n}} :
                         q \in Queues}

\* Types; a worker only ever looks at nodes that have a box, which
\* query_to_node_dist dereferences.
TypeOK == /\ pc \in [Workers -> {"idle", "claim", "traverse", "lock", "reserve",
                                 "insert", "unlock", "barrier", "exit"}]
          /\ main \in {"create", "join", "done"}
          /\ created \in 0 .. NumThread
          /\ node_counter \in 0 .. Len(RootList) + NumThread
          /\ tnumber \in [Workers -> Queues]
          /\ lock \in [Queues -> Workers \cup {Nobody}]
          /\ slot \in [Workers -> Nat]
          /\ queue \in [Queues -> Seq(Leaves)]
          /\ \A w \in Workers : \A x \in DOMAIN stack[w] : boxed[stack[w][x]]

\* Between the read of size and the write no other worker is in the same
\* queue: what a worker has read is still the size when it writes.
QueueOwned ==
    \A w \in Workers :
        /\ pc[w] \in {"reserve", "insert", "unlock"} => lock[tnumber[w]] = w
        /\ At(w, "insert") => slot[w] = Len(queue[tnumber[w]])

\* No leaf gets into the queues twice or without being near, whichever worker
\* takes which root: the candidate step would count its points twice.
FoundOnce == \A n \in Nodes : /\ Cardinality(Inserted(n)) <= 1
                              /\ Inserted(n) # {} => n \in Hits

\* When the search returns, the queues hold every leaf whose box, and every box
\* above it, is within the radius: neither a race nor an empty sibling has
\* dropped one.
NoFalseDismissal == main = "done" => \A n \in Hits : Inserted(n) # {}

\* The search returns.
Terminates == <>(main = "done")
=============================================================================
