------------------------- MODULE RangeSearchProofs -------------------------
(***************************************************************************)
(* Theorems about RangeSearch, for every number of workers and of queues   *)
(* and every forest of nodes.                                              *)
(***************************************************************************)
EXTENDS RangeSearch, FiniteSetTheorems, TLAPS

-----------------------------------------------------------------------------
(* Type correctness, in parts that different actions disturb.              *)

Places == {"idle", "claim", "traverse", "lock", "reserve", "insert", "unlock",
           "barrier", "exit"}
Locked == {"reserve", "insert", "unlock"}
Inserting == {"lock"} \cup Locked

\* Workers that pthread_create has not started yet have done nothing.
Threads ==
    /\ pc \in [Workers -> Places]
    /\ main \in {"create", "join", "done"}
    /\ created \in 0 .. NumThread
    /\ main = "create" <=> created < NumThread
    /\ \A w \in Workers : created <= w => pc[w] = "idle"

\* Only nodes with a box are ever looked at, and only leaves are inserted.
Calls ==
    /\ boxed \in [Nodes -> BOOLEAN]
    /\ stack \in [Workers -> Seq(Nodes)]
    /\ \A x \in DOMAIN RootList : boxed[RootList[x]]
    /\ \A w \in Workers : \A x \in DOMAIN stack[w] : boxed[stack[w][x]]
    /\ \A w \in Workers : pc[w] \in Inserting => stack[w] # <<>> /\ Current(w) \in Leaves

Heaps ==
    /\ tnumber \in [Workers -> Queues]
    /\ lock \in [Queues -> Workers \cup {Nobody}]
    /\ slot \in [Workers -> Nat]
    /\ queue \in [Queues -> Seq(Leaves)]

\* A worker that has run past the root list has done so once.
Past == {w \in Workers : pc[w] \in {"barrier", "exit"}}
Counted == /\ node_counter \in Nat
           /\ node_counter <= Len(RootList) + Cardinality(Past)

TypeInv == Threads /\ Calls /\ Heaps /\ Counted

LEMMA WorkersFinite == IsFiniteSet(Workers) /\ Cardinality(Workers) = NumThread
  BY FS_Interval, NumThreadAssumption DEF Workers

LEMMA PastFinite ==
    /\ IsFiniteSet(Past)
    /\ Cardinality(Past) \in Nat
    /\ Cardinality(Past) <= NumThread
  BY WorkersFinite, FS_Subset, FS_CardinalityType DEF Past

\* The remainder stays within the array of queues.
LEMMA NextQueueIsQueue == ASSUME NEW t \in Queues PROVE NextQueue(t) \in Queues
  BY NPqueueAssumption DEF NextQueue, Queues

LEMMA TypeInit == Init => TypeInv
<1> SUFFICES ASSUME Init PROVE TypeInv
  OBVIOUS
<1>1. Threads
  BY NumThreadAssumption DEF Init, Threads, Places, Workers
<1>2. Calls
  <2>1. \A x \in DOMAIN RootList : RootList[x] \in ToSet(RootList) /\ RootList[x] \in Nodes
    BY RootListAssumption DEF ToSet
  <2> QED
    BY <2>1 DEF Init, Calls, Inserting, Locked
<1>3. Heaps
  BY DEF Init, Heaps
<1>4. Counted
  BY PastFinite, RootListAssumption DEF Init, Counted
<1> QED
  BY <1>1, <1>2, <1>3, <1>4 DEF TypeInv

LEMMA ThreadsNext == TypeInv /\ [Next]_vars => Threads'
<1> SUFFICES ASSUME TypeInv, [Next]_vars PROVE Threads'
  OBVIOUS
<1> USE DEF TypeInv, Threads, Goto, At
<1>1. ASSUME NEW w \in Workers, Worker(w) PROVE Threads'
  <2>1. pc[w] # "idle" /\ UNCHANGED <<main, created>>
    BY <1>1 DEF Worker, Claim, Traverse, Return, Lock, Reserve, Insert, Unlock,
                Barrier
  <2>2. UNCHANGED pc \/ \E l \in Places : Goto(w, l)
    BY <1>1 DEF Worker, Claim, Traverse, Return, Lock, Reserve, Insert, Unlock,
                Barrier, Places
  <2> QED
    BY <2>1, <2>2
<1>2. CASE Create
  <2>1. created \in Workers /\ created' = created + 1 /\ created' \in 0 .. NumThread
    BY <1>2, NumThreadAssumption DEF Create, Workers
  <2>2. pc' = [pc EXCEPT ![created] = "claim"]
    BY <1>2 DEF Create
  <2>3. main' = IF created' = NumThread THEN "join" ELSE "create"
    BY <1>2 DEF Create
  <2>4. \A v \in Workers : created' <= v => pc'[v] = "idle"
    BY <2>1, <2>2 DEF Workers
  <2>5. main' = "create" <=> created' < NumThread
    BY <2>1, <2>3, NumThreadAssumption
  <2> QED
    BY <2>1, <2>2, <2>3, <2>4, <2>5 DEF Places
<1>3. CASE Join
  BY <1>3 DEF Join
<1>4. CASE UNCHANGED vars
  BY <1>4 DEF vars
<1> QED
  BY <1>1, <1>2, <1>3, <1>4 DEF Next, Done

LEMMA CountedNext == TypeInv /\ [Next]_vars => Counted'
<1> SUFFICES ASSUME TypeInv, [Next]_vars PROVE Counted'
  OBVIOUS
<1> USE DEF TypeInv, Threads, Counted, Goto, At
<1>0. Len(RootList) \in Nat /\ Cardinality(Past) \in Nat /\ IsFiniteSet(Past)
  BY PastFinite, RootListAssumption
<1>1. ASSUME NEW w \in Workers, Claim(w) PROVE Counted'
  <2>1. node_counter' = node_counter + 1 /\ pc[w] = "claim"
    BY <1>1 DEF Claim, FetchAndAdd
  <2>2. CASE node_counter >= Len(RootList) /\ Goto(w, "barrier")
    <3>1. Past' = Past \cup {w} /\ w \notin Past
      BY <2>1, <2>2 DEF Past
    <3>2. Cardinality(Past') = Cardinality(Past) + 1
      BY <1>0, <3>1, FS_AddElement
    <3> QED
      BY <1>0, <2>1, <3>2
  <2>3. CASE node_counter < Len(RootList) /\ Goto(w, "traverse")
    <3>1. Past' = Past
      BY <2>1, <2>3 DEF Past
    <3> QED
      BY <1>0, <2>1, <2>3, <3>1
  <2> QED
    BY <1>1, <2>2, <2>3 DEF Claim
<1>2. ASSUME NEW w \in Workers,
             \/ Traverse(w) \/ Return(w) \/ Lock(w) \/ Reserve(w) \/ Insert(w)
             \/ Unlock(w) \/ Barrier(w)
      PROVE  Counted'
  <2>1. UNCHANGED node_counter
    BY <1>2 DEF Traverse, Return, Lock, Reserve, Insert, Unlock, Barrier
  <2>2. Past' = Past
    BY <1>2 DEF Traverse, Return, Lock, Reserve, Insert, Unlock, Barrier, Past
  <2> QED
    BY <2>1, <2>2
<1>3. CASE Create
  <2>1. created \in Workers /\ UNCHANGED node_counter /\ pc[created] = "idle"
    BY <1>3, NumThreadAssumption DEF Create, Workers
  <2>2. Past' = Past
    BY <1>3, <2>1 DEF Create, Past
  <2> QED
    BY <2>1, <2>2
<1>4. CASE Join \/ UNCHANGED vars
  BY <1>4 DEF Join, vars, Past
<1> QED
  BY <1>1, <1>2, <1>3, <1>4 DEF Next, Worker, Done

\* What a call of traverse_subtree goes on to: one or two children with a box,
\* which are nodes.
LEMMA ChildrenBoxed ==
    ASSUME Calls, NEW n \in Inner
    PROVE  /\ BoxedChildren(n) \in Seq(Nodes)
           /\ \A x \in DOMAIN BoxedChildren(n) : boxed[BoxedChildren(n)[x]]
<1> DEFINE first == IF boxed[Left[n]] THEN <<Left[n]>> ELSE <<>>
           second == IF boxed[Right[n]] THEN <<Right[n]>> ELSE <<>>
<1>1. Left[n] \in Nodes /\ Right[n] \in Nodes
  BY ChildrenAssumption DEF Inner
<1>2. first \in Seq(Nodes) /\ \A x \in DOMAIN first : boxed[first[x]]
  BY <1>1
<1>3. second \in Seq(Nodes) /\ \A x \in DOMAIN second : boxed[second[x]]
  BY <1>1
<1> HIDE DEF first, second
<1>4. /\ first \o second \in Seq(Nodes)
      /\ \A x \in DOMAIN (first \o second) : boxed[(first \o second)[x]]
  BY <1>2, <1>3
<1> QED
  BY <1>4 DEF BoxedChildren, first, second

LEMMA CallsNext == TypeInv /\ [Next]_vars => Calls'
<1> SUFFICES ASSUME TypeInv, [Next]_vars PROVE Calls'
  OBVIOUS
<1> USE DEF Goto, At
<1>0. /\ pc \in [Workers -> Places]
      /\ Calls
      /\ boxed \in [Nodes -> BOOLEAN]
      /\ stack \in [Workers -> Seq(Nodes)]
  BY DEF TypeInv, Threads, Calls
<1>1. ASSUME NEW w \in Workers, NEW s \in Seq(Nodes),
             \A x \in DOMAIN s : boxed[s[x]],
             stack' = [stack EXCEPT ![w] = s], UNCHANGED boxed,
             pc'[w] \notin Inserting, \A v \in Workers : v # w => pc'[v] = pc[v]
      PROVE  Calls'
  <2>1. stack'[w] = s /\ \A v \in Workers : v # w => stack'[v] = stack[v]
    BY <1>0, <1>1
  <2>2. stack' \in [Workers -> Seq(Nodes)]
    BY <1>0, <1>1
  <2>3. \A v \in Workers : \A x \in DOMAIN stack'[v] : boxed'[stack'[v][x]]
    BY <1>0, <1>1, <2>1 DEF Calls
  <2>4. \A v \in Workers : pc'[v] \in Inserting =>
            stack'[v] # <<>> /\ Head(stack'[v]) \in Leaves
    BY <1>0, <1>1, <2>1 DEF Calls, Current
  <2> QED
    BY <1>0, <1>1, <2>2, <2>3, <2>4 DEF Calls, Current
<1>2. ASSUME NEW w \in Workers, Claim(w) PROVE Calls'
  <2>1. CASE node_counter >= Len(RootList) /\ Goto(w, "barrier") /\ UNCHANGED stack
    BY <1>0, <1>2, <2>1 DEF Claim, Calls, Current, Inserting, Locked
  <2>2. CASE /\ node_counter < Len(RootList)
             /\ stack' = [stack EXCEPT ![w] = <<RootList[node_counter + 1]>>]
             /\ Goto(w, "traverse")
    <3> DEFINE root == RootList[node_counter + 1]
    <3>1. node_counter + 1 \in DOMAIN RootList
      BY <2>2, RootListAssumption DEF TypeInv, Counted
    <3>2. root \in Nodes /\ boxed[root]
      BY <1>0, <3>1, RootListAssumption DEF Calls
    <3> HIDE DEF root
    <3>3. <<root>> \in Seq(Nodes) /\ \A x \in DOMAIN <<root>> : boxed[<<root>>[x]]
      BY <3>2
    <3>4. UNCHANGED boxed /\ stack' = [stack EXCEPT ![w] = <<root>>]
      BY <1>2, <2>2 DEF Claim, root
    <3>5. pc'[w] \notin Inserting /\ \A v \in Workers : v # w => pc'[v] = pc[v]
      BY <1>0, <2>2 DEF Inserting, Locked
    <3> QED
      BY <1>1, <3>3, <3>4, <3>5
  <2> QED
    BY <1>2, <2>1, <2>2 DEF Claim
<1>3. ASSUME NEW w \in Workers, stack[w] # <<>>
      PROVE  /\ Head(stack[w]) \in Nodes /\ boxed[Head(stack[w])]
             /\ Tail(stack[w]) \in Seq(Nodes)
             /\ \A x \in DOMAIN Tail(stack[w]) : boxed[Tail(stack[w])[x]]
  <2>1. stack[w] \in Seq(Nodes) /\ \A x \in DOMAIN stack[w] : boxed[stack[w][x]]
    BY <1>0 DEF Calls
  <2> QED
    BY <1>3, <2>1
<1>4. ASSUME NEW w \in Workers, Traverse(w) PROVE Calls'
  <2> DEFINE n == Head(stack[w])
  <2>0. stack[w] # <<>> /\ UNCHANGED boxed /\ pc[w] = "traverse"
    BY <1>4 DEF Traverse
  <2>1. CASE stack' = [stack EXCEPT ![w] = Tail(stack[w])] /\ UNCHANGED pc
    BY <1>1, <1>3, <2>0, <2>1 DEF Inserting, Locked
  <2>2. CASE /\ n \in Inner /\ UNCHANGED pc
             /\ stack' = [stack EXCEPT ![w] = BoxedChildren(n) \o Tail(stack[w])]
    <3> DEFINE b == BoxedChildren(n)
               t == Tail(stack[w])
    <3>1. b \in Seq(Nodes) /\ \A x \in DOMAIN b : boxed[b[x]]
      BY <1>0, <2>2, ChildrenBoxed
    <3>2. t \in Seq(Nodes) /\ \A x \in DOMAIN t : boxed[t[x]]
      BY <1>3, <2>0
    <3>3. stack' = [stack EXCEPT ![w] = b \o t]
      BY <2>2
    <3> HIDE DEF b, t
    <3>4. b \o t \in Seq(Nodes) /\ \A x \in DOMAIN (b \o t) : boxed[(b \o t)[x]]
      BY <3>1, <3>2
    <3> QED
      BY <1>1, <2>0, <2>2, <3>3, <3>4 DEF Inserting, Locked
  <2>3. CASE n \in Leaves /\ Goto(w, "lock") /\ UNCHANGED stack
    BY <1>0, <2>0, <2>3 DEF Calls, Current, Inserting, Locked
  <2> QED
    BY <1>4, <2>1, <2>2, <2>3 DEF Traverse, Current
<1>5. ASSUME NEW w \in Workers, Unlock(w) PROVE Calls'
  <2>1. /\ stack' = [stack EXCEPT ![w] = Tail(stack[w])]
        /\ Goto(w, "traverse") /\ UNCHANGED boxed
    BY <1>5 DEF Unlock
  <2>2. stack[w] # <<>>
    BY <1>0, <1>5 DEF Unlock, Calls, Inserting, Locked
  <2>3. pc'[w] \notin Inserting /\ \A v \in Workers : v # w => pc'[v] = pc[v]
    BY <1>0, <2>1 DEF Inserting, Locked
  <2> QED
    BY <1>1, <1>3, <2>1, <2>2, <2>3
<1>6. ASSUME NEW w \in Workers, Return(w) \/ Barrier(w) PROVE Calls'
  BY <1>0, <1>6 DEF Return, Barrier, Calls, Current, Inserting, Locked
<1>7. ASSUME NEW w \in Workers, Lock(w) \/ Reserve(w) \/ Insert(w) PROVE Calls'
  BY <1>0, <1>7 DEF Lock, Reserve, Insert, Calls, Current, Inserting, Locked
<1>8. CASE Create
  BY <1>0, <1>8 DEF Create, Calls, Current, Inserting, Locked
<1>9. CASE Join \/ UNCHANGED vars
  BY <1>0, <1>9 DEF Join, vars, Calls, Current
<1> QED
  BY <1>2, <1>4, <1>5, <1>6, <1>7, <1>8, <1>9 DEF Next, Worker, Done

\* A leaf is put at the end of the heap because the size read is still the size.
LEMMA HeapsNext == TypeInv /\ QueueOwned /\ [Next]_vars => Heaps'
<1> SUFFICES ASSUME TypeInv, QueueOwned, [Next]_vars PROVE Heaps'
  OBVIOUS
<1> USE DEF Goto, At
<1>0. Heaps /\ pc \in [Workers -> Places]
  BY DEF TypeInv, Threads
<1>1. ASSUME NEW w \in Workers, Lock(w) PROVE Heaps'
  BY <1>0, <1>1 DEF Lock, Heaps
<1>2. ASSUME NEW w \in Workers, Reserve(w) PROVE Heaps'
  <2>1. Len(queue[tnumber[w]]) \in Nat
    BY <1>0 DEF Heaps
  <2> QED
    BY <1>0, <1>2, <2>1 DEF Reserve, Heaps
<1>3. ASSUME NEW w \in Workers, Insert(w) PROVE Heaps'
  <2> DEFINE q == tnumber[w]
             s == queue[q]
  <2>1. q \in Queues /\ s \in Seq(Leaves)
    BY <1>0 DEF Heaps
  <2>2. Current(w) \in Leaves /\ slot[w] = Len(s)
    BY <1>3 DEF Insert, TypeInv, Calls, Inserting, Locked, QueueOwned
  <2>3. queue' = [queue EXCEPT ![q] = Append(SubSeq(s, 1, slot[w]), Current(w))]
    BY <1>3 DEF Insert
  <2> HIDE DEF q, s
  <2>4. SubSeq(s, 1, slot[w]) = s
    BY <2>1, <2>2
  <2>5. Append(s, Current(w)) \in Seq(Leaves)
    BY <2>1, <2>2
  <2>6. queue' \in [Queues -> Seq(Leaves)]
    BY <1>0, <2>3, <2>4, <2>5 DEF Heaps
  <2> QED
    BY <1>0, <1>3, <2>6 DEF Insert, Heaps
<1>4. ASSUME NEW w \in Workers, Unlock(w) PROVE Heaps'
  <2>1. NextQueue(tnumber[w]) \in Queues
    BY <1>0, NextQueueIsQueue DEF Heaps
  <2> QED
    BY <1>0, <1>4, <2>1 DEF Unlock, Heaps
<1>5. ASSUME NEW w \in Workers, Claim(w) \/ Traverse(w) \/ Return(w) \/ Barrier(w)
      PROVE  Heaps'
  BY <1>0, <1>5 DEF Claim, Traverse, Return, Barrier, Heaps
<1>6. CASE Create \/ Join \/ UNCHANGED vars
  BY <1>0, <1>6 DEF Create, Join, vars, Heaps
<1> QED
  BY <1>1, <1>2, <1>3, <1>4, <1>5, <1>6 DEF Next, Worker, Done

-----------------------------------------------------------------------------
(* The heaps' mutexes.                                                     *)

LEMMA OwnedNext == TypeInv /\ QueueOwned /\ [Next]_vars => QueueOwned'
<1> SUFFICES ASSUME TypeInv, QueueOwned, [Next]_vars PROVE QueueOwned'
  OBVIOUS
<1> DEFINE Owns(v) ==
               /\ pc[v] \in Locked => lock[tnumber[v]] = v
               /\ pc[v] = "insert" => slot[v] = Len(queue[tnumber[v]])
<1> SUFFICES ASSUME NEW v \in Workers PROVE Owns(v)'
  BY DEF QueueOwned, Locked, At
<1>0. /\ pc \in [Workers -> Places]
      /\ tnumber \in [Workers -> Queues]
      /\ lock \in [Queues -> Workers \cup {Nobody}]
      /\ slot \in [Workers -> Nat]
      /\ queue \in [Queues -> Seq(Leaves)]
      /\ \A u \in Workers : Owns(u)
  BY DEF TypeInv, Threads, Heaps, QueueOwned, Locked, At
<1> USE DEF Goto, At, Locked
<1>1. ASSUME NEW w \in Workers, Claim(w) \/ Traverse(w) \/ Return(w) \/ Barrier(w)
      PROVE  Owns(v)'
  BY <1>0, <1>1 DEF Claim, Traverse, Return, Barrier
<1>2. ASSUME NEW w \in Workers, Lock(w) PROVE Owns(v)'
  <2>1. lock[tnumber[w]] = Nobody /\ Nobody \notin Workers
    BY <1>2 DEF Lock, LockFree, Workers, Nobody
  <2>2. pc[v] \in Locked => tnumber[v] # tnumber[w]
    BY <1>0, <2>1
  <2> QED
    BY <1>0, <1>2, <2>2 DEF Lock
<1>3. ASSUME NEW w \in Workers, Reserve(w) PROVE Owns(v)'
  BY <1>0, <1>3 DEF Reserve
<1>4. ASSUME NEW w \in Workers, Insert(w) \/ Unlock(w) PROVE Owns(v)'
  <2>1. lock[tnumber[w]] = w
    BY <1>0, <1>4 DEF Insert, Unlock
  <2>2. v # w /\ pc[v] \in Locked => tnumber[v] # tnumber[w]
    BY <1>0, <2>1
  <2>3. CASE Insert(w)
    BY <1>0, <2>2, <2>3 DEF Insert
  <2>4. CASE Unlock(w)
    BY <1>0, <2>2, <2>4 DEF Unlock
  <2> QED
    BY <1>4, <2>3, <2>4
<1>5. CASE Create
  BY <1>0, <1>5 DEF Create
<1>6. CASE Join \/ UNCHANGED vars
  BY <1>0, <1>6 DEF Join, vars
<1> QED
  BY <1>1, <1>2, <1>3, <1>4, <1>5, <1>6 DEF Next, Worker, Done

SearchInv == TypeInv /\ QueueOwned

LEMMA SearchInvariant == Spec => []SearchInv
<1>1. Init => SearchInv
  BY TypeInit DEF Init, SearchInv, QueueOwned, At
<1>2. SearchInv /\ [Next]_vars => SearchInv'
  BY ThreadsNext, CallsNext, HeapsNext, CountedNext, OwnedNext
     DEF SearchInv, TypeInv
<1> QED
  BY <1>1, <1>2, PTL DEF Spec

\* No schedule of the workers takes one to a node without a box, which
\* query_to_node_dist would dereference, or past the array of queues; the
\* counter over the roots oversteps by at most one per worker.
THEOREM TypeCorrect == Spec => []TypeOK
<1>1. SearchInv => TypeOK
  <2> SUFFICES ASSUME SearchInv PROVE TypeOK
    OBVIOUS
  <2>1. node_counter \in 0 .. Len(RootList) + NumThread
    BY PastFinite, RootListAssumption, NumThreadAssumption
       DEF SearchInv, TypeInv, Counted
  <2> QED
    BY <2>1 DEF SearchInv, TypeInv, Threads, Calls, Heaps, Places, TypeOK
<1> QED
  BY <1>1, SearchInvariant, PTL

\* However many workers insert into however few heaps, what pqueue_insert has
\* read of a heap's size is its size when it writes: each insertion is whole.
THEOREM HeapsAreExclusive == Spec => []QueueOwned
<1>1. SearchInv => QueueOwned
  BY DEF SearchInv
<1> QED
  BY <1>1, SearchInvariant, PTL
-----------------------------------------------------------------------------
(* The forest: the nodes above a node are the least set that has it and is *)
(* closed under parents.                                                   *)

Roots == ToSet(RootList)

\* Neither node is above the other, nor are they the same.
Apart(m, n) == m \notin Above[n] /\ n \notin Above[m]

LEMMA RootsAreNodes ==
    /\ Roots \subseteq Nodes
    /\ Len(RootList) \in Nat
    /\ \A k \in 1 .. Len(RootList) : RootList[k] \in Roots
    /\ \A r \in Roots : \E k \in 1 .. Len(RootList) : RootList[k] = r
    /\ \A j, k \in 1 .. Len(RootList) : j # k => RootList[j] # RootList[k]
  BY RootListAssumption DEF Roots, ToSet, IsInjective

LEMMA AboveSelf == ASSUME NEW n \in Nodes PROVE n \in Above[n] /\ Above[n] \subseteq Nodes
  BY DEF Above

LEMMA AboveClosed == ASSUME NEW n \in Nodes PROVE ParentsIn(Above[n])
<1> SUFFICES ASSUME NEW m \in Inner, Children(m) \cap Above[n] # {}
             PROVE  m \in Above[n]
  BY DEF ParentsIn
<1>1. m \in Nodes
  BY ChildrenAssumption DEF Inner
<1>2. ASSUME NEW S \in SUBSET Nodes, n \in S, ParentsIn(S) PROVE m \in S
  <2>1. Above[n] \subseteq S
    BY <1>2 DEF Above
  <2> QED
    BY <1>2, <2>1 DEF ParentsIn
<1> QED
  BY <1>1, <1>2 DEF Above

LEMMA AboveLeast ==
    ASSUME NEW n \in Nodes, NEW S \in SUBSET Nodes, n \in S, ParentsIn(S)
    PROVE  Above[n] \subseteq S
  BY DEF Above

LEMMA AboveTransitive ==
    ASSUME NEW n \in Nodes, NEW m \in Above[n] PROVE Above[m] \subseteq Above[n]
<1>1. Above[n] \in SUBSET Nodes /\ m \in Nodes
  BY AboveSelf
<1> QED
  BY <1>1, AboveClosed, AboveLeast

LEMMA AboveRoot == ASSUME NEW r \in Roots PROVE Above[r] = {r}
<1>1. r \in Nodes
  BY RootsAreNodes
<1>2. ParentsIn({r})
  BY ForestAssumption DEF ParentsIn, Roots
<1> QED
  BY <1>1, <1>2, AboveLeast, AboveSelf

LEMMA AboveChild ==
    ASSUME NEW p \in Inner, NEW c \in Children(p)
    PROVE  p \in Nodes /\ c \in Nodes /\ Above[c] = {c} \cup Above[p]
<1>1. p \in Nodes /\ c \in Nodes
  BY ChildrenAssumption DEF Inner, Children
<1>2. ParentsIn({c} \cup Above[p])
  <2> SUFFICES ASSUME NEW m \in Inner, NEW d \in Children(m), d \in {c} \cup Above[p]
               PROVE  m \in {c} \cup Above[p]
    BY DEF ParentsIn
  <2>1. CASE d = c
    <3>1. m = p
      BY <2>1, ForestAssumption
    <3> QED
      BY <1>1, <3>1, AboveSelf
  <2>2. CASE d \in Above[p]
    BY <1>1, <2>2, AboveClosed DEF ParentsIn
  <2> QED
    BY <2>1, <2>2
<1>3. Above[c] \subseteq {c} \cup Above[p]
  <2>1. Above[p] \subseteq Nodes
    BY <1>1, AboveSelf
  <2> QED
    BY <1>1, <1>2, <2>1, AboveLeast
<1>4. c \in Above[c] /\ Above[c] \subseteq Nodes
  BY <1>1, AboveSelf
<1>5. p \in Above[c]
  BY <1>1, <1>4, AboveClosed DEF ParentsIn
<1>6. Above[p] \subseteq Above[c]
  BY <1>1, <1>5, AboveTransitive
<1> QED
  BY <1>1, <1>3, <1>4, <1>6

\* There is no cycle: one would keep the root away from its nodes.
LEMMA ChildIsBelow ==
    ASSUME NEW p \in Inner, NEW c \in Children(p) PROVE c \notin Above[p]
<1> SUFFICES ASSUME c \in Above[p] PROVE FALSE
  OBVIOUS
<1> DEFINE S == {x \in Nodes : c \in Above[x]}
<1>1. c \in Nodes /\ p \in Nodes
  BY AboveChild
<1>2. c \in S
  BY <1>1, AboveSelf
<1>3. ParentsIn(S)
  <2> SUFFICES ASSUME NEW m \in Inner, NEW x \in Children(m), x \in S PROVE m \in S
    BY DEF ParentsIn
  <2>1. m \in Nodes /\ Above[x] = {x} \cup Above[m]
    BY AboveChild
  <2>2. CASE x = c
    <3>1. m = p
      BY <2>2, ForestAssumption
    <3> QED
      BY <1>1, <3>1
  <2>3. CASE x # c
    BY <2>1, <2>3
  <2> QED
    BY <2>2, <2>3
<1>4. Above[c] \subseteq S
  <2>1. S \in SUBSET Nodes
    OBVIOUS
  <2> HIDE DEF S
  <2> QED
    BY <1>1, <1>2, <1>3, <2>1, AboveLeast
<1>5. PICK r \in Roots : r \in Above[c]
  BY <1>1, ForestAssumption DEF Roots
<1>6. c \in Above[r] /\ Above[r] = {r}
  BY <1>4, <1>5, AboveRoot
<1>7. c \in Roots
  BY <1>5, <1>6
<1> QED
  BY <1>7, ForestAssumption DEF Roots

LEMMA SiblingsApart ==
    ASSUME NEW p \in Inner PROVE Apart(Left[p], Right[p]) /\ Apart(Right[p], Left[p])
<1>1. Left[p] \in Children(p) /\ Right[p] \in Children(p) /\ Left[p] # Right[p]
  BY ForestAssumption DEF Children
<1>2. /\ Above[Left[p]] = {Left[p]} \cup Above[p] /\ Left[p] \notin Above[p]
      /\ Above[Right[p]] = {Right[p]} \cup Above[p] /\ Right[p] \notin Above[p]
  BY <1>1, AboveChild, ChildIsBelow
<1> QED
  BY <1>1, <1>2 DEF Apart

LEMMA RootsApart ==
    ASSUME NEW r \in Roots, NEW s \in Roots, r # s PROVE Apart(r, s)
  BY AboveRoot DEF Apart

\* What is apart from a node is apart from its children.
LEMMA ChildrenApart ==
    ASSUME NEW p \in Inner, NEW c \in Children(p), NEW n \in Nodes, Apart(p, n)
    PROVE  Apart(c, n) /\ Apart(n, c)
<1>1. c \in Nodes /\ p \in Nodes /\ Above[c] = {c} \cup Above[p]
  BY AboveChild
<1>2. c \notin Above[n]
  BY AboveClosed DEF ParentsIn, Apart
<1>3. p \in Above[c]
  BY <1>1, AboveSelf
<1>4. n # c
  BY <1>3 DEF Apart
<1> QED
  BY <1>1, <1>2, <1>4 DEF Apart

\* The way from a node above n to n goes through a child.
LEMMA NextOnTheWay ==
    ASSUME NEW n \in Nodes, NEW m \in Above[n], m # n
    PROVE  m \in Inner /\ \E c \in Children(m) : c \in Above[n]
<1> SUFFICES ASSUME ~(m \in Inner /\ \E c \in Children(m) : c \in Above[n])
             PROVE  FALSE
  OBVIOUS
<1> DEFINE S == Above[n] \ {m}
<1>1. S \in SUBSET Nodes /\ n \in S /\ m \notin S
  BY AboveSelf
<1>2. ParentsIn(S)
  <2> SUFFICES ASSUME NEW k \in Inner, NEW d \in Children(k), d \in S PROVE k \in S
    BY DEF ParentsIn
  <2>1. k \in Above[n]
    BY AboveClosed DEF ParentsIn
  <2>2. k # m
    OBVIOUS
  <2> QED
    BY <2>1, <2>2
<1> HIDE DEF S
<1>3. Above[n] \subseteq S
  BY <1>1, <1>2, AboveLeast
<1> QED
  BY <1>1, <1>3

-----------------------------------------------------------------------------
(* The nodes a worker has still to deal with, in their order.              *)

Todo(w) == IF pc[w] = "unlock" THEN Tail(stack[w]) ELSE stack[w]

AllApart(s) == \A x, y \in DOMAIN s : x # y => Apart(s[x], s[y])

LEMMA FirstAndRest ==
    ASSUME NEW S, NEW s \in Seq(S), s # <<>>
    PROVE  /\ Head(s) \in S
           /\ Tail(s) \in Seq(S)
           /\ ToSet(s) = {Head(s)} \cup ToSet(Tail(s))
<1>1. /\ Head(s) = s[1] /\ 1 \in DOMAIN s /\ Tail(s) \in Seq(S)
      /\ DOMAIN Tail(s) = 1 .. Len(s) - 1 /\ DOMAIN s = 1 .. Len(s) /\ Len(s) \in Nat
      /\ \A x \in DOMAIN Tail(s) : Tail(s)[x] = s[x + 1] /\ x + 1 \in DOMAIN s
  OBVIOUS
<1>2. \A x \in DOMAIN s : x = 1 \/ (x - 1 \in DOMAIN Tail(s) /\ Tail(s)[x - 1] = s[x])
  BY <1>1
<1>3. \A x \in DOMAIN s : s[x] \in {Head(s)} \cup ToSet(Tail(s))
  BY <1>1, <1>2 DEF ToSet
<1>4. \A x \in DOMAIN Tail(s) : Tail(s)[x] \in ToSet(s)
  BY <1>1 DEF ToSet
<1>5. Head(s) \in ToSet(s) /\ s[1] \in S
  BY <1>1 DEF ToSet
<1> QED
  BY <1>1, <1>3, <1>4, <1>5 DEF ToSet

LEMMA RestApart ==
    ASSUME NEW s \in Seq(Nodes), s # <<>>, AllApart(s)
    PROVE  AllApart(Tail(s)) /\ \A n \in ToSet(Tail(s)) : Apart(Head(s), n)
<1>1. /\ Head(s) = s[1] /\ 1 \in DOMAIN s
      /\ \A x \in DOMAIN Tail(s) :
            x \in Nat \ {0} /\ Tail(s)[x] = s[x + 1] /\ x + 1 \in DOMAIN s
  OBVIOUS
<1>2. ASSUME NEW x \in DOMAIN Tail(s), NEW y \in DOMAIN Tail(s), x # y
      PROVE  Apart(Tail(s)[x], Tail(s)[y])
  <2>1. x + 1 # y + 1 /\ x + 1 \in DOMAIN s /\ y + 1 \in DOMAIN s
    BY <1>1, <1>2
  <2> QED
    BY <1>1, <2>1 DEF AllApart
<1>3. ASSUME NEW x \in DOMAIN Tail(s) PROVE Apart(Head(s), Tail(s)[x])
  <2>1. x + 1 # 1 /\ x + 1 \in DOMAIN s
    BY <1>1
  <2> QED
    BY <1>1, <2>1 DEF AllApart
<1> QED
  BY <1>2, <1>3 DEF AllApart, ToSet

LEMMA JoinedApart ==
    ASSUME NEW s \in Seq(Nodes), NEW t \in Seq(Nodes), AllApart(s), AllApart(t),
           \A m \in ToSet(s) : \A n \in ToSet(t) : Apart(m, n) /\ Apart(n, m)
    PROVE  /\ s \o t \in Seq(Nodes)
           /\ AllApart(s \o t)
           /\ ToSet(s \o t) = ToSet(s) \cup ToSet(t)
<1>1. /\ s \o t \in Seq(Nodes) /\ Len(s) \in Nat /\ Len(t) \in Nat
      /\ DOMAIN s = 1 .. Len(s) /\ DOMAIN t = 1 .. Len(t)
      /\ DOMAIN (s \o t) = 1 .. Len(s) + Len(t)
      /\ \A x \in 1 .. Len(s) + Len(t) :
            (s \o t)[x] = IF x <= Len(s) THEN s[x] ELSE t[x - Len(s)]
  OBVIOUS
<1> DEFINE u == s \o t
<1>2. \A x \in DOMAIN s : x \in DOMAIN u /\ u[x] = s[x]
  BY <1>1
<1>3. \A x \in DOMAIN t : x + Len(s) \in DOMAIN u /\ u[x + Len(s)] = t[x]
  BY <1>1
<1>4. \A x \in DOMAIN u : \/ x \in DOMAIN s /\ u[x] = s[x]
                          \/ x - Len(s) \in DOMAIN t /\ u[x] = t[x - Len(s)]
  BY <1>1
<1>6. DOMAIN u \subseteq Nat
  BY <1>1
<1> HIDE DEF u
<1>5. ToSet(u) = ToSet(s) \cup ToSet(t)
  BY <1>2, <1>3, <1>4 DEF ToSet
<1>7. ASSUME NEW x \in DOMAIN u, NEW y \in DOMAIN u, x # y PROVE Apart(u[x], u[y])
  <2>1. CASE x \in DOMAIN s /\ u[x] = s[x] /\ y \in DOMAIN s /\ u[y] = s[y]
    BY <1>7, <2>1 DEF AllApart
  <2>2. CASE /\ x - Len(s) \in DOMAIN t /\ u[x] = t[x - Len(s)]
             /\ y - Len(s) \in DOMAIN t /\ u[y] = t[y - Len(s)]
    <3>1. x - Len(s) # y - Len(s)
      BY <1>1, <1>6, <1>7
    <3> QED
      BY <2>2, <3>1 DEF AllApart
  <2>3. CASE \/ /\ x \in DOMAIN s /\ u[x] = s[x]
                /\ y - Len(s) \in DOMAIN t /\ u[y] = t[y - Len(s)]
             \/ /\ y \in DOMAIN s /\ u[y] = s[y]
                /\ x - Len(s) \in DOMAIN t /\ u[x] = t[x - Len(s)]
    BY <2>3 DEF ToSet
  <2> QED
    BY <1>4, <2>1, <2>2, <2>3
<1> QED
  BY <1>1, <1>5, <1>7 DEF AllApart, u

LEMMA OneCall ==
    ASSUME NEW n \in Nodes
    PROVE  <<n>> \in Seq(Nodes) /\ ToSet(<<n>>) = {n} /\ AllApart(<<n>>)
  BY DEF ToSet, AllApart

\* The calls an inner node leads to, as a set; two siblings are apart.
LEMMA BoxedChildrenSet ==
    ASSUME NEW n \in Inner
    PROVE  /\ BoxedChildren(n) \in Seq(Nodes)
           /\ ToSet(BoxedChildren(n)) = {c \in Children(n) : boxed[c]}
           /\ AllApart(BoxedChildren(n))
<1> DEFINE c == Left[n]
           d == Right[n]
<1>1. c \in Nodes /\ d \in Nodes /\ Children(n) = {c, d}
  BY ChildrenAssumption DEF Inner, Children
<1>2. Apart(c, d) /\ Apart(d, c)
  BY SiblingsApart
<1>3. BoxedChildren(n) = (IF boxed[c] THEN <<c>> ELSE <<>>) \o (IF boxed[d] THEN <<d>> ELSE <<>>)
  BY DEF BoxedChildren
<1> HIDE DEF c, d
<1>4. CASE boxed[c] /\ boxed[d]
  <2> DEFINE s == <<c>>
             t == <<d>>
  <2>1. BoxedChildren(n) = s \o t
    BY <1>3, <1>4
  <2>2. /\ s \in Seq(Nodes) /\ ToSet(s) = {c} /\ AllApart(s)
        /\ t \in Seq(Nodes) /\ ToSet(t) = {d} /\ AllApart(t)
    BY <1>1, OneCall
  <2> HIDE DEF s, t
  <2>3. /\ s \o t \in Seq(Nodes) /\ AllApart(s \o t)
        /\ ToSet(s \o t) = {c} \cup {d}
    BY <1>2, <2>2, JoinedApart
  <2> QED
    BY <1>1, <1>4, <2>1, <2>3
<1>5. CASE boxed[c] /\ ~boxed[d]
  <2>1. BoxedChildren(n) = <<c>>
    BY <1>1, <1>3, <1>5
  <2> QED
    BY <1>1, <1>5, <2>1 DEF ToSet, AllApart
<1>6. CASE ~boxed[c] /\ boxed[d]
  <2>1. BoxedChildren(n) = <<d>>
    BY <1>1, <1>3, <1>6
  <2> QED
    BY <1>1, <1>6, <2>1 DEF ToSet, AllApart
<1>7. CASE ~boxed[c] /\ ~boxed[d]
  <2>1. BoxedChildren(n) = <<>>
    BY <1>1, <1>3, <1>7
  <2> QED
    BY <1>1, <1>7, <2>1 DEF ToSet, AllApart
<1> QED
  BY <1>4, <1>5, <1>6, <1>7

-----------------------------------------------------------------------------
(* What a step does to the nodes still to deal with and to the queues.     *)

ToClaim == {RootList[k] : k \in node_counter + 1 .. Len(RootList)}

\* Workers between two roots have nothing to do; those that have left the loop
\* have seen the end of the list; what is about to be inserted is near.
Idle ==
    /\ near \in [Nodes -> BOOLEAN]
    /\ \A n \in Nodes : ~boxed[n] => ~near[n]
    /\ \A w \in Workers : /\ pc[w] \in {"idle", "claim", "barrier", "exit"} => stack[w] = <<>>
                          /\ pc[w] \in {"barrier", "exit"} => node_counter >= Len(RootList)
                          /\ pc[w] \in {"lock", "reserve", "insert"} => near[Current(w)]
    /\ main = "done" => \A w \in Workers : pc[w] = "exit"

LEMMA IdleInit == Init => Idle
  BY DEF Init, Idle

LEMMA IdleNext == SearchInv /\ Idle /\ [Next]_vars => Idle'
<1> SUFFICES ASSUME SearchInv, Idle, [Next]_vars PROVE Idle'
  OBVIOUS
<1> USE DEF Goto, At
<1>0. /\ pc \in [Workers -> Places] /\ stack \in [Workers -> Seq(Nodes)]
      /\ node_counter \in Nat /\ Len(RootList) \in Nat
      /\ created \in Nat /\ (main = "create" => created < NumThread)
  BY RootListAssumption DEF SearchInv, TypeInv, Threads, Calls, Counted
<1>1. near' = near /\ boxed' = boxed
  BY DEF Next, Worker, Claim, Traverse, Return, Lock, Reserve, Insert, Unlock,
         Barrier, Create, Join, Done, vars
<1>2. node_counter' \in Nat /\ node_counter <= node_counter'
  BY <1>0 DEF Next, Worker, Claim, FetchAndAdd, Traverse, Return, Lock, Reserve,
              Insert, Unlock, Barrier, Create, Join, Done, vars
<1> DEFINE Fine(w) ==
        /\ pc[w] \in {"idle", "claim", "barrier", "exit"} => stack[w] = <<>>
        /\ pc[w] \in {"barrier", "exit"} => node_counter >= Len(RootList)
        /\ pc[w] \in {"lock", "reserve", "insert"} => near[Current(w)]
<1>3. \A w \in Workers : Fine(w)
  BY DEF Idle
<1>4. ASSUME NEW v \in Workers, pc'[v] = pc[v], stack'[v] = stack[v] PROVE Fine(v)'
  BY <1>0, <1>1, <1>2, <1>3, <1>4 DEF Current
<1>5. ASSUME NEW w \in Workers, Worker(w)
      PROVE  main # "done" /\ UNCHANGED main /\ \A v \in Workers : Fine(v)'
  <2>1. main # "done" /\ UNCHANGED main
    BY <1>5 DEF Idle, Worker, Claim, Traverse, Return, Lock, Reserve, Insert, Unlock,
                Barrier
  <2>2. \A v \in Workers : v # w => pc'[v] = pc[v] /\ stack'[v] = stack[v]
    BY <1>0, <1>5 DEF Worker, Claim, Traverse, Return, Lock, Reserve, Insert, Unlock,
                      Barrier
  <2>3. ASSUME Claim(w) PROVE Fine(w)'
    <3>1. pc[w] = "claim" /\ stack[w] = <<>>
      BY <1>3, <2>3 DEF Claim
    <3>2. \/ pc'[w] = "barrier" /\ stack'[w] = stack[w] /\ node_counter >= Len(RootList)
          \/ pc'[w] = "traverse"
      BY <1>0, <2>3 DEF Claim
    <3> QED
      BY <1>0, <1>2, <3>1, <3>2
  <2>4. ASSUME Traverse(w) PROVE Fine(w)'
    <3>1. \/ pc'[w] = "traverse"
          \/ pc'[w] = "lock" /\ near[Current(w)] /\ stack'[w] = stack[w]
      BY <1>0, <2>4 DEF Traverse
    <3> QED
      BY <1>1, <3>1 DEF Current
  <2>5. ASSUME Lock(w) \/ Reserve(w) PROVE Fine(w)'
    <3>1. /\ pc[w] \in {"lock", "reserve"} /\ pc'[w] \in {"reserve", "insert"}
          /\ stack'[w] = stack[w]
      BY <1>0, <2>5 DEF Lock, Reserve
    <3> QED
      BY <1>1, <1>3, <3>1 DEF Current
  <2>7. ASSUME Return(w) \/ Barrier(w) PROVE Fine(w)'
    <3>1. /\ pc'[w] = "claim" \/ (pc[w] = "barrier" /\ pc'[w] = "exit")
          /\ stack[w] = <<>> /\ stack'[w] = stack[w]
      BY <1>0, <1>3, <2>7 DEF Return, Barrier
    <3> QED
      BY <1>0, <1>2, <1>3, <3>1
  <2>8. ASSUME Insert(w) \/ Unlock(w) PROVE Fine(w)'
    <3>1. pc'[w] \in {"unlock", "traverse"}
      BY <1>0, <2>8 DEF Insert, Unlock
    <3> QED
      BY <3>1
  <2>6. Fine(w)'
    BY <1>5, <2>3, <2>4, <2>5, <2>7, <2>8 DEF Worker
  <2> QED
    BY <1>4, <2>1, <2>2, <2>6
<1>6. CASE Create
  <2>1. created \in Workers
    BY <1>0, <1>6, NumThreadAssumption DEF Create, Workers
  <2>2. /\ pc' = [pc EXCEPT ![created] = "claim"] /\ stack' = stack
        /\ main' \in {"create", "join"} /\ pc[created] = "idle"
    BY <1>6, <2>1 DEF Create, SearchInv, TypeInv, Threads
  <2>3. \A v \in Workers : v # created => Fine(v)'
    BY <1>0, <1>4, <2>2
  <2>4. \A v \in Workers : v = created => Fine(v)'
    <3>1. pc'[created] = "claim" /\ stack'[created] = <<>>
      BY <1>0, <1>3, <2>1, <2>2
    <3> QED
      BY <3>1
  <2> QED
    BY <1>1, <2>2, <2>3, <2>4 DEF Idle
<1>7. CASE Join \/ UNCHANGED vars
  BY <1>1, <1>3, <1>4, <1>7 DEF Join, vars, Idle
<1> HIDE DEF Fine
<1>8. /\ \A v \in Workers : Fine(v)'
      /\ main' = "done" => \A v \in Workers : pc'[v] = "exit"
      => Idle'
  BY <1>1 DEF Idle, Fine
<1> QED
  BY <1>5, <1>6, <1>7, <1>8 DEF Next, Done

\* The five things a step may do to them.
Keeps == /\ \A v \in Workers : Todo(v)' = Todo(v)
         /\ UNCHANGED queue
         /\ ToClaim' = ToClaim
Gives(w, s) == /\ Todo(w)' = s
               /\ \A v \in Workers : v # w => Todo(v)' = Todo(v)
Claims(w) == \E r \in ToClaim : /\ Todo(w) = <<>>
                                /\ Gives(w, <<r>>)
                                /\ ToClaim' = ToClaim \ {r}
                                /\ UNCHANGED queue
Prunes(w) == /\ ~near[Head(Todo(w))]
             /\ Gives(w, Tail(Todo(w)))
             /\ ToClaim' = ToClaim
             /\ UNCHANGED queue
Descends(w) == /\ near[Head(Todo(w))] /\ Head(Todo(w)) \in Inner
               /\ Gives(w, BoxedChildren(Head(Todo(w))) \o Tail(Todo(w)))
               /\ ToClaim' = ToClaim
               /\ UNCHANGED queue
Inserts(w) == /\ near[Head(Todo(w))] /\ Head(Todo(w)) \in Leaves
              /\ Gives(w, Tail(Todo(w)))
              /\ ToClaim' = ToClaim
              /\ \E q \in Queues :
                    queue' = [queue EXCEPT ![q] = Append(@, Head(Todo(w)))]

Deals(w) == Claims(w) \/ (Todo(w) # <<>> /\ (Prunes(w) \/ Descends(w) \/ Inserts(w)))

LEMMA Effects ==
    ASSUME SearchInv, Idle, [Next]_vars
    PROVE  UNCHANGED <<near, boxed>> /\ (Keeps \/ \E w \in Workers : Deals(w))
<1> USE DEF Goto, At
<1>0. /\ pc \in [Workers -> Places] /\ stack \in [Workers -> Seq(Nodes)]
      /\ node_counter \in Nat /\ Len(RootList) \in Nat
      /\ created \in Nat /\ (main = "create" => created < NumThread)
  BY RootListAssumption DEF SearchInv, TypeInv, Threads, Calls, Counted
<1>1. near' = near /\ boxed' = boxed
  BY DEF Next, Worker, Claim, Traverse, Return, Lock, Reserve, Insert, Unlock,
         Barrier, Create, Join, Done, vars
<1>2. ASSUME NEW w \in Workers, Claim(w) PROVE Keeps \/ Deals(w)
  <2>1. CASE node_counter >= Len(RootList) /\ Goto(w, "barrier") /\ UNCHANGED stack
    <3>1. node_counter' = node_counter + 1 /\ pc[w] = "claim" /\ UNCHANGED queue
      BY <1>2 DEF Claim, FetchAndAdd
    <3>2. ToClaim = {} /\ ToClaim' = {}
      BY <1>0, <2>1, <3>1 DEF ToClaim
    <3>3. \A v \in Workers : Todo(v)' = Todo(v)
      BY <1>0, <2>1, <3>1 DEF Todo
    <3> QED
      BY <3>1, <3>2, <3>3 DEF Keeps
  <2>2. CASE /\ node_counter < Len(RootList)
             /\ stack' = [stack EXCEPT ![w] = <<RootList[node_counter + 1]>>]
             /\ Goto(w, "traverse")
    <3> DEFINE r == RootList[node_counter + 1]
    <3>1. node_counter' = node_counter + 1 /\ pc[w] = "claim" /\ UNCHANGED queue
      BY <1>2 DEF Claim, FetchAndAdd
    <3>2. r \in ToClaim
      BY <1>0, <2>2 DEF ToClaim
    <3>3. ToClaim' = ToClaim \ {r}
      <4>1. node_counter + 1 .. Len(RootList) =
                {node_counter + 1} \cup (node_counter + 2 .. Len(RootList))
        BY <1>0, <2>2
      <4>2. \A k \in node_counter + 2 .. Len(RootList) : RootList[k] # r
        BY <1>0, <2>2, RootsAreNodes
      <4>3. ToClaim' = {RootList[k] : k \in node_counter + 2 .. Len(RootList)}
        BY <1>0, <3>1 DEF ToClaim
      <4> QED
        BY <4>1, <4>2, <4>3 DEF ToClaim
    <3>4. Todo(w) = <<>>
      BY <1>0, <3>1 DEF Todo, Idle
    <3>5. Gives(w, <<r>>)
      BY <1>0, <2>2, <3>1 DEF Gives, Todo
    <3> QED
      BY <3>1, <3>2, <3>3, <3>4, <3>5 DEF Claims, Deals
  <2> QED
    BY <1>2, <2>1, <2>2 DEF Claim
<1>3. ASSUME NEW w \in Workers, Traverse(w) PROVE Keeps \/ Deals(w)
  <2>1. /\ Todo(w) = stack[w] /\ Todo(w) # <<>>
        /\ UNCHANGED <<queue, node_counter>> /\ pc[w] = "traverse"
    BY <1>3 DEF Traverse, Todo
  <2>2. ToClaim' = ToClaim
    BY <2>1 DEF ToClaim
  <2>3. ASSUME NEW s, stack' = [stack EXCEPT ![w] = s], UNCHANGED pc PROVE Gives(w, s)
    BY <1>0, <2>1, <2>3 DEF Gives, Todo
  <2>4. CASE ~near[Current(w)] /\ UNCHANGED pc /\ stack' = [stack EXCEPT ![w] = Tail(stack[w])]
    BY <2>1, <2>2, <2>3, <2>4 DEF Prunes, Deals, Current
  <2>5. CASE /\ near[Current(w)] /\ Current(w) \in Inner /\ UNCHANGED pc
             /\ stack' = [stack EXCEPT ![w] = BoxedChildren(Current(w)) \o Tail(stack[w])]
    <3>1. Gives(w, BoxedChildren(Current(w)) \o Tail(stack[w]))
      BY <2>3, <2>5
    <3> QED
      BY <2>1, <2>2, <2>5, <3>1 DEF Descends, Deals, Current
  <2>6. CASE Goto(w, "lock") /\ UNCHANGED stack
    <3>1. \A v \in Workers : Todo(v)' = Todo(v)
      BY <1>0, <2>1, <2>6 DEF Todo
    <3> QED
      BY <2>1, <2>2, <3>1 DEF Keeps
  <2> QED
    BY <1>3, <2>4, <2>5, <2>6 DEF Traverse
<1>4. ASSUME NEW w \in Workers, Insert(w) PROVE Deals(w)
  <2>1. /\ Todo(w) = stack[w] /\ Todo(w) # <<>> /\ Current(w) \in Leaves
        /\ near[Current(w)] /\ slot[w] = Len(queue[tnumber[w]])
        /\ UNCHANGED <<stack, node_counter>> /\ pc' = [pc EXCEPT ![w] = "unlock"]
    BY <1>4 DEF Insert, Todo, SearchInv, TypeInv, Calls, Inserting, Locked, Idle, QueueOwned
  <2>2. ToClaim' = ToClaim
    BY <2>1 DEF ToClaim
  <2>3. Gives(w, Tail(Todo(w)))
    BY <1>0, <1>4, <2>1 DEF Gives, Todo, Insert
  <2>4. tnumber[w] \in Queues /\ queue[tnumber[w]] \in Seq(Leaves)
    BY DEF SearchInv, TypeInv, Heaps
  <2>5. SubSeq(queue[tnumber[w]], 1, slot[w]) = queue[tnumber[w]]
    BY <2>1, <2>4
  <2>6. queue' = [queue EXCEPT ![tnumber[w]] = Append(@, Head(Todo(w)))]
    BY <1>4, <2>1, <2>5 DEF Insert, Current
  <2> QED
    BY <2>1, <2>2, <2>3, <2>4, <2>6 DEF Inserts, Deals, Current
<1>5. ASSUME NEW w \in Workers, Return(w) \/ Lock(w) \/ Reserve(w) \/ Unlock(w) \/ Barrier(w)
      PROVE  Keeps
  <2>1. UNCHANGED <<queue, node_counter>>
    BY <1>5 DEF Return, Lock, Reserve, Unlock, Barrier
  <2>2. \A v \in Workers : Todo(v)' = Todo(v)
    BY <1>0, <1>5 DEF Return, Lock, Reserve, Unlock, Barrier, Todo
  <2> QED
    BY <2>1, <2>2 DEF Keeps, ToClaim
<1>6. CASE Create
  <2>1. created \in Workers
    BY <1>0, <1>6, NumThreadAssumption DEF Create, Workers
  <2>2. pc[created] = "idle"
    BY <2>1, <1>6 DEF SearchInv, TypeInv, Threads
  <2>3. \A v \in Workers : Todo(v)' = Todo(v)
    BY <1>0, <1>6, <2>1, <2>2 DEF Create, Todo
  <2> QED
    BY <1>6, <2>3 DEF Create, Keeps, ToClaim
<1>7. CASE Join \/ UNCHANGED vars
  BY <1>7 DEF Join, vars, Keeps, Todo, ToClaim
<1> QED
  BY <1>1, <1>2, <1>3, <1>4, <1>5, <1>6, <1>7 DEF Next, Worker, Done

-----------------------------------------------------------------------------
(* Every part of the forest is in one place: on the stack of one worker,   *)
(* in the list of roots still to claim, or in one queue.                   *)

LEMMA AppendOne ==
    ASSUME NEW S, NEW s \in Seq(S), NEW n \in S
    PROVE  /\ ToSet(Append(s, n)) = ToSet(s) \cup {n}
           /\ IsInjective(s) /\ n \notin ToSet(s) => IsInjective(Append(s, n))
<1> DEFINE t == Append(s, n)
<1>1. /\ DOMAIN t = DOMAIN s \cup {Len(s) + 1} /\ Len(s) + 1 \notin DOMAIN s
      /\ t[Len(s) + 1] = n /\ \A x \in DOMAIN s : t[x] = s[x]
  OBVIOUS
<1> HIDE DEF t
<1>2. ToSet(t) = ToSet(s) \cup {n}
  BY <1>1 DEF ToSet
<1>3. IsInjective(s) /\ n \notin ToSet(s) => IsInjective(t)
  BY <1>1 DEF ToSet, IsInjective
<1> QED
  BY <1>2, <1>3 DEF t

ApartTodos ==
    /\ \A w \in Workers : AllApart(Todo(w))
    /\ \A v, w \in Workers : v # w =>
          \A m \in ToSet(Todo(v)) : \A n \in ToSet(Todo(w)) : Apart(m, n)
    /\ \A w \in Workers : \A m \in ToSet(Todo(w)) : \A r \in ToClaim : Apart(m, r)

ApartQueues ==
    /\ \A w \in Workers : \A m \in ToSet(Todo(w)) : \A q \in Queues :
          \A n \in ToSet(queue[q]) : Apart(m, n)
    /\ \A r \in ToClaim : \A q \in Queues : \A n \in ToSet(queue[q]) : Apart(r, n)
    /\ \A q \in Queues : IsInjective(queue[q])
    /\ \A q, p \in Queues : q # p => ToSet(queue[q]) \cap ToSet(queue[p]) = {}

LEMMA TodoTypes ==
    ASSUME SearchInv
    PROVE  /\ \A w \in Workers : Todo(w) \in Seq(Nodes) /\ ToSet(Todo(w)) \subseteq Nodes
           /\ queue \in [Queues -> Seq(Leaves)]
           /\ \A q \in Queues : ToSet(queue[q]) \subseteq Leaves
           /\ ToClaim \subseteq Roots
           /\ \A r \in ToClaim : \A s \in ToClaim : r # s => Apart(r, s)
<1>1. ASSUME NEW w \in Workers PROVE Todo(w) \in Seq(Nodes)
  <2>1. stack[w] \in Seq(Nodes) /\ (pc[w] = "unlock" => stack[w] # <<>>)
    BY DEF SearchInv, TypeInv, Calls, Inserting, Locked
  <2> QED
    BY <2>1, FirstAndRest DEF Todo
<1>2. \A w \in Workers : ToSet(Todo(w)) \subseteq Nodes
  BY <1>1 DEF ToSet
<1>3. queue \in [Queues -> Seq(Leaves)]
  BY DEF SearchInv, TypeInv, Heaps
<1>4. \A q \in Queues : ToSet(queue[q]) \subseteq Leaves
  BY <1>3 DEF ToSet
<1>5. ToClaim \subseteq Roots
  <2>1. node_counter \in Nat
    BY DEF SearchInv, TypeInv, Counted
  <2> QED
    BY <2>1, RootsAreNodes DEF ToClaim
<1>6. \A r \in ToClaim : \A s \in ToClaim : r # s => Apart(r, s)
  BY <1>5, RootsApart
<1> QED
  BY <1>1, <1>2, <1>3, <1>4, <1>5, <1>6

LEMMA ApartInit == Init => ApartTodos /\ ApartQueues
<1> SUFFICES ASSUME Init PROVE ApartTodos /\ ApartQueues
  OBVIOUS
<1>1. \A w \in Workers : Todo(w) = <<>>
  BY DEF Init, Todo
<1>2. \A q \in Queues : queue[q] = <<>>
  BY DEF Init
<1>3. ToSet(<<>>) = {} /\ AllApart(<<>>) /\ IsInjective(<<>>)
  BY DEF ToSet, AllApart, IsInjective
<1> QED
  BY <1>1, <1>2, <1>3 DEF ApartTodos, ApartQueues

\* What a worker has to do after a step comes from what it had to do before.
LEMMA ComesFrom ==
    ASSUME SearchInv, ApartTodos, NEW w \in Workers, Todo(w) # <<>>,
           Prunes(w) \/ Descends(w) \/ Inserts(w)
    PROVE  /\ Head(Todo(w)) \in ToSet(Todo(w))
           /\ AllApart(Todo(w)')
           /\ \A k \in Nodes : (\A m \in ToSet(Todo(w)) : Apart(m, k))
                                  => \A n \in ToSet(Todo(w)') : Apart(n, k)
           /\ \A v \in Workers : v # w => Todo(v)' = Todo(v)
<1> DEFINE s == Todo(w)
           h == Head(s)
<1>1. s \in Seq(Nodes) /\ AllApart(s)
  BY TodoTypes DEF ApartTodos
<1>2. h \in Nodes /\ Tail(s) \in Seq(Nodes) /\ ToSet(s) = {h} \cup ToSet(Tail(s))
  BY <1>1, FirstAndRest
<1>3. AllApart(Tail(s)) /\ \A n \in ToSet(Tail(s)) : Apart(h, n)
  BY <1>1, RestApart
<1>4. \A v \in Workers : v # w => Todo(v)' = Todo(v)
  BY DEF Prunes, Descends, Inserts, Gives
<1>5. CASE Prunes(w) \/ Inserts(w)
  <2>1. Todo(w)' = Tail(s)
    BY <1>5 DEF Prunes, Inserts, Gives
  <2> QED
    BY <1>2, <1>3, <1>4, <2>1
<1>6. CASE Descends(w)
  <2> DEFINE b == BoxedChildren(h)
  <2>1. h \in Inner /\ Todo(w)' = b \o Tail(s)
    BY <1>6 DEF Descends, Gives
  <2>2. /\ b \in Seq(Nodes) /\ AllApart(b)
        /\ ToSet(b) \subseteq Children(h)
    BY <2>1, BoxedChildrenSet
  <2> HIDE DEF b
  <2>3. \A k \in Nodes : Apart(h, k) => \A c \in ToSet(b) : Apart(c, k) /\ Apart(k, c)
    BY <2>1, <2>2, ChildrenApart
  <2>4. ToSet(Tail(s)) \subseteq Nodes
    BY <1>2 DEF ToSet
  <2>5. \A m \in ToSet(b) : \A n \in ToSet(Tail(s)) : Apart(m, n) /\ Apart(n, m)
    BY <1>3, <2>3, <2>4
  <2>6. AllApart(b \o Tail(s)) /\ ToSet(b \o Tail(s)) = ToSet(b) \cup ToSet(Tail(s))
    BY <1>2, <1>3, <2>2, <2>5, JoinedApart
  <2> QED
    BY <1>2, <1>4, <2>1, <2>3, <2>6
<1> QED
  BY <1>5, <1>6

LEMMA ApartSymmetric == ASSUME NEW m, NEW n, Apart(m, n) PROVE Apart(n, m)
  BY DEF Apart

LEMMA ApartTodosNext ==
    SearchInv /\ Idle /\ ApartTodos /\ [Next]_vars => ApartTodos'
<1> SUFFICES ASSUME SearchInv, Idle, ApartTodos, [Next]_vars PROVE ApartTodos'
  OBVIOUS
<1>1. Keeps \/ \E w \in Workers : Deals(w)
  BY Effects
<1>2. CASE Keeps
  BY <1>2 DEF Keeps, ApartTodos
<1>3. ASSUME NEW w \in Workers, Claims(w) PROVE ApartTodos'
  <2>1. PICK r \in ToClaim : /\ Gives(w, <<r>>)
                             /\ ToClaim' = ToClaim \ {r}
    BY <1>3 DEF Claims
  <2>2. r \in Roots /\ r \in Nodes
    BY TodoTypes, RootsAreNodes
  <2>3. AllApart(Todo(w)') /\ ToSet(Todo(w)') = {r}
    BY <2>1, <2>2, OneCall DEF Gives
  <2>4. \A v \in Workers : v # w => Todo(v)' = Todo(v)
    BY <2>1 DEF Gives
  <2>5. \A v \in Workers : \A m \in ToSet(Todo(v)) : Apart(m, r) /\ Apart(r, m)
    BY ApartSymmetric DEF ApartTodos
  <2>6. \A u \in ToClaim' : Apart(r, u)
    BY <2>1, TodoTypes
  <2> QED
    BY <2>1, <2>3, <2>4, <2>5, <2>6 DEF ApartTodos
<1>4. ASSUME NEW w \in Workers, Todo(w) # <<>>,
             Prunes(w) \/ Descends(w) \/ Inserts(w)
      PROVE  ApartTodos'
  <2>1. ToClaim' = ToClaim
    BY <1>4 DEF Prunes, Descends, Inserts
  <2>2. /\ AllApart(Todo(w)')
        /\ \A k \in Nodes : (\A m \in ToSet(Todo(w)) : Apart(m, k))
                               => \A n \in ToSet(Todo(w)') : Apart(n, k)
        /\ \A v \in Workers : v # w => Todo(v)' = Todo(v)
    BY <1>4, ComesFrom
  <2>3. ASSUME NEW v \in Workers, v # w, NEW m \in ToSet(Todo(v)), NEW n \in ToSet(Todo(w)')
        PROVE  Apart(n, m) /\ Apart(m, n)
    <3>1. m \in Nodes
      BY TodoTypes
    <3>2. \A k \in ToSet(Todo(w)) : Apart(k, m)
      BY <2>3 DEF ApartTodos
    <3>3. Apart(n, m)
      BY <2>2, <2>3, <3>1, <3>2
    <3> QED
      BY <3>3, ApartSymmetric
  <2>4. ASSUME NEW n \in ToSet(Todo(w)'), NEW r \in ToClaim PROVE Apart(n, r)
    <3>1. r \in Nodes
      BY TodoTypes, RootsAreNodes
    <3> QED
      BY <2>2, <3>1 DEF ApartTodos
  <2> QED
    BY <2>1, <2>2, <2>3, <2>4 DEF ApartTodos
<1> QED
  BY <1>1, <1>2, <1>3, <1>4 DEF Deals

LEMMA ApartQueuesNext ==
    SearchInv /\ Idle /\ ApartTodos /\ ApartQueues /\ [Next]_vars => ApartQueues'
<1> SUFFICES ASSUME SearchInv, Idle, ApartTodos, ApartQueues, [Next]_vars
             PROVE  ApartQueues'
  OBVIOUS
<1>1. Keeps \/ \E w \in Workers : Deals(w)
  BY Effects
<1>2. CASE Keeps
  BY <1>2 DEF Keeps, ApartQueues
<1>3. ASSUME NEW w \in Workers, Claims(w) PROVE ApartQueues'
  <2>1. PICK r \in ToClaim : /\ Gives(w, <<r>>)
                             /\ ToClaim' = ToClaim \ {r} /\ UNCHANGED queue
    BY <1>3 DEF Claims
  <2>2. r \in Nodes
    BY TodoTypes, RootsAreNodes
  <2>3. ToSet(Todo(w)') = {r} /\ \A v \in Workers : v # w => Todo(v)' = Todo(v)
    BY <2>1, <2>2, OneCall DEF Gives
  <2> QED
    BY <2>1, <2>3 DEF ApartQueues
<1>4. ASSUME NEW w \in Workers, Todo(w) # <<>>, Prunes(w) \/ Descends(w) \/ Inserts(w)
      PROVE  \A v \in Workers : \A n \in ToSet(Todo(v)') : \A q \in Queues :
                \A k \in ToSet(queue[q]) : Apart(n, k)
  <2>1. /\ \A k \in Nodes : (\A m \in ToSet(Todo(w)) : Apart(m, k))
                               => \A n \in ToSet(Todo(w)') : Apart(n, k)
        /\ \A v \in Workers : v # w => Todo(v)' = Todo(v)
    BY <1>4, ComesFrom
  <2>2. ASSUME NEW n \in ToSet(Todo(w)'), NEW q \in Queues, NEW k \in ToSet(queue[q])
        PROVE  Apart(n, k)
    <3>1. k \in Nodes
      BY TodoTypes DEF Leaves
    <3>2. \A m \in ToSet(Todo(w)) : Apart(m, k)
      BY DEF ApartQueues
    <3> QED
      BY <2>1, <3>1, <3>2
  <2> QED
    BY <2>1, <2>2 DEF ApartQueues
<1>5. ASSUME NEW w \in Workers, Todo(w) # <<>>, Prunes(w) \/ Descends(w)
      PROVE  ApartQueues'
  <2>1. ToClaim' = ToClaim /\ UNCHANGED queue
    BY <1>5 DEF Prunes, Descends
  <2> QED
    BY <1>4, <1>5, <2>1 DEF ApartQueues
<1>6. ASSUME NEW w \in Workers, Todo(w) # <<>>, Inserts(w)
      PROVE  ApartQueues'
  <2> DEFINE h == Head(Todo(w))
  <2>1. PICK q \in Queues : queue' = [queue EXCEPT ![q] = Append(queue[q], h)]
    BY <1>6 DEF Inserts
  <2>2. h \in Leaves /\ Todo(w)' = Tail(Todo(w)) /\ ToClaim' = ToClaim
    BY <1>6 DEF Inserts, Gives
  <2>3. /\ h \in ToSet(Todo(w))
        /\ \A v \in Workers : v # w => Todo(v)' = Todo(v)
    BY <1>6, ComesFrom
  <2>4. \A n \in ToSet(Todo(w)') : Apart(h, n)
    BY <1>6, <2>2, TodoTypes, RestApart DEF ApartTodos
  <2> HIDE DEF h
  <2>5. /\ queue \in [Queues -> Seq(Leaves)]
        /\ queue'[q] = Append(queue[q], h)
        /\ \A p \in Queues : p # q => queue'[p] = queue[p]
    BY <2>1, TodoTypes
  <2>6. /\ ToSet(queue'[q]) = ToSet(queue[q]) \cup {h}
        /\ IsInjective(queue[q]) /\ h \notin ToSet(queue[q]) => IsInjective(queue'[q])
    BY <2>2, <2>5, AppendOne
  <2>7. \A p \in Queues : h \notin ToSet(queue[p])
    <3>1. \A p \in Queues : \A n \in ToSet(queue[p]) : Apart(h, n)
      BY <2>3 DEF ApartQueues
    <3>2. ~Apart(h, h)
      BY <2>2, AboveSelf DEF Apart, Leaves
    <3> QED
      BY <3>1, <3>2
  <2>8. ToSet(queue'[q]) = ToSet(queue[q]) \cup {h} /\ IsInjective(queue'[q])
    BY <2>6, <2>7 DEF ApartQueues
  <2>9. \A v \in Workers : \A n \in ToSet(Todo(v)') : Apart(n, h)
    <3>1. \A v \in Workers : v # w => \A n \in ToSet(Todo(v)') : Apart(n, h)
      BY <2>3 DEF ApartTodos
    <3> QED
      BY <2>4, <3>1, ApartSymmetric
  <2>10. \A r \in ToClaim : Apart(r, h)
    BY <2>3, ApartSymmetric DEF ApartTodos
  <2>11. \A v \in Workers : \A n \in ToSet(Todo(v)') : \A p \in Queues :
            \A k \in ToSet(queue'[p]) : Apart(n, k)
    BY <1>4, <1>6, <2>5, <2>8, <2>9
  <2>12. \A r \in ToClaim' : \A p \in Queues : \A n \in ToSet(queue'[p]) : Apart(r, n)
    BY <2>2, <2>5, <2>8, <2>10 DEF ApartQueues
  <2>13. \A p \in Queues : IsInjective(queue'[p])
    BY <2>5, <2>8 DEF ApartQueues
  <2>14. \A o, p \in Queues : o # p => ToSet(queue'[o]) \cap ToSet(queue'[p]) = {}
    <3>1. \A p \in Queues : p # q => ToSet(queue'[q]) \cap ToSet(queue'[p]) = {}
      BY <2>5, <2>7, <2>8 DEF ApartQueues
    <3>2. \A o, p \in Queues : o # p /\ o # q /\ p # q =>
              ToSet(queue'[o]) \cap ToSet(queue'[p]) = {}
      BY <2>5 DEF ApartQueues
    <3> QED
      BY <3>1, <3>2
  <2> QED
    BY <2>11, <2>12, <2>13, <2>14 DEF ApartQueues
<1> QED
  BY <1>1, <1>2, <1>3, <1>5, <1>6 DEF Deals

-----------------------------------------------------------------------------
(* Everything near is in one of these places, and only what is near is     *)
(* inserted.                                                               *)

\* What a worker has still to look at lies under boxes that are near.
NearSoFar ==
    /\ \A w \in Workers : \A n \in ToSet(Todo(w)) : \A m \in Above[n] : m # n => near[m]
    /\ \A q \in Queues : ToSet(queue[q]) \subseteq Hits

\* A hit is in a queue, or under a node some worker or the root list still has.
Covered ==
    \A n \in Hits :
        \/ \E q \in Queues : n \in ToSet(queue[q])
        \/ \E w \in Workers : \E m \in ToSet(Todo(w)) : m \in Above[n]
        \/ \E r \in ToClaim : r \in Above[n]

LEMMA NearInit == Init => NearSoFar /\ Covered
<1> SUFFICES ASSUME Init PROVE NearSoFar /\ Covered
  OBVIOUS
<1>1. \A w \in Workers : Todo(w) = <<>>
  BY DEF Init, Todo
<1>2. \A q \in Queues : queue[q] = <<>>
  BY DEF Init
<1>3. ToSet(<<>>) = {}
  BY DEF ToSet
<1>4. ToClaim = Roots
  BY RootsAreNodes DEF ToClaim, Init
<1>5. \A n \in Hits : \E r \in ToClaim : r \in Above[n]
  BY <1>4, ForestAssumption DEF Hits, Leaves, Roots
<1> QED
  BY <1>1, <1>2, <1>3, <1>5 DEF NearSoFar, Covered

LEMMA NearSoFarNext ==
    SearchInv /\ Idle /\ ApartTodos /\ NearSoFar /\ [Next]_vars => NearSoFar'
<1> SUFFICES ASSUME SearchInv, Idle, ApartTodos, NearSoFar, [Next]_vars
             PROVE  NearSoFar'
  OBVIOUS
<1>1. (Keeps \/ \E w \in Workers : Deals(w)) /\ near' = near /\ Hits' = Hits
  BY Effects DEF Hits
<1>2. CASE Keeps
  BY <1>1, <1>2 DEF Keeps, NearSoFar
<1>3. ASSUME NEW w \in Workers, Claims(w) PROVE NearSoFar'
  <2>1. PICK r \in ToClaim : Gives(w, <<r>>) /\ UNCHANGED queue
    BY <1>3 DEF Claims
  <2>2. r \in Roots /\ r \in Nodes
    BY TodoTypes, RootsAreNodes
  <2>3. ToSet(Todo(w)') = {r} /\ \A v \in Workers : v # w => Todo(v)' = Todo(v)
    BY <2>1, <2>2, OneCall DEF Gives
  <2>4. Above[r] = {r}
    BY <2>2, AboveRoot
  <2> QED
    BY <1>1, <2>1, <2>3, <2>4 DEF NearSoFar
<1>4. ASSUME NEW w \in Workers, Todo(w) # <<>>, Prunes(w) \/ Descends(w) \/ Inserts(w)
      PROVE  NearSoFar'
  <2> DEFINE s == Todo(w)
             h == Head(s)
  <2>1. s \in Seq(Nodes)
    BY TodoTypes
  <2>2. h \in Nodes /\ Tail(s) \in Seq(Nodes) /\ ToSet(s) = {h} \cup ToSet(Tail(s))
    BY <1>4, <2>1, FirstAndRest
  <2>3. \A v \in Workers : v # w => Todo(v)' = Todo(v)
    BY <1>4 DEF Prunes, Descends, Inserts, Gives
  <2>4. \A n \in ToSet(Tail(s)) : \A m \in Above[n] : m # n => near[m]
    BY <2>2 DEF NearSoFar
  <2>5. \A m \in Above[h] : m # h => near[m]
    BY <2>2 DEF NearSoFar
  <2>6. CASE Prunes(w)
    <3>1. Todo(w)' = Tail(s) /\ UNCHANGED queue
      BY <2>6 DEF Prunes, Gives
    <3> QED
      BY <1>1, <2>3, <2>4, <3>1 DEF NearSoFar
  <2>7. CASE Descends(w)
    <3> DEFINE b == BoxedChildren(h)
    <3>1. near[h] /\ h \in Inner /\ Todo(w)' = b \o Tail(s) /\ UNCHANGED queue
      BY <2>7 DEF Descends, Gives
    <3>2. b \in Seq(Nodes) /\ ToSet(b) \subseteq Children(h)
      BY <3>1, BoxedChildrenSet
    <3> HIDE DEF b
    <3>3. ToSet(b \o Tail(s)) \subseteq ToSet(b) \cup ToSet(Tail(s))
      <4>1. \A x \in DOMAIN (b \o Tail(s)) :
               \/ x \in DOMAIN b /\ (b \o Tail(s))[x] = b[x]
               \/ x - Len(b) \in DOMAIN Tail(s) /\ (b \o Tail(s))[x] = Tail(s)[x - Len(b)]
        BY <2>2, <3>2
      <4> QED
        BY <4>1 DEF ToSet
    <3>4. \A n \in ToSet(b) : \A m \in Above[n] : m # n => near[m]
      BY <2>5, <3>1, <3>2, AboveChild
    <3>5. \A n \in ToSet(Todo(w)') : \A m \in Above[n] : m # n => near[m]
      BY <2>4, <3>1, <3>3, <3>4
    <3> QED
      BY <1>1, <2>3, <3>1, <3>5 DEF NearSoFar
  <2>8. CASE Inserts(w)
    <3>1. near[h] /\ h \in Leaves /\ Todo(w)' = Tail(s)
      BY <2>8 DEF Inserts, Gives
    <3>2. h \in Hits
      BY <2>5, <3>1 DEF Hits
    <3>3. PICK q \in Queues : queue' = [queue EXCEPT ![q] = Append(queue[q], h)]
      BY <2>8 DEF Inserts
    <3>4. queue \in [Queues -> Seq(Leaves)]
      BY TodoTypes
    <3>5. ToSet(Append(queue[q], h)) = ToSet(queue[q]) \cup {h}
      BY <3>1, <3>4, AppendOne
    <3>6. \A p \in Queues : ToSet(queue'[p]) \subseteq Hits
      BY <3>2, <3>3, <3>4, <3>5 DEF NearSoFar
    <3> QED
      BY <1>1, <2>3, <2>4, <3>1, <3>6 DEF NearSoFar
  <2> QED
    BY <1>4, <2>6, <2>7, <2>8
<1> QED
  BY <1>1, <1>2, <1>3, <1>4 DEF Deals

LEMMA CoveredNext ==
    SearchInv /\ Idle /\ ApartTodos /\ Covered /\ [Next]_vars => Covered'
<1> SUFFICES ASSUME SearchInv, Idle, ApartTodos, Covered, [Next]_vars,
                    NEW n \in Hits
             PROVE  \/ \E q \in Queues : n \in ToSet(queue'[q])
                    \/ \E w \in Workers : \E m \in ToSet(Todo(w)') : m \in Above[n]
                    \/ \E r \in ToClaim' : r \in Above[n]
  BY Effects DEF Covered, Hits
<1> DEFINE Goal == \/ \E q \in Queues : n \in ToSet(queue'[q])
                   \/ \E w \in Workers : \E m \in ToSet(Todo(w)') : m \in Above[n]
                   \/ \E r \in ToClaim' : r \in Above[n]
<1>0. n \in Leaves /\ n \in Nodes /\ \A m \in Above[n] : m \in Nodes /\ near[m]
  BY AboveSelf DEF Hits, Leaves
<1>1. Keeps \/ \E w \in Workers : Deals(w)
  BY Effects
<1>2. CASE Keeps
  BY <1>2 DEF Keeps, Covered
<1>3. ASSUME NEW w \in Workers, Claims(w) PROVE Goal
  <2>1. PICK r \in ToClaim : /\ Gives(w, <<r>>) /\ UNCHANGED queue
                             /\ Todo(w) = <<>> /\ ToClaim' = ToClaim \ {r}
    BY <1>3 DEF Claims
  <2>2. r \in Nodes
    BY TodoTypes, RootsAreNodes
  <2>3. ToSet(Todo(w)') = {r} /\ \A v \in Workers : v # w => Todo(v)' = Todo(v)
    BY <2>1, <2>2, OneCall DEF Gives
  <2>4. ToSet(Todo(w)) = {}
    BY <2>1 DEF ToSet
  <2> QED
    BY <2>1, <2>3, <2>4 DEF Covered
<1>4. ASSUME NEW w \in Workers, Todo(w) # <<>>, Prunes(w) \/ Descends(w) \/ Inserts(w)
      PROVE  Goal
  <2> DEFINE s == Todo(w)
             h == Head(s)
  <2>1. s \in Seq(Nodes)
    BY TodoTypes
  <2>2. h \in Nodes /\ Tail(s) \in Seq(Nodes) /\ ToSet(s) = {h} \cup ToSet(Tail(s))
    BY <1>4, <2>1, FirstAndRest
  <2>3. /\ \A v \in Workers : v # w => Todo(v)' = Todo(v)
        /\ ToClaim' = ToClaim
    BY <1>4 DEF Prunes, Descends, Inserts, Gives
  <2>4. ASSUME NEW q \in Queues PROVE ToSet(queue[q]) \subseteq ToSet(queue'[q])
    <3>1. CASE Prunes(w) \/ Descends(w)
      BY <3>1 DEF Prunes, Descends
    <3>2. CASE Inserts(w)
      <4>1. PICK p \in Queues : queue' = [queue EXCEPT ![p] = Append(queue[p], h)]
        BY <3>2 DEF Inserts
      <4>2. queue \in [Queues -> Seq(Leaves)] /\ h \in Leaves
        BY <3>2, TodoTypes DEF Inserts
      <4>3. ToSet(Append(queue[p], h)) = ToSet(queue[p]) \cup {h}
        BY <4>2, AppendOne
      <4> QED
        BY <4>1, <4>2, <4>3
    <3> QED
      BY <1>4, <3>1, <3>2
  <2>5. ToSet(Tail(s)) \subseteq ToSet(Todo(w)')
    <3>1. CASE Prunes(w) \/ Inserts(w)
      BY <3>1 DEF Prunes, Inserts, Gives
    <3>2. CASE Descends(w)
      <4> DEFINE b == BoxedChildren(h)
      <4>1. h \in Inner /\ Todo(w)' = b \o Tail(s)
        BY <3>2 DEF Descends, Gives
      <4>2. b \in Seq(Nodes)
        BY <4>1, BoxedChildrenSet
      <4> HIDE DEF b
      <4>3. \A x \in DOMAIN Tail(s) : /\ x + Len(b) \in DOMAIN (b \o Tail(s))
                                      /\ (b \o Tail(s))[x + Len(b)] = Tail(s)[x]
        BY <2>2, <4>2
      <4> QED
        BY <4>1, <4>3 DEF ToSet
    <3> QED
      BY <1>4, <3>1, <3>2
  <2>6. CASE h \notin Above[n]
    BY <2>2, <2>3, <2>4, <2>5, <2>6 DEF Covered
  <2>7. CASE h \in Above[n] /\ h = n
    <3>1. Inserts(w)
      BY <1>0, <1>4, <2>7 DEF Prunes, Descends, Leaves
    <3>2. PICK q \in Queues : queue' = [queue EXCEPT ![q] = Append(queue[q], h)]
      BY <3>1 DEF Inserts
    <3>3. queue \in [Queues -> Seq(Leaves)] /\ h \in Leaves
      BY <3>1, TodoTypes DEF Inserts
    <3>4. n \in ToSet(queue'[q])
      BY <2>7, <3>2, <3>3, AppendOne
    <3> QED
      BY <3>4
  <2>8. CASE h \in Above[n] /\ h # n
    <3>1. PICK c \in Children(h) : c \in Above[n]
      BY <1>0, <2>8, NextOnTheWay
    <3>2. h \in Inner /\ near[h]
      BY <1>0, <2>8, NextOnTheWay
    <3>3. Descends(w)
      BY <1>4, <3>2 DEF Prunes, Inserts, Leaves
    <3> DEFINE b == BoxedChildren(h)
    <3>4. Todo(w)' = b \o Tail(s)
      BY <3>3 DEF Descends, Gives
    <3>5. b \in Seq(Nodes) /\ ToSet(b) = {d \in Children(h) : boxed[d]}
      BY <3>2, BoxedChildrenSet
    <3> HIDE DEF b
    <3>6. boxed[c]
      BY <1>0, <3>1 DEF Idle
    <3>7. c \in ToSet(b)
      BY <3>1, <3>5, <3>6
    <3>8. \A x \in DOMAIN b : x \in DOMAIN (b \o Tail(s)) /\ (b \o Tail(s))[x] = b[x]
      BY <2>2, <3>5
    <3>9. c \in ToSet(Todo(w)')
      BY <3>4, <3>7, <3>8 DEF ToSet
    <3> QED
      BY <3>1, <3>9
  <2> QED
    BY <2>6, <2>7, <2>8
<1> QED
  BY <1>1, <1>2, <1>3, <1>4 DEF Deals

FoundInv == SearchInv /\ Idle /\ ApartTodos /\ ApartQueues /\ NearSoFar /\ Covered

LEMMA FoundInvariant == Spec => []FoundInv
<1>1. Init => FoundInv
  <2>1. Init => SearchInv
    BY TypeInit DEF Init, SearchInv, QueueOwned, At
  <2> QED
    BY <2>1, IdleInit, ApartInit, NearInit DEF FoundInv
<1>2. FoundInv /\ [Next]_vars => FoundInv'
  <2>1. SearchInv /\ [Next]_vars => SearchInv'
    BY ThreadsNext, CallsNext, HeapsNext, CountedNext, OwnedNext
       DEF SearchInv, TypeInv
  <2> QED
    BY <2>1, IdleNext, ApartTodosNext, ApartQueuesNext, NearSoFarNext, CoveredNext
       DEF FoundInv
<1> QED
  BY <1>1, <1>2, PTL DEF Spec

\* However the workers share the roots, no leaf is inserted twice, by one worker
\* or by two, and none whose box or one above it is too far: the candidate step
\* sees each leaf at most once.
THEOREM EachLeafOnce == Spec => []FoundOnce
<1>1. FoundInv => FoundOnce
  <2> SUFFICES ASSUME FoundInv, NEW n \in Nodes
               PROVE  Cardinality(Inserted(n)) <= 1 /\ (Inserted(n) # {} => n \in Hits)
    BY DEF FoundOnce
  <2>1. \A i \in Inserted(n) : \E q \in Queues : \E x \in DOMAIN queue[q] :
           i = <<q, x>> /\ queue[q][x] = n
    BY DEF Inserted
  <2>2. \A i \in Inserted(n) : \E q \in Queues : n \in ToSet(queue[q])
    BY <2>1 DEF ToSet
  <2>3. Inserted(n) # {} => n \in Hits
    BY <2>2 DEF FoundInv, NearSoFar
  <2>4. \A i, j \in Inserted(n) : i = j
    <3> SUFFICES ASSUME NEW q \in Queues, NEW x \in DOMAIN queue[q], queue[q][x] = n,
                        NEW p \in Queues, NEW y \in DOMAIN queue[p], queue[p][y] = n
                 PROVE  q = p /\ x = y
      BY <2>1
    <3>1. n \in ToSet(queue[q]) /\ n \in ToSet(queue[p])
      BY DEF ToSet
    <3>2. q = p
      BY <3>1 DEF FoundInv, ApartQueues
    <3> QED
      BY <3>2 DEF FoundInv, ApartQueues, IsInjective
  <2>5. CASE Inserted(n) = {}
    BY <2>3, <2>5, FS_EmptySet
  <2>6. CASE Inserted(n) # {}
    <3>1. PICK i \in Inserted(n) : TRUE
      BY <2>6
    <3>2. Inserted(n) = {i}
      BY <2>4, <3>1
    <3>3. Cardinality({i}) = 1
      BY FS_Singleton
    <3> QED
      BY <2>3, <3>2, <3>3
  <2> QED
    BY <2>5, <2>6
<1> QED
  BY <1>1, FoundInvariant, PTL

\* When range_search_lsh returns, the queues hold every leaf that is within the
\* radius with all the boxes above it, for every forest, number of workers and
\* schedule: the counter gives every root to a worker, each worker comes to the
\* end of its stack, and skipping a child without a box loses nothing.
THEOREM AllHitsFound == Spec => []NoFalseDismissal
<1>1. FoundInv => NoFalseDismissal
  <2> SUFFICES ASSUME FoundInv, main = "done", NEW n \in Hits
               PROVE  Inserted(n) # {}
    BY DEF NoFalseDismissal
  <2>1. \A w \in Workers : pc[w] = "exit"
    BY DEF FoundInv, Idle
  <2>2. \A w \in Workers : ToSet(Todo(w)) = {}
    BY <2>1 DEF FoundInv, Idle, Todo, ToSet
  <2>3. ToClaim = {}
    <3>1. 0 \in Workers /\ Len(RootList) \in Nat /\ node_counter \in Nat
      BY NumThreadAssumption, RootListAssumption
         DEF Workers, FoundInv, SearchInv, TypeInv, Counted
    <3>2. node_counter >= Len(RootList)
      BY <2>1, <3>1 DEF FoundInv, Idle
    <3> QED
      BY <3>1, <3>2 DEF ToClaim
  <2>4. PICK q \in Queues : n \in ToSet(queue[q])
    BY <2>2, <2>3 DEF FoundInv, Covered
  <2>5. PICK x \in DOMAIN queue[q] : queue[q][x] = n
    BY <2>4 DEF ToSet
  <2>6. <<q, x>> \in Inserted(n)
    BY <2>5 DEF Inserted
  <2> QED
    BY <2>6
<1> QED
  BY <1>1, FoundInvariant, PTL

=============================================================================
