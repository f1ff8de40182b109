------------------------ MODULE IndexCreationProofs ------------------------
(***************************************************************************)
(* Theorems about IndexCreation, for every number of threads, records and  *)
(* soft buffers: the locking, the slots and the root list of phase 1, what *)
(* phase 2 does with them, and that the build takes no step that IndexBuild*)
(* does not allow.                                                         *)
(***************************************************************************)
EXTENDS IndexCreation, InductionLemmas, FunctionTheorems, SequenceTheorems

-----------------------------------------------------------------------------
(* The slices.                                                             *)

\* Integer division rounds down.
LEMMA Quotient ==
    ASSUME NEW n \in Nat, NEW t \in Nat \ {0}
    PROVE  n \div t \in Nat /\ t * (n \div t) <= n
  BY SMT

LEMMA ProductMonotone ==
    ASSUME NEW a \in Nat, NEW b \in Nat, NEW q \in Nat, a <= b
    PROVE  a * q \in Nat /\ a * q <= b * q
  BY SMT

\* Every slice lies within the records and is not turned around.
LEMMA SliceBounds ==
    ASSUME NEW w \in Workers
    PROVE  /\ Start(w) \in Nat
           /\ Stop(w) \in Nat
           /\ Start(w) <= Stop(w)
           /\ Stop(w) <= NumRecords
<1> DEFINE q == NumRecords \div NumThread
<1>1. q \in Nat /\ NumThread * q <= NumRecords
  BY Quotient, NumRecordsAssumption, NumThreadAssumption
<1>2. w \in Nat /\ w + 1 \in Nat /\ w + 1 <= NumThread /\ NumThread \in Nat
  BY NumThreadAssumption DEF Workers
<1> HIDE DEF q
<1>3. w * q \in Nat /\ w * q <= NumThread * q
  BY <1>1, <1>2, ProductMonotone
<1>4. (w + 1) * q \in Nat /\ (w + 1) * q <= NumThread * q /\ w * q <= (w + 1) * q
  BY <1>1, <1>2, ProductMonotone
<1>5. NumThread * q \in Nat
  BY <1>1, <1>2
<1>6. Start(w) = w * q /\ Stop(w) = IF w = NumThread - 1 THEN NumRecords ELSE (w + 1) * q
  BY DEF Start, Stop, q
<1> QED
  BY <1>1, <1>3, <1>4, <1>5, <1>6, NumRecordsAssumption

-----------------------------------------------------------------------------
(* Type correctness. Here(w) is a buffer only while the worker is inside   *)
(* its slice, so that is part of the invariant.                            *)

InSlice ==
    \A w \in Workers :
        /\ Start(w) <= i[w]
        /\ i[w] <= Stop(w)
        /\ pc[w] \in Encoding \ {"test"} => i[w] < Stop(w)

\* Workers that pthread_create has not started yet have done nothing.
NotCreated ==
    /\ main = "create" <=> created < NumThread
    /\ \A w \in Workers : created <= w => pc[w] = "idle"

TypeInv == TypeOK /\ InSlice /\ NotCreated

LEMMA HereIsBuffer ==
    ASSUME TypeOK, InSlice, NEW w \in Workers, pc[w] \in Encoding \ {"test"}
    PROVE  i[w] \in Records /\ Here(w) \in Buffers
  BY SliceBounds, NumRecordsAssumption DEF TypeOK, InSlice, Here, Records

LEMMA TypeInit == Init => TypeInv
<1> SUFFICES ASSUME Init PROVE TypeInv
  OBVIOUS
<1>1. TypeOK
  BY SliceBounds, NumThreadAssumption, NumBuffersAssumption
     DEF Init, TypeOK, Programs, Workers, Buffers, Nobody, Null
<1>2. InSlice
  BY SliceBounds DEF Init, InSlice, Encoding
<1>3. NotCreated
  BY NumThreadAssumption DEF Init, NotCreated, Workers
<1> QED
  BY <1>1, <1>2, <1>3 DEF TypeInv

LEMMA TypeNext == TypeInv /\ [Next]_vars => TypeInv'
<1> SUFFICES ASSUME TypeInv, [Next]_vars PROVE TypeInv'
  OBVIOUS
<1> USE DEF TypeInv, InSlice, NotCreated, Goto, At, phase1, phase2, caller
<1>1. ASSUME NEW w \in Workers, Test(w) PROVE TypeInv'
  BY <1>1, SliceBounds DEF Test, TypeOK, Programs, Encoding
<1>2. ASSUME NEW w \in Workers, Lock(w) PROVE TypeInv'
  BY <1>2 DEF Lock, TypeOK, Programs, Encoding
<1>3. ASSUME NEW w \in Workers, Alloc(w) PROVE TypeInv'
  <2>1. Here(w) \in Buffers
    BY <1>3, HereIsBuffer DEF Alloc, Encoding
  <2>2. /\ records' \in [Buffers -> [Workers -> Seq(Records)]]
        /\ max_buffer_size' \in [Buffers -> [Workers -> Nat]]
        /\ \A b \in Buffers, v \in Workers :
               Len(records'[b][v]) <= max_buffer_size'[b][v]
    <3> DEFINE noRecords == [v \in Workers |-> <<>>]
               noRoom == [v \in Workers |-> 0]
    <3>1. noRecords \in [Workers -> Seq(Records)] /\ noRoom \in [Workers -> Nat]
      OBVIOUS
    <3>2. \A v \in Workers : Len(noRecords[v]) <= noRoom[v]
      OBVIOUS
    <3>3. /\ records' = [records EXCEPT ![Here(w)] = noRecords]
          /\ max_buffer_size' = [max_buffer_size EXCEPT ![Here(w)] = noRoom]
      BY <1>3 DEF Alloc
    <3> HIDE DEF noRecords, noRoom
    <3> QED
      BY <2>1, <3>1, <3>2, <3>3 DEF TypeOK
  <2>3. /\ next' \in [Buffers -> Buffers \cup {Null}]
        /\ previous' \in [Buffers -> Buffers \cup {Null}]
    BY <1>3, <2>1 DEF Alloc, TypeOK
  <2>4. pc' \in [Workers -> Programs] /\ InSlice' /\ NotCreated'
    BY <1>3 DEF Alloc, TypeOK, Programs, Encoding
  <2> QED
    BY <1>3, <2>2, <2>3, <2>4 DEF Alloc, TypeOK
<1>4. ASSUME NEW w \in Workers, Publish(w) PROVE TypeInv'
  BY <1>4, HereIsBuffer DEF Publish, TypeOK, Programs, Encoding
<1>5. ASSUME NEW w \in Workers, Link(w) PROVE TypeInv'
  <2>1. Here(w) \in Buffers
    BY <1>5, HereIsBuffer DEF Link, Encoding
  <2>2. /\ next' \in [Buffers -> Buffers \cup {Null}]
        /\ previous' \in [Buffers -> Buffers \cup {Null}]
        /\ first_node' \in Buffers
    <3>1. CASE first_node = Null
      BY <1>5, <2>1, <3>1 DEF Link, TypeOK
    <3>2. CASE first_node # Null
      <4>1. /\ next' = [next EXCEPT ![Here(w)] = first_node]
            /\ previous' = [previous EXCEPT ![first_node] = Here(w)]
            /\ first_node' = Here(w)
        BY <1>5, <3>2 DEF Link, BackLink
      <4> QED
        BY <2>1, <3>2, <4>1 DEF TypeOK
    <3> QED
      BY <3>1, <3>2
  <2>3. /\ pc' \in [Workers -> Programs]
        /\ InSlice'
        /\ NotCreated'
    BY <1>5 DEF Link, TypeOK, Programs, Encoding
  <2> QED
    BY <1>5, <2>2, <2>3 DEF Link, TypeOK
<1>6. ASSUME NEW w \in Workers, Clear(w) PROVE TypeInv'
  BY <1>6, HereIsBuffer DEF Clear, Cleared, TypeOK, Programs, Encoding
<1>7. ASSUME NEW w \in Workers, Count(w) PROVE TypeInv'
  BY <1>7 DEF Count, TypeOK, Programs, Encoding
<1>8. ASSUME NEW w \in Workers, Append_(w) PROVE TypeInv'
  <2> DEFINE b == Here(w)
             size == Len(records[b][w])
             cap == Capacity(size, max_buffer_size[b][w])
             slot == Append(records[b][w], i[w])
  <2>1. b \in Buffers /\ i[w] \in Records
    BY <1>8, HereIsBuffer DEF Append_, Encoding
  <2>2. slot \in Seq(Records) /\ Len(slot) = size + 1 /\ size \in Nat
    BY <2>1 DEF TypeOK
  <2>3. cap \in Nat /\ size + 1 <= cap
    <3> DEFINE max == max_buffer_size[b][w]
    <3>1. max \in Nat /\ size <= max
      BY <2>1 DEF TypeOK
    <3>2. cap = Capacity(size, max)
      OBVIOUS
    <3> HIDE DEF max, cap, size
    <3> QED
      BY <2>2, <3>1, <3>2, InitialBufferSizeAssumption DEF Capacity
  <2>4. /\ records' = [records EXCEPT ![b][w] = slot]
        /\ max_buffer_size' = [max_buffer_size EXCEPT ![b][w] = cap]
    BY <1>8 DEF Append_
  <2>5. InSlice' /\ NotCreated' /\ pc' \in [Workers -> Programs] /\ i' \in [Workers -> Nat]
    BY <1>8, SliceBounds DEF Append_, TypeOK, Programs, Encoding
  <2> HIDE DEF b, size, cap, slot
  <2>6. /\ records' \in [Buffers -> [Workers -> Seq(Records)]]
        /\ max_buffer_size' \in [Buffers -> [Workers -> Nat]]
    BY <2>1, <2>2, <2>3, <2>4 DEF TypeOK
  <2>7. ASSUME NEW c \in Buffers, NEW v \in Workers
        PROVE  Len(records'[c][v]) <= max_buffer_size'[c][v]
    <3>1. CASE c = b /\ v = w
      BY <2>1, <2>2, <2>3, <2>4, <3>1 DEF TypeOK
    <3>2. CASE ~(c = b /\ v = w)
      BY <2>1, <2>4, <3>2 DEF TypeOK
    <3> QED
      BY <3>1, <3>2
  <2> QED
    BY <1>8, <2>5, <2>6, <2>7 DEF Append_, TypeOK
<1>9. ASSUME NEW w \in Workers, Barrier(w) PROVE TypeInv'
  BY <1>9 DEF Barrier, TypeOK, Programs, Encoding, Draining
<1>10. ASSUME NEW w \in Workers, Claim(w) PROVE TypeInv'
  <2> DEFINE c == node_counter
  <2>0. /\ c \in Nat
        /\ pc \in [Workers -> Programs]
        /\ j \in [Workers -> Buffers]
        /\ k \in [Workers -> 0 .. NumThread]
        /\ r \in [Workers -> Nat]
    BY DEF TypeOK
  <2>1. node_counter' \in Nat /\ pc' \in [Workers -> Programs]
    BY <1>10, <2>0 DEF Claim, FetchAndAdd, Programs, Draining
  <2>2. InSlice' /\ NotCreated'
    BY <1>10 DEF Claim, TypeOK, Programs, Encoding
  <2>3. /\ j' \in [Workers -> Buffers]
        /\ k' \in [Workers -> 0 .. NumThread]
        /\ r' \in [Workers -> Nat]
    <3>1. CASE UNCHANGED <<j, k, r>>
      BY <2>0, <3>1
    <3>2. CASE /\ c < NumBuffers
               /\ j' = [j EXCEPT ![w] = c]
               /\ k' = [k EXCEPT ![w] = 0]
               /\ r' = [r EXCEPT ![w] = 0]
      <4>1. c \in Buffers /\ 0 \in 0 .. NumThread
        BY <2>0, <3>2, NumThreadAssumption, NumBuffersAssumption DEF Buffers
      <4> QED
        BY <2>0, <3>2, <4>1
    <3> QED
      BY <1>10, <3>1, <3>2 DEF Claim
  <2> QED
    BY <1>10, <2>1, <2>2, <2>3 DEF Claim, TypeOK
<1>11. ASSUME NEW w \in Workers, DrainRecord(w) PROVE TypeInv'
  <2> DEFINE slot == records[j[w]][k[w]]
             n == slot[r[w] + 1]
  <2>1. k[w] \in Workers /\ j[w] \in Buffers
    BY <1>11, NumThreadAssumption DEF DrainRecord, SlotsDone, TypeOK, Workers
  <2>2. slot \in Seq(Records) /\ r[w] \in Nat /\ r[w] < Len(slot)
    BY <1>11, <2>1 DEF DrainRecord, TypeOK
  <2>3. n \in Records
    BY <2>2
  <2>4. tree' = [tree EXCEPT ![j[w]] = Append(@, n)]
    BY <1>11 DEF DrainRecord
  <2> HIDE DEF n
  <2>5. tree' \in [Buffers -> Seq(Records)]
    BY <2>1, <2>3, <2>4 DEF TypeOK
  <2>6. r' \in [Workers -> Nat]
    <3>1. r \in [Workers -> Nat]
      BY DEF TypeOK
    <3>2. r' = [r EXCEPT ![w] = r[w] + 1]
      BY <1>11 DEF DrainRecord
    <3> QED
      BY <3>1, <3>2
  <2>7. TypeOK'
    BY <1>11, <2>5, <2>6 DEF DrainRecord, TypeOK
  <2> QED
    BY <1>11, <2>7 DEF DrainRecord
<1>12. ASSUME NEW w \in Workers, NextSlot(w) PROVE TypeInv'
  <2>1. k[w] \in 0 .. NumThread /\ k[w] < NumThread
    BY <1>12, NumThreadAssumption DEF NextSlot, SlotsDone, TypeOK
  <2>2. k' \in [Workers -> 0 .. NumThread] /\ r' \in [Workers -> Nat]
    <3>1. k \in [Workers -> 0 .. NumThread] /\ r \in [Workers -> Nat]
      BY DEF TypeOK
    <3>2. k' = [k EXCEPT ![w] = k[w] + 1] /\ r' = [r EXCEPT ![w] = 0]
      BY <1>12 DEF NextSlot
    <3>3. k[w] + 1 \in 0 .. NumThread
      BY <2>1, NumThreadAssumption
    <3> QED
      BY <3>1, <3>2, <3>3
  <2>3. TypeOK'
    BY <1>12, <2>2 DEF NextSlot, TypeOK
  <2> QED
    BY <1>12, <2>3 DEF NextSlot
<1>13. ASSUME NEW w \in Workers, Flush(w) PROVE TypeInv'
  BY <1>13 DEF Flush, SlotsDone, TypeOK, Programs, Encoding, Draining
<1>14. CASE Create
  <2>1. created \in Workers /\ created' \in 0 .. NumThread
    BY <1>14, NumThreadAssumption DEF Create, TypeOK, Workers
  <2>2. pc' \in [Workers -> Programs]
    BY <1>14 DEF Create, TypeOK, Programs, Encoding
  <2>3. InSlice'
    BY <1>14, <2>1 DEF Create, TypeOK, Encoding
  <2>4. NotCreated'
    <3>1. main' = "create" <=> created' < NumThread
      BY <1>14, <2>1, NumThreadAssumption DEF Create
    <3>2. ASSUME NEW v \in Workers, created' <= v PROVE pc'[v] = "idle"
      BY <1>14, <2>1, <3>2 DEF Create, TypeOK, Workers
    <3> QED
      BY <3>1, <3>2
  <2> QED
    BY <1>14, <2>1, <2>2, <2>3, <2>4 DEF Create, TypeOK
<1>15. CASE Join
  <2>1. total_records' \in Nat
    BY <1>15, NumRecordsAssumption DEF Join, TypeOK
  <2>2. InSlice' /\ NotCreated'
    BY <1>15 DEF Join, TypeOK
  <2> QED
    BY <1>15, <2>1, <2>2 DEF Join, TypeOK
<1>16. CASE UNCHANGED vars
  BY <1>16 DEF vars, TypeOK
<1> QED
  BY <1>1, <1>2, <1>3, <1>4, <1>5, <1>6, <1>7, <1>8, <1>9, <1>10, <1>11,
     <1>12, <1>13, <1>14, <1>15, <1>16
     DEF Next, Worker, Insert, Drain, Done

\* No schedule of the threads leaves a variable outside its type; in
\* particular no slot is written past its capacity.
THEOREM TypeCorrect == Spec => []TypeOK
<1>1. Spec => []TypeInv
  BY TypeInit, TypeNext, PTL DEF Spec
<1> QED
  BY <1>1, PTL DEF TypeInv

-----------------------------------------------------------------------------
(* Double-checked locking: who may create a soft buffer, and who may use   *)
(* one. The invariant is inductive as it stands, given the types.          *)

LEMMA UsedInit == Init => UsedAfterCreation
  BY DEF Init, UsedAfterCreation

LEMMA UsedNext ==
    TypeInv /\ UsedAfterCreation /\ [Next]_vars => UsedAfterCreation'
<1> SUFFICES ASSUME TypeInv, UsedAfterCreation, [Next]_vars
             PROVE  UsedAfterCreation'
  OBVIOUS
<1> DEFINE U(v) == /\ pc[v] \in {"link", "clear", "count", "append"} =>
                          initialized[Here(v)]
                   /\ pc[v] \in {"alloc", "publish", "link"} => lock_firstnode = v
                   /\ pc[v] \in {"alloc", "publish"} => ~initialized[Here(v)]
                   /\ pc[v] = "drain" => initialized[j[v]]
<1> SUFFICES ASSUME NEW v \in Workers PROVE U(v)'
  BY DEF UsedAfterCreation
<1>0. /\ pc \in [Workers -> Programs]
      /\ i \in [Workers -> Nat]
      /\ initialized \in [Buffers -> BOOLEAN]
      /\ j \in [Workers -> Buffers]
      /\ node_counter \in Nat
      /\ U(v)
      /\ \A u \in Workers : pc[u] \in {"alloc", "publish", "link"} => lock_firstnode = u
  BY DEF TypeInv, TypeOK, UsedAfterCreation
<1> USE DEF Goto, At, Here, phase1, phase2, caller
<1>1. ASSUME NEW w \in Workers, Test(w) PROVE U(v)'
  BY <1>0, <1>1 DEF Test
<1>2. ASSUME NEW w \in Workers, Lock(w) PROVE U(v)'
  <2>1. lock_firstnode = Nobody
    BY <1>2 DEF Lock, MutexFree
  <2>2. \A u \in Workers : pc[u] \notin {"alloc", "publish", "link"}
    BY <1>0, <2>1 DEF Workers, Nobody
  <2> QED
    BY <1>0, <1>2, <2>2 DEF Lock, Creates
<1>3. ASSUME NEW w \in Workers, Alloc(w) PROVE U(v)'
  BY <1>0, <1>3 DEF Alloc
<1>4. ASSUME NEW w \in Workers, Publish(w) PROVE U(v)'
  <2>1. Here(w) \in Buffers
    BY <1>4, HereIsBuffer DEF Publish, Encoding, TypeInv
  <2>2. v # w => pc[v] \notin {"alloc", "publish"}
    BY <1>0, <1>4 DEF Publish
  <2> QED
    BY <1>0, <1>4, <2>1, <2>2 DEF Publish
<1>5. ASSUME NEW w \in Workers, Link(w) PROVE U(v)'
  <2>1. v # w => pc[v] \notin {"alloc", "publish", "link"}
    BY <1>0, <1>5 DEF Link
  <2> QED
    BY <1>0, <1>5, <2>1 DEF Link
<1>6. ASSUME NEW w \in Workers, Clear(w) PROVE U(v)'
  BY <1>0, <1>6 DEF Clear
<1>7. ASSUME NEW w \in Workers, Count(w) PROVE U(v)'
  BY <1>0, <1>7 DEF Count
<1>8. ASSUME NEW w \in Workers, Append_(w) PROVE U(v)'
  BY <1>0, <1>8 DEF Append_
<1>9. ASSUME NEW w \in Workers, Barrier(w) PROVE U(v)'
  BY <1>0, <1>9 DEF Barrier
<1>10. ASSUME NEW w \in Workers, Claim(w) PROVE U(v)'
  BY <1>0, <1>10 DEF Claim
<1>11. ASSUME NEW w \in Workers, DrainRecord(w) PROVE U(v)'
  BY <1>0, <1>11 DEF DrainRecord
<1>12. ASSUME NEW w \in Workers, NextSlot(w) PROVE U(v)'
  BY <1>0, <1>12 DEF NextSlot
<1>13. ASSUME NEW w \in Workers, Flush(w) PROVE U(v)'
  BY <1>0, <1>13 DEF Flush
<1>14. CASE Create
  BY <1>0, <1>14 DEF Create
<1>15. CASE Join
  BY <1>0, <1>15 DEF Join
<1>16. CASE UNCHANGED vars
  BY <1>0, <1>16 DEF vars
<1> QED
  BY <1>1, <1>2, <1>3, <1>4, <1>5, <1>6, <1>7, <1>8, <1>9, <1>10, <1>11,
     <1>12, <1>13, <1>14, <1>15, <1>16
     DEF Next, Worker, Insert, Drain, Done

\* However the workers race for a new soft buffer, only the holder of the
\* mutex creates it, only once, and nobody uses it before it is published.
THEOREM CreationIsExclusive == Spec => []UsedAfterCreation
<1>1. Init => TypeInv /\ UsedAfterCreation
  BY TypeInit, UsedInit
<1>2. TypeInv /\ UsedAfterCreation /\ [Next]_vars
          => TypeInv' /\ UsedAfterCreation'
  BY TypeNext, UsedNext
<1> QED
  BY <1>1, <1>2, PTL DEF Spec

-----------------------------------------------------------------------------
(* The barrier: once a worker has left it, no worker is before it any more. *)

Passed == {"exit"} \cup Draining
Arrived == {"barrier"} \cup Passed

BarrierInv ==
    (\E w \in Workers : pc[w] \in Passed) => \A v \in Workers : pc[v] \in Arrived

LEMMA BarrierInit == Init => BarrierInv
  BY DEF Init, BarrierInv, Passed, Draining

LEMMA BarrierNext == TypeInv /\ BarrierInv /\ [Next]_vars => BarrierInv'
<1> SUFFICES ASSUME TypeInv, BarrierInv, [Next]_vars PROVE BarrierInv'
  OBVIOUS
<1>0. pc \in [Workers -> Programs]
  BY DEF TypeInv, TypeOK
<1> USE DEF Goto, At, BarrierInv, Passed, Arrived, Draining
<1>1. ASSUME NEW w \in Workers, Insert(w) PROVE BarrierInv'
  <2>1. \E l \in Encoding \cup {"barrier"} : Goto(w, l)
    BY <1>1 DEF Insert, Test, Lock, Alloc, Publish, Link, Clear, Count, Append_,
                Encoding
  <2>2. pc[w] \notin Arrived
    BY <1>1 DEF Insert, Test, Lock, Alloc, Publish, Link, Clear, Count, Append_
  <2> QED
    BY <1>0, <2>1, <2>2 DEF Encoding
<1>2. ASSUME NEW w \in Workers, Barrier(w) PROVE BarrierInv'
  BY <1>0, <1>2 DEF Barrier, AllArrived
<1>3. ASSUME NEW w \in Workers, Drain(w) PROVE BarrierInv'
  <2>1. pc[w] \in Draining
    BY <1>3 DEF Drain, Claim, DrainRecord, NextSlot, Flush
  <2>2. UNCHANGED pc \/ \E l \in Passed : Goto(w, l)
    BY <1>3 DEF Drain, Claim, DrainRecord, NextSlot, Flush
  <2> QED
    BY <1>0, <2>1, <2>2
<1>4. CASE Create
  <2>1. created \in Workers
    BY <1>4, NumThreadAssumption DEF Create, TypeInv, TypeOK, Workers
  <2>2. pc[created] = "idle" /\ Goto(created, "test")
    BY <1>4, <2>1 DEF Create, TypeInv, TypeOK, NotCreated
  <2> QED
    BY <1>0, <2>1, <2>2
<1>5. CASE Join
  BY <1>5 DEF Join
<1>6. CASE UNCHANGED vars
  BY <1>6 DEF vars
<1> QED
  BY <1>1, <1>2, <1>3, <1>4, <1>5, <1>6 DEF Next, Worker, Done

\* What phase 2 reads without a lock no worker can still be writing.
THEOREM PhasesStayApart == Spec => PhasesApart
<1>1. Init => TypeInv /\ BarrierInv
  BY TypeInit, BarrierInit
<1>2. TypeInv /\ BarrierInv /\ [Next]_vars => TypeInv' /\ BarrierInv'
  BY TypeNext, BarrierNext
<1>3. BarrierInv /\ [Next]_vars
        => [(\E w \in Workers : pc[w] \in Draining) => UNCHANGED phase1]_vars
  <2> SUFFICES ASSUME BarrierInv, [Next]_vars,
                      \E w \in Workers : pc[w] \in Draining
               PROVE  UNCHANGED phase1
    OBVIOUS
  <2>1. \A v \in Workers : pc[v] \in Arrived
    BY DEF BarrierInv, Passed
  <2>2. \A v \in Workers : ~Insert(v)
    BY <2>1 DEF Insert, Test, Lock, Alloc, Publish, Link, Clear, Count, Append_,
                At, Arrived, Passed, Draining
  <2>3. ASSUME NEW w \in Workers, Barrier(w) \/ Drain(w) PROVE UNCHANGED phase1
    BY <2>3 DEF Barrier, Drain, Claim, DrainRecord, NextSlot, Flush
  <2>4. Create \/ Join \/ UNCHANGED vars => UNCHANGED phase1
    BY DEF Create, Join, vars, phase1
  <2> QED
    BY <2>2, <2>3, <2>4 DEF Next, Worker, Done
<1> QED
  BY <1>1, <1>2, <1>3, PTL DEF Spec, PhasesApart

-----------------------------------------------------------------------------
(* The shared counter: every buffer below it has been claimed, once.       *)

ClaimInv ==
    /\ \A w \in Workers : pc[w] = "drain" => j[w] < node_counter
    /\ OneWorkerPerSubtree

LEMMA ClaimNext == TypeInv /\ ClaimInv /\ [Next]_vars => ClaimInv'
<1> SUFFICES ASSUME TypeInv, ClaimInv, [Next]_vars PROVE ClaimInv'
  OBVIOUS
<1>0. /\ pc \in [Workers -> Programs]
      /\ j \in [Workers -> Buffers]
      /\ node_counter \in Nat
      /\ Buffers \subseteq Nat
  BY DEF TypeInv, TypeOK, Buffers
<1> USE DEF Goto, At, ClaimInv, OneWorkerPerSubtree, phase2
<1>1. ASSUME NEW w \in Workers, Insert(w) \/ Barrier(w) PROVE ClaimInv'
  <2>1. \E l \in Programs \ {"drain"} : Goto(w, l)
    BY <1>1 DEF Insert, Test, Lock, Alloc, Publish, Link, Clear, Count, Append_,
                Barrier, Programs, Encoding, Draining
  <2>2. UNCHANGED <<j, node_counter>>
    BY <1>1 DEF Insert, Test, Lock, Alloc, Publish, Link, Clear, Count, Append_,
                Barrier
  <2> QED
    BY <1>0, <2>1, <2>2
<1>2. ASSUME NEW w \in Workers, Claim(w) PROVE ClaimInv'
  <2> DEFINE c == node_counter
  <2>1. node_counter' = c + 1 /\ pc[w] = "claim"
    BY <1>2 DEF Claim, FetchAndAdd
  <2>2. \A v \in Workers : pc[v] = "drain" => v # w /\ j[v] < c /\ j[v] # c /\ j[v] < c + 1
    <3> TAKE v \in Workers
    <3>1. j[v] \in Nat
      BY <1>0
    <3> QED
      BY <1>0, <2>1, <3>1
  <2>3. CASE UNCHANGED j /\ (UNCHANGED pc \/ Goto(w, "exit"))
    <3>1. \A v \in Workers : pc'[v] = "drain" => pc[v] = "drain"
      BY <1>0, <2>3
    <3> QED
      BY <2>1, <2>2, <2>3, <3>1
  <2>4. CASE j' = [j EXCEPT ![w] = c] /\ Goto(w, "drain")
    <3>1. \A v \in Workers \ {w} : pc'[v] = pc[v] /\ j'[v] = j[v]
      BY <1>0, <2>4
    <3>2. j'[w] = c /\ c < c + 1
      BY <1>0, <2>4
    <3> QED
      BY <2>1, <2>2, <3>1, <3>2
  <2> QED
    BY <1>2, <2>3, <2>4 DEF Claim
<1>3. ASSUME NEW w \in Workers, DrainRecord(w) \/ NextSlot(w) PROVE ClaimInv'
  BY <1>3 DEF DrainRecord, NextSlot
<1>4. ASSUME NEW w \in Workers, Flush(w) PROVE ClaimInv'
  BY <1>0, <1>4 DEF Flush
<1>5. CASE Create
  <2>1. \A v \in Workers : pc'[v] = "drain" => pc[v] = "drain"
    BY <1>0, <1>5 DEF Create
  <2> QED
    BY <1>5, <2>1 DEF Create
<1>6. CASE Join \/ UNCHANGED vars
  BY <1>6 DEF Join, vars
<1> QED
  BY <1>1, <1>2, <1>3, <1>4, <1>5, <1>6 DEF Next, Worker, Drain, Done

\* No two workers are ever in the same subtree, so that add_record_to_node
\* and split_node need no lock.
THEOREM SubtreesAreExclusive == Spec => []OneWorkerPerSubtree
<1>1. Init => TypeInv /\ ClaimInv
  BY TypeInit DEF Init, ClaimInv, OneWorkerPerSubtree, At
<1>2. TypeInv /\ ClaimInv /\ [Next]_vars => TypeInv' /\ ClaimInv'
  BY TypeNext, ClaimNext
<1>3. ClaimInv => OneWorkerPerSubtree
  BY DEF ClaimInv
<1> QED
  BY <1>1, <1>2, <1>3, PTL DEF Spec

-----------------------------------------------------------------------------
(* The contents of the slots.                                              *)

\* A soft buffer nobody has created yet has no record, so that creating it
\* (which empties it) loses nothing.
EmptyBefore ==
    \A b \in Buffers, w \in Workers : ~initialized[b] => records[b][w] = <<>>

SlotInv == UsedAfterCreation /\ EmptyBefore /\ StoredInOrder

\* What StoredInOrder says of one slot.
Stored(b, w, s, at) ==
    /\ {s[n] : n \in DOMAIN s} = {n \in Start(w) .. at - 1 : mask[n] = b}
    /\ \A m, n \in DOMAIN s : m < n => s[m] < s[n]

\* Appending the record the worker is at keeps its slot exact and in order.
LEMMA StoredAppend ==
    ASSUME NEW b \in Buffers, NEW w \in Workers, NEW s \in Seq(Records),
           NEW at \in Records, Start(w) <= at, mask[at] = b, Stored(b, w, s, at)
    PROVE  Stored(b, w, Append(s, at), at + 1)
<1> SUFFICES ASSUME NEW t, t = Append(s, at) PROVE Stored(b, w, t, at + 1)
  OBVIOUS
<1>1. /\ Len(s) \in Nat
      /\ DOMAIN s = 1 .. Len(s)
      /\ DOMAIN t = 1 .. Len(s) + 1
      /\ \A n \in DOMAIN s : t[n] = s[n] /\ s[n] \in Records
      /\ t[Len(s) + 1] = at
  OBVIOUS
<1>2. at \in Int /\ Start(w) \in Int /\ Records \subseteq Int
  BY SliceBounds DEF Records
<1>3. {t[n] : n \in DOMAIN t} = {s[n] : n \in DOMAIN s} \cup {at}
  BY <1>1
<1>4. {n \in Start(w) .. at : mask[n] = b} =
          {n \in Start(w) .. at - 1 : mask[n] = b} \cup {at}
  <2>1. Start(w) .. at = (Start(w) .. at - 1) \cup {at}
    BY <1>2
  <2> QED
    BY <2>1
<1>5. at + 1 - 1 = at
  BY <1>2
<1>6. \A n \in DOMAIN s : s[n] < at
  <2> TAKE n \in DOMAIN s
  <2>1. s[n] \in Start(w) .. at - 1
    BY DEF Stored
  <2> QED
    BY <1>2, <2>1
<1>7. ASSUME NEW m \in DOMAIN t, NEW n \in DOMAIN t, m < n PROVE t[m] < t[n]
  <2>1. CASE n \in DOMAIN s
    <3>1. m \in DOMAIN s
      BY <1>1, <1>7, <2>1
    <3> QED
      BY <1>1, <1>7, <2>1, <3>1 DEF Stored
  <2>2. CASE n = Len(s) + 1
    <3>1. m \in DOMAIN s
      BY <1>1, <1>7, <2>2
    <3> QED
      BY <1>1, <1>6, <2>2, <3>1
  <2> QED
    BY <1>1, <2>1, <2>2
<1>8. {t[n] : n \in DOMAIN t} = {n \in Start(w) .. at + 1 - 1 : mask[n] = b}
  BY <1>3, <1>4, <1>5 DEF Stored
<1> QED
  BY <1>7, <1>8 DEF Stored

LEMMA SlotInit == Init => SlotInv
<1> SUFFICES ASSUME Init PROVE SlotInv
  OBVIOUS
<1>1. \A b \in Buffers, w \in Workers : records[b][w] = <<>> /\ i[w] = Start(w)
  BY DEF Init
<1>2. \A w \in Workers : Start(w) .. Start(w) - 1 = {}
  BY SliceBounds
<1>3. StoredInOrder
  BY <1>1, <1>2 DEF StoredInOrder
<1> QED
  BY <1>1, <1>3, UsedInit DEF SlotInv, EmptyBefore

\* Steps that leave the slots, the cursors and initialized alone.
LEMMA SlotFrame ==
    ASSUME SlotInv, UNCHANGED <<mask, i, records>>,
           \A b \in Buffers : initialized[b] => initialized'[b]
    PROVE  EmptyBefore' /\ StoredInOrder'
  BY DEF SlotInv, EmptyBefore, StoredInOrder, Start

LEMMA SlotNext == TypeInv /\ SlotInv /\ [Next]_vars => SlotInv'
<1> SUFFICES ASSUME TypeInv, SlotInv, [Next]_vars PROVE SlotInv'
  OBVIOUS
<1>0. UsedAfterCreation'
  BY UsedNext DEF SlotInv
<1> SUFFICES EmptyBefore' /\ StoredInOrder'
  BY <1>0 DEF SlotInv
<1>1. ASSUME NEW w \in Workers, Test(w) \/ Lock(w) \/ Link(w) \/ Clear(w) \/ Count(w)
      PROVE  EmptyBefore' /\ StoredInOrder'
  BY <1>1, SlotFrame DEF Test, Lock, Link, Clear, Count, phase1
<1>2. ASSUME NEW w \in Workers, Publish(w)
      PROVE  EmptyBefore' /\ StoredInOrder'
  <2>1. initialized \in [Buffers -> BOOLEAN]
    BY DEF TypeInv, TypeOK
  <2> QED
    BY <1>2, <2>1, SlotFrame DEF Publish
<1>3. ASSUME NEW w \in Workers, Alloc(w)
      PROVE  EmptyBefore' /\ StoredInOrder'
  <2>1. Here(w) \in Buffers
    BY <1>3, HereIsBuffer DEF Alloc, At, Encoding, TypeInv
  <2>2. \A v \in Workers : records[Here(w)][v] = <<>>
    BY <1>3, <2>1 DEF Alloc, At, SlotInv, UsedAfterCreation, EmptyBefore
  <2>3. \A b \in Buffers, v \in Workers : records'[b][v] = records[b][v]
    BY <1>3, <2>1, <2>2 DEF Alloc, TypeInv, TypeOK
  <2> QED
    BY <1>3, <2>3 DEF Alloc, SlotInv, EmptyBefore, StoredInOrder, Start
<1>4. ASSUME NEW w \in Workers, Append_(w)
      PROVE  EmptyBefore' /\ StoredInOrder'
  <2> DEFINE slot == Append(records[Here(w)][w], i[w])
  <2>1. Here(w) \in Buffers /\ i[w] \in Records /\ initialized[Here(w)]
    BY <1>4, HereIsBuffer DEF Append_, At, Encoding, TypeInv, SlotInv,
                              UsedAfterCreation
  <2>2. /\ records[Here(w)][w] \in Seq(Records)
        /\ i \in [Workers -> Nat]
        /\ Start(w) <= i[w]
    BY <2>1 DEF TypeInv, TypeOK, InSlice
  <2>3. /\ records'[Here(w)][w] = slot
        /\ i'[w] = i[w] + 1
    BY <1>4, <2>1 DEF Append_, TypeInv, TypeOK
  <2>4. ASSUME NEW b \in Buffers, NEW v \in Workers, b # Here(w) \/ v # w
        PROVE  records'[b][v] = records[b][v]
    BY <1>4, <2>1, <2>4 DEF Append_, TypeInv, TypeOK
  <2>5. \A v \in Workers : v # w => i'[v] = i[v]
    BY <1>4, <2>2 DEF Append_
  <2>6. UNCHANGED <<mask, initialized>>
    BY <1>4 DEF Append_
  <2>7. EmptyBefore'
    <3> SUFFICES ASSUME NEW b \in Buffers, NEW v \in Workers, ~initialized[b]
                 PROVE  records'[b][v] = <<>>
      BY <2>6 DEF EmptyBefore
    <3>1. b # Here(w)
      BY <2>1
    <3> QED
      BY <2>4, <3>1 DEF SlotInv, EmptyBefore
  <2>8. ASSUME NEW b \in Buffers, NEW v \in Workers
        PROVE  Stored(b, v, records'[b][v], i'[v])
    <3>0. Stored(b, v, records[b][v], i[v])
      BY DEF Stored, SlotInv, StoredInOrder
    <3>1. CASE v # w
      BY <2>4, <2>5, <3>0, <3>1
    <3>2. CASE v = w /\ b = Here(w)
      BY <2>1, <2>2, <2>3, <3>0, <3>2, StoredAppend DEF Here
    <3>3. CASE v = w /\ b # Here(w)
      <4>1. records'[b][w] = records[b][w]
        BY <2>4, <3>3
      <4>2. Start(w) .. i[w] = (Start(w) .. i[w] - 1) \cup {i[w]}
        BY <2>1, <2>2, SliceBounds DEF Records
      <4>3. {n \in Start(w) .. i[w] : mask[n] = b} =
                {n \in Start(w) .. i[w] - 1 : mask[n] = b}
        BY <3>3, <4>2 DEF Here
      <4>4. i'[w] - 1 = i[w]
        BY <2>2, <2>3
      <4> QED
        BY <3>0, <3>3, <4>1, <4>3, <4>4 DEF Stored
    <3> QED
      BY <3>1, <3>2, <3>3
  <2> QED
    BY <2>6, <2>7, <2>8 DEF StoredInOrder, Stored, Start
<1>5. ASSUME NEW w \in Workers, Barrier(w) \/ Drain(w)
      PROVE  EmptyBefore' /\ StoredInOrder'
  BY <1>5, SlotFrame
     DEF Barrier, Drain, Claim, DrainRecord, NextSlot, Flush, phase1
<1>6. CASE Create \/ Join \/ UNCHANGED vars
  BY <1>6, SlotFrame DEF Create, Join, vars, phase1
<1> QED
  BY <1>1, <1>2, <1>3, <1>4, <1>5, <1>6 DEF Next, Worker, Insert, Done

\* No interleaving of workers that create and fill soft buffers loses,
\* duplicates or misplaces a record.
THEOREM NothingLostInPhase1 == Spec => []StoredInOrder
<1>1. Init => TypeInv /\ SlotInv
  BY TypeInit, SlotInit
<1>2. TypeInv /\ SlotInv /\ [Next]_vars => TypeInv' /\ SlotInv'
  BY TypeNext, SlotNext
<1>3. SlotInv => StoredInOrder
  BY DEF SlotInv
<1> QED
  BY <1>1, <1>2, <1>3, PTL DEF Spec

-----------------------------------------------------------------------------
(* The root list, as the sequence of its nodes.                            *)

Pushing == {"publish", "link", "clear", "count"}
Uncounted == {w \in Workers : pc[w] \in {"clear", "count"}}

\* s is the list that first_node heads: the links lead along s to its end, the
\* back links the other way, but for the one to the first root, which may be lost.
\* A root that is yet to be cleared is the first root.
IsList(s) ==
    /\ Distinct(s) /\ Entries(s) = Linked
    /\ first_node = IF s = <<>> THEN Null ELSE s[1]
    /\ \A x \in 1 .. Len(s) : next[s[x]] = IF x = Len(s) THEN Null ELSE s[x + 1]
    /\ \A x \in 2 .. Len(s) : previous[s[x]] = s[x - 1] \/ (x = Len(s) /\ previous[s[x]] = Null)
    /\ \A w \in Workers : pc[w] = "clear" => s # <<>> /\ Here(w) = s[Len(s)]
    /\ Len(s) = root_nodes + Cardinality(Uncounted)

\* A root on its way to the list has no link yet.
FreshRoots == \A w \in Workers : pc[w] \in {"publish", "link"} => next[Here(w)] = Null

ListInv == FreshRoots /\ \E s \in Seq(Buffers) : IsList(s)

LEMMA ListInit == Init => ListInv
<1> SUFFICES ASSUME Init PROVE ListInv
  OBVIOUS
<1>1. Linked = {} /\ Uncounted = {}
  BY DEF Init, Linked, Uncounted
<1>2. Cardinality(Uncounted) = 0
  BY <1>1, FS_EmptySet
<1>3. <<>> \in Seq(Buffers) /\ Distinct(<<>>) /\ Entries(<<>>) = {} /\ Len(<<>>) = 0
  BY DEF Distinct, Entries
<1>4. IsList(<<>>)
  BY <1>1, <1>2, <1>3 DEF IsList, Init
<1> QED
  BY <1>3, <1>4 DEF ListInv, FreshRoots, Init

LEMMA WorkersFinite == IsFiniteSet(Workers) /\ IsFiniteSet(Uncounted) /\ Cardinality(Uncounted) \in Nat
<1>1. IsFiniteSet(Workers)
  BY NumThreadAssumption, FS_Interval DEF Workers
<1>2. Uncounted \in SUBSET Workers
  BY DEF Uncounted
<1> QED
  BY <1>1, <1>2, FS_Subset, FS_CardinalityType

\* What keeps the set of linked roots, and what keeps the list.
LEMMA LinkedKept ==
    ASSUME UNCHANGED <<mask, initialized>>,
           \A v \in Workers : /\ pc'[v] = "link" <=> pc[v] = "link"
                              /\ pc[v] = "link" => i'[v] = i[v]
    PROVE  Linked' = Linked
<1>1. \A v \in Workers : At(v, "link")' <=> At(v, "link")
  BY DEF At
<1>2. \A v \in Workers : At(v, "link") => Here(v)' = Here(v)
  BY DEF At, Here
<1> QED
  BY <1>1, <1>2 DEF Linked

LEMMA ListKept ==
    ASSUME NEW s \in Seq(Buffers), IsList(s), Linked' = Linked, first_node' = first_node,
           \A b \in Linked : next'[b] = next[b] /\ previous'[b] = previous[b],
           \A v \in Workers : pc'[v] = "clear" => pc[v] = "clear" /\ Here(v)' = Here(v),
           root_nodes' + Cardinality(Uncounted') = root_nodes + Cardinality(Uncounted)
    PROVE  IsList(s)'
<1>1. \A x \in 1 .. Len(s) : s[x] \in Linked
  BY DEF IsList, Entries
<1>2. Cardinality(Uncounted)' = Cardinality(Uncounted')
  OBVIOUS
<1>3. \A x \in 1 .. Len(s) : next'[s[x]] = next[s[x]] /\ previous'[s[x]] = previous[s[x]]
  BY <1>1
<1>4. \A x \in 1 .. Len(s) : next'[s[x]] = IF x = Len(s) THEN Null ELSE s[x + 1]
  BY <1>3 DEF IsList
<1>5. \A x \in 2 .. Len(s) : previous'[s[x]] = s[x - 1] \/ (x = Len(s) /\ previous'[s[x]] = Null)
  BY <1>3 DEF IsList
<1> QED
  BY <1>2, <1>4, <1>5 DEF IsList

\* A step outside the creation of a root.
LEMMA ListPlain ==
    ASSUME ListInv, UNCHANGED <<mask, initialized, first_node, next, previous, root_nodes>>,
           \A v \in Workers : pc'[v] \in Pushing \/ pc[v] \in Pushing => pc'[v] = pc[v] /\ i'[v] = i[v]
    PROVE  ListInv'
<1> PICK s \in Seq(Buffers) : IsList(s)
  BY DEF ListInv
<1>1. Linked' = Linked
  BY LinkedKept DEF Pushing
<1>2. Uncounted' = Uncounted
  BY DEF Uncounted, Pushing
<1>3. \A v \in Workers : pc'[v] = "clear" => pc[v] = "clear" /\ Here(v)' = Here(v)
  BY DEF Here, Pushing
<1>4. IsList(s)'
  BY <1>1, <1>2, <1>3, ListKept
<1>5. FreshRoots'
  <2>1. \A v \in Workers : pc'[v] \in {"publish", "link"} =>
            pc[v] \in {"publish", "link"} /\ Here(v)' = Here(v)
    BY DEF Here, Pushing
  <2> QED
    BY <2>1 DEF ListInv, FreshRoots
<1> QED
  BY <1>4, <1>5 DEF ListInv

IsPrepended(t, b, s) ==
    /\ Len(t) = Len(s) + 1 /\ t # <<>>
    /\ t[1] = b
    /\ \A x \in 2 .. Len(t) : t[x] = s[x - 1]
    /\ Entries(t) = Entries(s) \cup {b}
    /\ (b \notin Entries(s) /\ Distinct(s)) => Distinct(t)

LEMMA Prepended ==
    ASSUME NEW S, NEW s \in Seq(S), NEW b \in S
    PROVE  \E t \in Seq(S) : IsPrepended(t, b, s)
<1> DEFINE t == [x \in 1 .. Len(s) + 1 |-> IF x = 1 THEN b ELSE s[x - 1]]
<1>1. Len(s) \in Nat /\ DOMAIN s = 1 .. Len(s) /\ \A x \in 1 .. Len(s) : s[x] \in S
  OBVIOUS
<1>2. t \in Seq(S) /\ Len(t) = Len(s) + 1 /\ DOMAIN t = 1 .. Len(s) + 1
  <2>1. \A x \in 1 .. Len(s) + 1 : x # 1 => x - 1 \in 1 .. Len(s)
    BY <1>1
  <2> QED
    BY <1>1, <2>1
<1>3. t[1] = b /\ \A x \in 2 .. Len(s) + 1 : t[x] = s[x - 1]
  BY <1>1
<1> HIDE DEF t
<1>4. \A x \in DOMAIN t : x = 1 \/ (x \in 2 .. Len(s) + 1 /\ x - 1 \in DOMAIN s)
  BY <1>1, <1>2
<1>5. \A x \in DOMAIN s : x + 1 \in DOMAIN t /\ x + 1 \in 2 .. Len(s) + 1 /\ t[x + 1] = s[x]
  BY <1>1, <1>2, <1>3
<1>6. Entries(t) = Entries(s) \cup {b}
  <2>1. 1 \in DOMAIN t
    BY <1>1, <1>2
  <2>2. \A x \in DOMAIN t : t[x] \in Entries(s) \cup {b}
    BY <1>3, <1>4 DEF Entries
  <2>3. \A x \in DOMAIN s : s[x] \in Entries(t)
    BY <1>5 DEF Entries
  <2>4. b \in Entries(t)
    BY <1>3, <2>1 DEF Entries
  <2> QED
    BY <2>2, <2>3, <2>4 DEF Entries
<1>7. ASSUME b \notin Entries(s), Distinct(s) PROVE Distinct(t)
  <2> SUFFICES ASSUME NEW x \in DOMAIN t, NEW y \in DOMAIN t, t[x] = t[y] PROVE x = y
    BY DEF Distinct
  <2>1. CASE x = 1 /\ y = 1
    BY <2>1
  <2>2. CASE x # 1 /\ y # 1
    <3>1. s[x - 1] = s[y - 1] /\ x - 1 \in DOMAIN s /\ y - 1 \in DOMAIN s
      BY <1>3, <1>4, <2>2
    <3>2. x - 1 = y - 1
      BY <1>7, <3>1 DEF Distinct
    <3> QED
      BY <1>1, <1>2, <3>2
  <2>3. CASE (x = 1 /\ y # 1) \/ (x # 1 /\ y = 1)
    <3>1. \A z \in DOMAIN t : z # 1 => t[z] \in Entries(s)
      BY <1>3, <1>4 DEF Entries
    <3> QED
      BY <1>3, <1>7, <2>3, <3>1
  <2> QED
    BY <2>1, <2>2, <2>3
<1>8. t # <<>>
  BY <1>1, <1>2
<1> QED
  BY <1>2, <1>3, <1>6, <1>7, <1>8 DEF IsPrepended

\* The root is made before it is published, in links that no list reaches.
LEMMA ListAlloc ==
    ASSUME TypeInv, UsedAfterCreation, ListInv, NEW w \in Workers, Alloc(w) PROVE ListInv'
<1> PICK s \in Seq(Buffers) : IsList(s)
  BY DEF ListInv
<1> PICK b : b = Here(w)
  OBVIOUS
<1>0. /\ pc[w] = "alloc" /\ pc' = [pc EXCEPT ![w] = "publish"] /\ pc \in [Workers -> Programs]
      /\ next' = [next EXCEPT ![b] = Null] /\ previous' = [previous EXCEPT ![b] = Null]
      /\ next \in [Buffers -> Buffers \cup {Null}] /\ previous \in [Buffers -> Buffers \cup {Null}]
      /\ mask' = mask /\ i' = i /\ initialized' = initialized
      /\ first_node' = first_node /\ root_nodes' = root_nodes
      /\ b \in Buffers /\ b \notin Linked
  <2>1. b \in Buffers
    BY HereIsBuffer DEF Alloc, At, Encoding, TypeInv
  <2>2. b \notin Linked
    BY DEF Alloc, At, UsedAfterCreation, Linked
  <2> QED
    BY <2>1, <2>2 DEF Alloc, At, Goto, TypeInv, TypeOK
<1>1. Linked' = Linked
  BY <1>0, LinkedKept
<1>2. Uncounted' = Uncounted
  BY <1>0 DEF Uncounted
<1>3. \A v \in Workers : pc'[v] = "clear" => pc[v] = "clear" /\ Here(v)' = Here(v)
  BY <1>0 DEF Here
<1>4. \A c \in Linked : next'[c] = next[c] /\ previous'[c] = previous[c]
  BY <1>0 DEF Linked
<1>5. IsList(s)'
  BY <1>0, <1>1, <1>2, <1>3, <1>4, ListKept
<1>6. FreshRoots'
  <2> SUFFICES ASSUME NEW v \in Workers, pc'[v] \in {"publish", "link"} PROVE next'[Here(v)'] = Null
    BY DEF FreshRoots
  <2>1. CASE v = w
    BY <1>0, <2>1 DEF Here
  <2>2. CASE v # w
    <3>1. pc[v] \in {"publish", "link"} /\ Here(v)' = Here(v) /\ next[Here(v)] = Null
      BY <1>0, <2>2 DEF Here, ListInv, FreshRoots
    <3> QED
      BY <1>0, <3>1
  <2> QED
    BY <2>1, <2>2
<1> QED
  BY <1>5, <1>6 DEF ListInv

\* Published, but not linked yet.
LEMMA ListPublish ==
    ASSUME TypeInv, UsedAfterCreation, ListInv, NEW w \in Workers, Publish(w) PROVE ListInv'
<1> PICK s \in Seq(Buffers) : IsList(s)
  BY DEF ListInv
<1> PICK b : b = Here(w)
  OBVIOUS
<1>0. /\ pc[w] = "publish" /\ pc' = [pc EXCEPT ![w] = "link"] /\ pc \in [Workers -> Programs]
      /\ initialized' = [initialized EXCEPT ![b] = TRUE]
      /\ initialized \in [Buffers -> BOOLEAN]
      /\ mask' = mask /\ i' = i /\ next' = next /\ previous' = previous
      /\ first_node' = first_node /\ root_nodes' = root_nodes
      /\ b \in Buffers /\ ~initialized[b]
  <2>1. b \in Buffers
    BY HereIsBuffer DEF Publish, At, Encoding, TypeInv
  <2>2. ~initialized[b]
    BY DEF Publish, At, UsedAfterCreation
  <2> QED
    BY <2>1, <2>2 DEF Publish, At, Goto, TypeInv, TypeOK
<1>1. Linked' = Linked
  <2>1. Here(w)' = b /\ \A v \in Workers : Here(v)' = Here(v)
    BY <1>0 DEF Here
  <2>2. \A v \in Workers : (pc'[v] = "link") = (pc[v] = "link" \/ v = w)
    BY <1>0
  <2>3. ASSUME NEW c \in Buffers PROVE c \in Linked' <=> c \in Linked
    <3>1. CASE c = b
      BY <1>0, <2>1, <2>2, <3>1 DEF Linked, At
    <3>2. CASE c # b
      BY <1>0, <2>1, <2>2, <3>2 DEF Linked, At
    <3> QED
      BY <3>1, <3>2
  <2> QED
    BY <2>3 DEF Linked
<1>2. Uncounted' = Uncounted
  BY <1>0 DEF Uncounted
<1>3. \A v \in Workers : pc'[v] = "clear" => pc[v] = "clear" /\ Here(v)' = Here(v)
  BY <1>0 DEF Here
<1>4. IsList(s)'
  BY <1>0, <1>1, <1>2, <1>3, ListKept
<1>5. FreshRoots'
  <2>1. \A v \in Workers : pc'[v] \in {"publish", "link"} =>
            pc[v] \in {"publish", "link"} /\ Here(v)' = Here(v)
    BY <1>0 DEF Here
  <2> QED
    BY <1>0, <2>1 DEF ListInv, FreshRoots
<1> QED
  BY <1>4, <1>5 DEF ListInv

\* The push.
LEMMA ListLink ==
    ASSUME TypeInv, UsedAfterCreation, ListInv, NEW w \in Workers, Link(w) PROVE ListInv'
<1> PICK s \in Seq(Buffers) : IsList(s)
  BY DEF ListInv
<1> PICK b : b = Here(w)
  OBVIOUS
<1>0. /\ pc[w] = "link" /\ pc \in [Workers -> Programs]
      /\ \/ /\ first_node = Null /\ pc' = [pc EXCEPT ![w] = "clear"]
            /\ next' = next /\ previous' = previous
         \/ /\ first_node # Null /\ pc' = [pc EXCEPT ![w] = "count"]
            /\ next' = [next EXCEPT ![b] = first_node]
            /\ previous' = [previous EXCEPT ![first_node] = b]
      /\ next \in [Buffers -> Buffers \cup {Null}] /\ previous \in [Buffers -> Buffers \cup {Null}]
      /\ initialized' = initialized /\ mask' = mask /\ i' = i
      /\ first_node' = b /\ root_nodes' = root_nodes
      /\ b \in Buffers /\ initialized[b] /\ b \notin Linked
      /\ \A v \in Workers : pc[v] \in {"alloc", "publish", "link"} => v = w
  <2>1. b \in Buffers
    BY HereIsBuffer DEF Link, At, Encoding, TypeInv
  <2>2. initialized[b] /\ lock_firstnode = w
    BY DEF Link, At, UsedAfterCreation
  <2>3. b \notin Linked
    BY DEF Link, At, Linked
  <2>4. \A v \in Workers : pc[v] \in {"alloc", "publish", "link"} => v = w
    BY <2>2 DEF UsedAfterCreation
  <2> QED
    BY <2>1, <2>2, <2>3, <2>4 DEF Link, BackLink, At, Goto, TypeInv, TypeOK
<1>1. /\ \A v \in Workers : Here(v)' = Here(v)
      /\ \A v \in Workers : pc'[v] # "link"
      /\ \A v \in Workers : v # w => pc'[v] = pc[v]
      /\ pc'[w] \in {"clear", "count"}
      /\ pc'[w] = "clear" <=> first_node = Null
  BY <1>0 DEF Here
<1>2. Linked' = Linked \cup {b}
  <2>1. ASSUME NEW c \in Buffers PROVE c \in Linked' <=> c \in Linked \/ c = b
    <3>1. \A v \in Workers : At(v, "link") => Here(v) = b
      BY <1>0 DEF At
    <3> QED
      BY <1>0, <1>1, <3>1 DEF Linked, At
  <2> QED
    BY <1>0, <2>1 DEF Linked
<1>3. Uncounted' = Uncounted \cup {w} /\ w \notin Uncounted
  BY <1>0, <1>1 DEF Uncounted
<1>4. Cardinality(Uncounted') = Cardinality(Uncounted) + 1 /\ Cardinality(Uncounted) \in Nat
  BY <1>3, WorkersFinite, FS_AddElement
<1> PICK t \in Seq(Buffers) : IsPrepended(t, b, s)
  BY <1>0, Prepended
<1>5. /\ Len(t) = Len(s) + 1 /\ t # <<>>
      /\ t[1] = b
      /\ \A x \in 2 .. Len(t) : t[x] = s[x - 1]
      /\ Entries(t) = Entries(s) \cup {b}
      /\ (b \notin Entries(s) /\ Distinct(s)) => Distinct(t)
  BY DEF IsPrepended
<1>6. /\ Distinct(s) /\ Entries(s) = Linked
      /\ first_node = IF s = <<>> THEN Null ELSE s[1]
      /\ \A x \in 1 .. Len(s) : next[s[x]] = IF x = Len(s) THEN Null ELSE s[x + 1]
      /\ \A x \in 2 .. Len(s) : previous[s[x]] = s[x - 1] \/ (x = Len(s) /\ previous[s[x]] = Null)
      /\ \A v \in Workers : pc[v] = "clear" => s # <<>> /\ Here(v) = s[Len(s)]
      /\ Len(s) = root_nodes + Cardinality(Uncounted)
  BY DEF IsList
<1>7. /\ Len(s) \in Nat /\ root_nodes \in Nat /\ Null \notin Buffers
      /\ s = <<>> <=> Len(s) = 0
      /\ \A x \in 1 .. Len(s) : s[x] \in Buffers /\ s[x] # b
      /\ \A x, y \in 1 .. Len(s) : s[x] = s[y] => x = y
      /\ first_node = Null <=> Len(s) = 0
  <2>1. \A x \in 1 .. Len(s) : s[x] \in Linked /\ s[x] \in Buffers
    BY <1>6 DEF Entries
  <2>2. Null \notin Buffers
    BY DEF Null, Buffers
  <2>3. Len(s) \in Nat /\ (s = <<>> <=> Len(s) = 0)
    OBVIOUS
  <2>4. first_node = Null <=> Len(s) = 0
    BY <1>6, <2>1, <2>2, <2>3
  <2>5. \A x, y \in 1 .. Len(s) : s[x] = s[y] => x = y
    BY <1>6 DEF Distinct
  <2>6. root_nodes \in Nat
    BY DEF TypeInv, TypeOK
  <2>7. \A x \in 1 .. Len(s) : s[x] # b
    BY <1>0, <2>1
  <2> QED
    BY ONLY <2>1, <2>2, <2>3, <2>4, <2>5, <2>6, <2>7
<1>8. ASSUME NEW x \in 1 .. Len(t) PROVE next'[t[x]] = IF x = Len(t) THEN Null ELSE t[x + 1]
  <2>1. CASE x = 1
    <3>1. CASE Len(s) = 0
      <4>1. next[b] = Null
        BY <1>0 DEF ListInv, FreshRoots
      <4> QED
        BY <1>0, <1>5, <1>7, <2>1, <3>1, <4>1
    <3>2. CASE Len(s) # 0
      <4>1. t[2] = s[1] /\ first_node = s[1] /\ Len(t) # 1
        BY <1>5, <1>6, <1>7, <3>2
      <4> QED
        BY <1>0, <1>5, <1>7, <2>1, <3>2, <4>1
    <3> QED
      BY <3>1, <3>2
  <2>2. CASE x # 1
    <3> PICK y : y = x - 1
      OBVIOUS
    <3>1. y \in 1 .. Len(s) /\ t[x] = s[y] /\ (x = Len(t) <=> y = Len(s)) /\ y + 1 = x
      BY <1>5, <1>7, <2>2
    <3>2. next'[s[y]] = next[s[y]]
      BY <1>0, <1>7, <3>1
    <3>3. x # Len(t) => t[x + 1] = s[y + 1]
      <4>1. x # Len(t) => x + 1 \in 2 .. Len(t) /\ (x + 1) - 1 = y + 1
        BY <1>7, <1>5, <3>1
      <4> QED
        BY <1>5, <4>1
    <3> QED
      BY <1>6, <3>1, <3>2, <3>3
  <2> QED
    BY <2>1, <2>2
<1>9. ASSUME NEW x \in 2 .. Len(t)
      PROVE  previous'[t[x]] = t[x - 1] \/ (x = Len(t) /\ previous'[t[x]] = Null)
  <2> PICK y : y = x - 1
    OBVIOUS
  <2>1. y \in 1 .. Len(s) /\ t[x] = s[y] /\ (x = Len(t) <=> y = Len(s)) /\ first_node # Null
    BY <1>5, <1>7
  <2>2. CASE y = 1
    <3>1. first_node = s[y] /\ t[x - 1] = b
      BY <1>5, <1>6, <1>7, <2>1, <2>2
    <3>2. previous'[s[y]] = b
      BY <1>0, <1>7, <2>1, <3>1
    <3> QED
      BY <2>1, <3>1, <3>2
  <2>3. CASE y # 1
    <3>1. first_node = s[1] /\ s[1] # s[y] /\ y \in 2 .. Len(s) /\ 1 \in 1 .. Len(s)
      BY <1>6, <1>7, <2>1, <2>3
    <3>2. previous'[s[y]] = previous[s[y]]
      BY <1>0, <1>7, <2>1, <3>1
    <3>3. t[x - 1] = s[y - 1]
      <4>1. y \in 2 .. Len(t)
        BY <1>5, <1>7, <3>1
      <4> QED
        BY <1>5, <4>1
    <3> QED
      BY <1>6, <2>1, <3>1, <3>2, <3>3
  <2> QED
    BY <2>2, <2>3
<1>10. ASSUME NEW v \in Workers, pc'[v] = "clear" PROVE t # <<>> /\ Here(v)' = t[Len(t)]
  <2>1. CASE v = w
    <3>1. Len(t) = 1
      BY <1>1, <1>5, <1>7, <1>10, <2>1
    <3> QED
      BY <1>1, <1>5, <2>1, <3>1
  <2>2. CASE v # w
    <3>1. s # <<>> /\ Here(v) = s[Len(s)]
      BY <1>1, <1>6, <1>10, <2>2
    <3>2. t[Len(t)] = s[Len(s)]
      <4>1. Len(t) \in 2 .. Len(t) /\ Len(t) - 1 = Len(s)
        BY <1>5, <1>7, <3>1
      <4> QED
        BY <1>5, <4>1
    <3> QED
      BY <1>1, <1>5, <3>1, <3>2
  <2> QED
    BY <2>1, <2>2
<1>11. IsList(t)'
  <2>1. Cardinality(Uncounted)' = Cardinality(Uncounted')
    OBVIOUS
  <2>2. Len(t) = root_nodes' + Cardinality(Uncounted)'
    BY <1>0, <1>4, <1>5, <1>6, <1>7, <2>1
  <2>3. Distinct(t) /\ Entries(t) = Linked' /\ first_node' = t[1] /\ t # <<>>
    BY <1>0, <1>2, <1>5, <1>6
  <2> QED
    BY <1>8, <1>9, <1>10, <2>2, <2>3 DEF IsList
<1>12. FreshRoots'
  BY <1>0, <1>1 DEF FreshRoots
<1> QED
  BY <1>11, <1>12 DEF ListInv

\* The first root clears its own links without the lock. That does not break the
\* list, whose end it is, but may take away the back link another worker has set.
LEMMA ListClear ==
    ASSUME TypeInv, ListInv, NEW w \in Workers, Clear(w) PROVE ListInv'
<1> PICK s \in Seq(Buffers) : IsList(s)
  BY DEF ListInv
<1> PICK b : b = Here(w)
  OBVIOUS
<1>0. /\ pc[w] = "clear" /\ pc' = [pc EXCEPT ![w] = "count"] /\ pc \in [Workers -> Programs]
      /\ next' = [next EXCEPT ![b] = Null] /\ previous' = [previous EXCEPT ![b] = Null]
      /\ next \in [Buffers -> Buffers \cup {Null}] /\ previous \in [Buffers -> Buffers \cup {Null}]
      /\ mask' = mask /\ i' = i /\ initialized' = initialized
      /\ first_node' = first_node /\ root_nodes' = root_nodes
  BY DEF Clear, Cleared, At, Goto, TypeInv, TypeOK
<1>1. Linked' = Linked
  BY <1>0, LinkedKept
<1>2. Uncounted' = Uncounted
  BY <1>0 DEF Uncounted
<1>3. \A v \in Workers : pc'[v] = "clear" => pc[v] = "clear" /\ Here(v)' = Here(v)
  BY <1>0 DEF Here
<1>4. /\ Distinct(s) /\ Entries(s) = Linked
      /\ first_node = IF s = <<>> THEN Null ELSE s[1]
      /\ \A x \in 1 .. Len(s) : next[s[x]] = IF x = Len(s) THEN Null ELSE s[x + 1]
      /\ \A x \in 2 .. Len(s) : previous[s[x]] = s[x - 1] \/ (x = Len(s) /\ previous[s[x]] = Null)
      /\ \A v \in Workers : pc[v] = "clear" => s # <<>> /\ Here(v) = s[Len(s)]
      /\ Len(s) = root_nodes + Cardinality(Uncounted)
  BY DEF IsList
<1>5. /\ s # <<>> /\ b = s[Len(s)] /\ Len(s) \in 1 .. Len(s) /\ next[b] = Null /\ b \in Buffers
      /\ \A x \in 1 .. Len(s) : s[x] \in Buffers /\ (s[x] = b => x = Len(s))
  <2>1. s # <<>> /\ b = s[Len(s)]
    BY <1>0, <1>4
  <2>2. Len(s) \in 1 .. Len(s) /\ \A x \in 1 .. Len(s) : s[x] \in Buffers
    BY <2>1
  <2>3. \A x \in 1 .. Len(s) : s[x] = b => x = Len(s)
    BY <1>4, <2>1, <2>2 DEF Distinct
  <2> QED
    BY <1>4, <2>1, <2>2, <2>3
<1>6. next' = next
  BY <1>0, <1>5
<1>7. ASSUME NEW x \in 2 .. Len(s)
      PROVE  previous'[s[x]] = s[x - 1] \/ (x = Len(s) /\ previous'[s[x]] = Null)
  <2>1. x \in 1 .. Len(s)
    OBVIOUS
  <2>2. CASE s[x] = b
    BY <1>0, <1>5, <2>1, <2>2
  <2>3. CASE s[x] # b
    BY <1>0, <1>4, <1>5, <2>1, <2>3
  <2> QED
    BY <2>2, <2>3
<1>8. IsList(s)'
  <2>1. Cardinality(Uncounted)' = Cardinality(Uncounted)
    BY <1>2
  <2>2. \A v \in Workers : pc'[v] = "clear" => s # <<>> /\ Here(v)' = s[Len(s)]
    BY <1>3, <1>4
  <2> QED
    BY <1>0, <1>1, <1>4, <1>6, <1>7, <2>1, <2>2 DEF IsList
<1>9. FreshRoots'
  <2>1. \A v \in Workers : pc'[v] \in {"publish", "link"} =>
            pc[v] \in {"publish", "link"} /\ Here(v)' = Here(v)
    BY <1>0 DEF Here
  <2> QED
    BY <1>6, <2>1 DEF ListInv, FreshRoots
<1> QED
  BY <1>8, <1>9 DEF ListInv

LEMMA ListCount ==
    ASSUME TypeInv, ListInv, NEW w \in Workers, Count(w) PROVE ListInv'
<1> PICK s \in Seq(Buffers) : IsList(s)
  BY DEF ListInv
<1>0. /\ pc[w] = "count" /\ pc' = [pc EXCEPT ![w] = "append"] /\ pc \in [Workers -> Programs]
      /\ mask' = mask /\ i' = i /\ initialized' = initialized
      /\ next' = next /\ previous' = previous /\ first_node' = first_node
      /\ root_nodes' = root_nodes + 1 /\ root_nodes \in Nat
  BY DEF Count, At, Goto, TypeInv, TypeOK
<1>1. Linked' = Linked
  BY <1>0, LinkedKept
<1>2. Uncounted' = Uncounted \ {w} /\ w \in Uncounted
  BY <1>0 DEF Uncounted
<1>3. Cardinality(Uncounted') = Cardinality(Uncounted) - 1 /\ Cardinality(Uncounted) \in Nat
  BY <1>2, WorkersFinite, FS_RemoveElement
<1>4. \A v \in Workers : pc'[v] = "clear" => pc[v] = "clear" /\ Here(v)' = Here(v)
  BY <1>0 DEF Here
<1>5. root_nodes' + Cardinality(Uncounted') = root_nodes + Cardinality(Uncounted)
  BY <1>0, <1>3
<1>6. IsList(s)'
  BY <1>0, <1>1, <1>4, <1>5, ListKept
<1>7. FreshRoots'
  <2>1. \A v \in Workers : pc'[v] \in {"publish", "link"} =>
            pc[v] \in {"publish", "link"} /\ Here(v)' = Here(v)
    BY <1>0 DEF Here
  <2> QED
    BY <1>0, <2>1 DEF ListInv, FreshRoots
<1> QED
  BY <1>6, <1>7 DEF ListInv

LEMMA ListNext ==
    TypeInv /\ UsedAfterCreation /\ ListInv /\ [Next]_vars => ListInv'
<1> SUFFICES ASSUME TypeInv, UsedAfterCreation, ListInv, [Next]_vars PROVE ListInv'
  OBVIOUS
<1>0. pc \in [Workers -> Programs] /\ i \in [Workers -> Nat]
  BY DEF TypeInv, TypeOK
<1> USE DEF At, Goto, Pushing
<1>1. ASSUME NEW w \in Workers, Test(w) PROVE ListInv'
  BY <1>0, <1>1, ListPlain DEF Test, phase1
<1>2. ASSUME NEW w \in Workers, Lock(w) PROVE ListInv'
  BY <1>0, <1>2, ListPlain DEF Lock
<1>3. ASSUME NEW w \in Workers, Append_(w) PROVE ListInv'
  BY <1>0, <1>3, ListPlain DEF Append_
<1>4. ASSUME NEW w \in Workers, Barrier(w) \/ Claim(w) \/ DrainRecord(w) \/ NextSlot(w) \/ Flush(w)
      PROVE  ListInv'
  BY <1>0, <1>4, ListPlain DEF Barrier, Claim, DrainRecord, NextSlot, Flush, phase1
<1>5. CASE Create
  <2>1. created \in Workers /\ pc[created] = "idle" /\ pc' = [pc EXCEPT ![created] = "test"]
        /\ mask' = mask /\ UNCHANGED phase1
    BY <1>5, NumThreadAssumption DEF Create, TypeInv, TypeOK, NotCreated, Workers
  <2> QED
    BY <1>0, <2>1, ListPlain DEF phase1
<1>6. CASE Join \/ UNCHANGED vars
  BY <1>0, <1>6, ListPlain DEF Join, vars, phase1
<1> QED
  BY <1>1, <1>2, <1>3, <1>4, <1>5, <1>6, ListAlloc, ListPublish, ListLink, ListClear, ListCount
     DEF Next, Worker, Insert, Drain, Done
\* Following next from first_node is walking along the list, and then staying at
\* its end.
Walk(s) == [n \in 0 .. NumBuffers |-> IF n < Len(s) THEN s[n + 1] ELSE Null]

LEMMA ListedDef ==
    ASSUME NEW s \in Seq(Buffers), IsList(s)
    PROVE  \A n \in 0 .. NumBuffers : Listed[n] = Walk(s)[n]
<1> DEFINE Follows(f) == f = [n \in 0 .. NumBuffers |->
                                 IF n = 0 THEN first_node
                                 ELSE IF f[n - 1] = Null THEN Null ELSE next[f[n - 1]]]
           g == Walk(s)
<1>0. /\ NumBuffers \in Nat /\ Len(s) \in Nat /\ Null \notin Buffers
      /\ s = <<>> <=> Len(s) = 0
      /\ \A x \in 1 .. Len(s) : s[x] \in Buffers
  BY NumBuffersAssumption DEF Null, Buffers
<1>1. /\ first_node = IF s = <<>> THEN Null ELSE s[1]
      /\ \A x \in 1 .. Len(s) : next[s[x]] = IF x = Len(s) THEN Null ELSE s[x + 1]
  BY DEF IsList
<1>2. \A n \in 0 .. NumBuffers : g[n] = IF n < Len(s) THEN s[n + 1] ELSE Null
  BY DEF Walk
<1>3. g[0] = first_node
  <2>1. 0 \in 0 .. NumBuffers
    BY <1>0
  <2>2. CASE Len(s) = 0
    BY <1>0, <1>1, <1>2, <2>1, <2>2
  <2>3. CASE Len(s) # 0
    <3>1. 0 < Len(s) /\ 0 + 1 = 1
      BY <1>0, <2>3
    <3> QED
      BY <1>0, <1>1, <1>2, <2>1, <2>3, <3>1
  <2> QED
    BY <2>2, <2>3
<1>4. ASSUME NEW n \in 1 .. NumBuffers
      PROVE  g[n] = IF g[n - 1] = Null THEN Null ELSE next[g[n - 1]]
  <2>0. n - 1 \in 0 .. NumBuffers /\ n \in 0 .. NumBuffers /\ (n - 1) + 1 = n /\ n \in Nat
    BY <1>0
  <2>1. CASE n - 1 < Len(s)
    <3>1. n \in 1 .. Len(s) /\ (n < Len(s) <=> n # Len(s))
      BY <1>0, <2>0, <2>1
    <3>2. g[n - 1] = s[n] /\ s[n] # Null
      BY <1>0, <1>2, <2>0, <2>1, <3>1
    <3>3. g[n] = IF n = Len(s) THEN Null ELSE s[n + 1]
      BY <1>2, <2>0, <3>1
    <3> QED
      BY <1>1, <3>1, <3>2, <3>3
  <2>2. CASE ~(n - 1 < Len(s))
    <3>1. ~(n < Len(s))
      BY <1>0, <2>0, <2>2
    <3> QED
      BY <1>2, <2>0, <2>2, <3>1
  <2> QED
    BY <2>1, <2>2
<1>5. Follows(g)
  <2>1. g = [n \in 0 .. NumBuffers |-> g[n]]
    BY DEF Walk
  <2>2. \A n \in 0 .. NumBuffers : n = 0 \/ n \in 1 .. NumBuffers
    BY <1>0
  <2>3. \A n \in 0 .. NumBuffers :
            g[n] = IF n = 0 THEN first_node ELSE IF g[n - 1] = Null THEN Null ELSE next[g[n - 1]]
    <3> HIDE DEF g
    <3> QED
      BY <1>3, <1>4, <2>2
  <2> HIDE DEF g
  <2> QED
    BY <2>1, <2>3
<1>6. Listed = CHOOSE f : Follows(f)
  BY DEF Listed
<1>7. Follows(Listed)
  <2>1. \E f : Follows(f)
    BY <1>5
  <2> HIDE DEF Follows
  <2>2. Follows(CHOOSE f : Follows(f))
    BY <2>1
  <2>3. \A f : f = Listed /\ Follows(f) => Follows(Listed)
    OBVIOUS
  <2> QED
    BY <1>6, <2>2, <2>3
<1> DEFINE L == Listed
<1>8. L[0] = first_node /\ \A n \in 1 .. NumBuffers :
          L[n] = IF L[n - 1] = Null THEN Null ELSE next[L[n - 1]]
  <2>1. L = [n \in 0 .. NumBuffers |->
                IF n = 0 THEN first_node ELSE IF L[n - 1] = Null THEN Null ELSE next[L[n - 1]]]
    BY <1>7
  <2>2. \A n \in 1 .. NumBuffers : n \in 0 .. NumBuffers /\ n # 0
    BY <1>0
  <2>3. 0 \in 0 .. NumBuffers
    BY <1>0
  <2> HIDE DEF L
  <2> QED
    BY <2>1, <2>2, <2>3
<1> DEFINE T == {n \in Nat : L[n] = g[n]}
<1>9. 0 \in T
  BY <1>3, <1>8
<1>10. \A n \in 1 .. NumBuffers : n - 1 \in T => n \in T
  <2> SUFFICES ASSUME NEW n \in 1 .. NumBuffers, n - 1 \in T PROVE n \in T
    OBVIOUS
  <2>1. n \in Nat /\ L[n - 1] = g[n - 1]
    BY <1>0
  <2> HIDE DEF L, g
  <2>2. L[n] = g[n]
    BY <1>4, <1>8, <2>1
  <2> QED
    BY <2>1, <2>2
<1>11. 0 .. NumBuffers \subseteq T
  <2> HIDE DEF T
  <2> QED
    BY <1>0, <1>9, <1>10, Induction
<1> QED
  BY <1>11

LEMMA ListIsRight == TypeInv /\ ListInv => RootList
<1> SUFFICES ASSUME TypeInv, ListInv PROVE RootList
  OBVIOUS
<1> PICK s \in Seq(Buffers) : IsList(s)
  BY DEF ListInv
<1>0. /\ NumBuffers \in Nat /\ Len(s) \in Nat /\ Null \notin Buffers
      /\ \A x \in 1 .. Len(s) : s[x] \in Buffers
      /\ DOMAIN s = 1 .. Len(s)
  BY NumBuffersAssumption DEF Null, Buffers
<1>1. /\ Distinct(s) /\ Entries(s) = Linked
      /\ \A x \in 1 .. Len(s) : next[s[x]] = IF x = Len(s) THEN Null ELSE s[x + 1]
      /\ \A x \in 2 .. Len(s) : previous[s[x]] = s[x - 1] \/ (x = Len(s) /\ previous[s[x]] = Null)
      /\ Len(s) = root_nodes + Cardinality(Uncounted)
  BY DEF IsList
<1>2. \A n \in 0 .. NumBuffers : Listed[n] = IF n < Len(s) THEN s[n + 1] ELSE Null
  BY ListedDef DEF Walk
<1>3. Cardinality(Linked) = Len(s)
  BY <1>1, DistinctCount
<1>4. Len(s) <= NumBuffers
  <2>1. IsFiniteSet(Buffers) /\ Cardinality(Buffers) = NumBuffers
    <3>1. Buffers = 0 .. NumBuffers - 1 /\ 0 \in Int /\ NumBuffers - 1 \in Int
      BY <1>0 DEF Buffers
    <3>2. IsFiniteSet(0 .. NumBuffers - 1) /\
          Cardinality(0 .. NumBuffers - 1) =
              IF 0 > NumBuffers - 1 THEN 0 ELSE NumBuffers - 1 - 0 + 1
      BY <3>1, FS_Interval
    <3>3. NumBuffers = IF 0 > NumBuffers - 1 THEN 0 ELSE NumBuffers - 1 - 0 + 1
      BY ONLY <1>0
    <3> QED
      BY <3>1, <3>2, <3>3
  <2>2. Linked \in SUBSET Buffers
    BY DEF Linked
  <2> QED
    BY <1>3, <2>1, <2>2, FS_Subset
<1>5. \A x \in 1 .. Len(s) : x - 1 \in 0 .. NumBuffers /\ Listed[x - 1] = s[x]
  <2> SUFFICES ASSUME NEW x \in 1 .. Len(s)
               PROVE  x - 1 \in 0 .. NumBuffers /\ Listed[x - 1] = s[x]
    OBVIOUS
  <2>1. x - 1 \in 0 .. NumBuffers /\ x - 1 < Len(s) /\ (x - 1) + 1 = x
    BY <1>0, <1>4
  <2> QED
    BY <1>2, <2>1
<1>6. \A n \in 0 .. NumBuffers : \/ n < Len(s) /\ n + 1 \in 1 .. Len(s) /\ Listed[n] = s[n + 1]
                                 \/ n >= Len(s) /\ Listed[n] = Null
  BY <1>0, <1>2
<1>7. {Listed[n] : n \in 0 .. NumBuffers} \ {Null} = Linked
  <2>1. ASSUME NEW b \in Linked PROVE b \in {Listed[n] : n \in 0 .. NumBuffers} \ {Null}
    <3>1. PICK x \in 1 .. Len(s) : b = s[x]
      BY <1>0, <1>1 DEF Entries
    <3> QED
      BY <1>0, <1>5, <3>1
  <2>2. ASSUME NEW n \in 0 .. NumBuffers, Listed[n] # Null PROVE Listed[n] \in Linked
    BY <1>0, <1>1, <1>6, <2>2 DEF Entries
  <2> QED
    BY <2>1, <2>2
<1>8. Listed[NumBuffers] = Null
  <2>1. NumBuffers \in 0 .. NumBuffers /\ ~(NumBuffers < Len(s))
    BY <1>0, <1>4
  <2> QED
    BY <1>2, <2>1
<1>9. Cardinality({n \in 0 .. NumBuffers : Listed[n] # Null}) = Cardinality(Linked)
  <2>1. {n \in 0 .. NumBuffers : Listed[n] # Null} = 0 .. Len(s) - 1
    <3>1. ASSUME NEW n \in 0 .. NumBuffers PROVE Listed[n] # Null <=> n \in 0 .. Len(s) - 1
      BY <1>0, <1>6
    <3>2. 0 .. Len(s) - 1 \subseteq 0 .. NumBuffers
      BY <1>0, <1>4
    <3> QED
      BY <3>1, <3>2
  <2>2. Cardinality(0 .. Len(s) - 1) = IF 0 > Len(s) - 1 THEN 0 ELSE Len(s) - 1 - 0 + 1
    BY <1>0, FS_Interval
  <2>3. Len(s) = IF 0 > Len(s) - 1 THEN 0 ELSE Len(s) - 1 - 0 + 1
    BY ONLY <1>0
  <2> QED
    BY <1>3, <2>1, <2>2, <2>3
<1>10. Cardinality(Linked) = root_nodes + Cardinality({w \in Workers : pc[w] \in {"clear", "count"}})
  BY <1>1, <1>3 DEF Uncounted
<1>11. ASSUME NEW b \in Linked, next[b] # Null
       PROVE  previous[next[b]] = b \/ (previous[next[b]] = Null /\ next[next[b]] = Null)
  <2>1. PICK x \in 1 .. Len(s) : b = s[x]
    BY <1>0, <1>1 DEF Entries
  <2>2. x # Len(s) /\ next[b] = s[x + 1]
    BY <1>1, <1>11, <2>1
  <2>3. x + 1 \in 2 .. Len(s) /\ x + 1 \in 1 .. Len(s) /\ (x + 1) - 1 = x
    <3>1. Len(s) \in Nat /\ x \in 1 .. Len(s) /\ x # Len(s)
      BY <1>0, <2>2
    <3> QED
      BY ONLY <3>1
  <2>4. previous[s[x + 1]] = s[x] \/ (x + 1 = Len(s) /\ previous[s[x + 1]] = Null)
    BY <1>1, <2>3
  <2>5. x + 1 = Len(s) => next[s[x + 1]] = Null
    BY <1>1, <2>3
  <2> QED
    BY <2>1, <2>2, <2>4, <2>5
<1> QED
  BY <1>7, <1>8, <1>9, <1>10, <1>11 DEF RootList

\* However the creations of soft buffers interleave, the list that range_query
\* walks has each linked root exactly once and ends; root_nodes is its length but
\* for the workers about to count, and no back link but the last can be lost.
THEOREM RootListRight == Spec => []RootList
<1>1. Init => TypeInv /\ UsedAfterCreation /\ ListInv
  BY TypeInit, UsedInit, ListInit
<1>2. TypeInv /\ UsedAfterCreation /\ ListInv /\ [Next]_vars
          => TypeInv' /\ UsedAfterCreation' /\ ListInv'
  BY TypeNext, UsedNext, ListNext
<1>3. TypeInv /\ ListInv => RootList
  BY ListIsRight
<1> QED
  BY <1>1, <1>2, <1>3, PTL DEF Spec

-----------------------------------------------------------------------------
(* Phase 2: a subtree and the records that belong in it.                   *)

Ascending(s) == \A m, n \in DOMAIN s : m < n => s[m] < s[n]

\* The records whose mask is b: all of them, and the ones of one slice.
Own(b) == {n \in Records : mask[n] = b}
OwnOf(b, w) == {n \in Start(w) .. Stop(w) - 1 : mask[n] = b}

\* Where slice v begins; after the last one, the end of the records.
Begin(v) == IF v = NumThread THEN NumRecords ELSE Start(v)
OwnBefore(b, v) == {n \in 0 .. Begin(v) - 1 : mask[n] = b}

-----------------------------------------------------------------------------
(* The slices, once more: they are contiguous and cover the records.       *)

LEMMA Division ==
    ASSUME NEW n \in Nat, NEW q \in Nat \ {0}
    PROVE  /\ n \div q \in Nat
           /\ (n \div q) * q <= n
           /\ n < (n \div q + 1) * q
  BY SMT

LEMMA SlicesMeet ==
    ASSUME NEW w \in Workers
    PROVE  Begin(w) = Start(w) /\ Begin(w + 1) = Stop(w)
<1> DEFINE q == NumRecords \div NumThread
<1>1. w # NumThread /\ (w + 1 = NumThread <=> w = NumThread - 1)
  BY NumThreadAssumption DEF Workers
<1>2. Start(w) = w * q /\ Start(w + 1) = (w + 1) * q
  BY DEF Start
<1>3. Stop(w) = IF w = NumThread - 1 THEN NumRecords ELSE (w + 1) * q
  BY DEF Stop
<1> HIDE DEF q
<1> QED
  BY <1>1, <1>2, <1>3 DEF Begin

LEMMA SlicesCover ==
    ASSUME NEW n \in Records
    PROVE  \E w \in Workers : n \in Start(w) .. Stop(w) - 1
<1> DEFINE q == NumRecords \div NumThread
           last == NumThread - 1
<1>0. /\ q \in Nat
      /\ n \in Nat /\ n < NumRecords
      /\ NumThread \in Nat /\ last \in Nat /\ last \in Workers
  BY Quotient, NumRecordsAssumption, NumThreadAssumption DEF Records, Workers
<1>1. \A w \in Workers : /\ Start(w) = w * q
                         /\ Stop(w) = IF w = last THEN NumRecords ELSE (w + 1) * q
                         /\ Start(w) \in Nat /\ Stop(w) \in Nat
  BY SliceBounds DEF Start, Stop
<1> HIDE DEF q
<1>2. CASE last * q <= n
  <2>1. n \in Start(last) .. Stop(last) - 1
    BY <1>0, <1>1, <1>2, NumRecordsAssumption
  <2> QED
    BY <1>0, <2>1
<1>3. CASE ~(last * q <= n)
  <2> DEFINE w == n \div q
  <2>1. q \in Nat \ {0}
    BY <1>0, <1>3
  <2>2. w \in Nat /\ w * q <= n /\ n < (w + 1) * q
    BY <1>0, <2>1, Division
  <2> HIDE DEF w
  <2>3. w < last
    <3> SUFFICES ASSUME last <= w PROVE FALSE
      BY <1>0, <2>2
    <3>1. last * q <= w * q
      BY <1>0, <2>2, ProductMonotone
    <3>2. last * q \in Nat /\ w * q \in Nat
      BY <1>0, <2>2, ProductMonotone
    <3> QED
      BY <1>0, <1>3, <2>2, <3>1, <3>2
  <2>4. w \in Workers /\ w # last
    BY <1>0, <2>2, <2>3 DEF Workers
  <2>5. n \in Start(w) .. Stop(w) - 1
    <3>1. Start(w) = w * q /\ Stop(w) = (w + 1) * q /\ Start(w) \in Nat /\ Stop(w) \in Nat
      BY <1>1, <2>4
    <3> QED
      BY <1>0, <2>2, <3>1
  <2> QED
    BY <2>4, <2>5
<1> QED
  BY <1>2, <1>3, <1>0

\* The records of a buffer up to a slice and the ones of that slice are the
\* ones up to the next slice.
LEMMA OwnBeforeNext ==
    ASSUME NEW b, NEW w \in Workers
    PROVE  /\ OwnBefore(b, w + 1) = OwnBefore(b, w) \cup OwnOf(b, w)
           /\ \A m \in OwnBefore(b, w), n \in OwnOf(b, w) : m < n
<1>1. 0 .. Stop(w) - 1 = (0 .. Start(w) - 1) \cup (Start(w) .. Stop(w) - 1)
  BY SliceBounds
<1>2. \A m \in 0 .. Start(w) - 1, n \in Start(w) .. Stop(w) - 1 : m < n
  BY SliceBounds
<1> QED
  BY <1>1, <1>2, SlicesMeet DEF OwnBefore, OwnOf

LEMMA OwnEnds ==
    ASSUME NEW b
    PROVE  /\ Begin(0) = 0
           /\ OwnBefore(b, NumThread) = Own(b)
<1>1. 0 \in Workers /\ Start(0) = 0
  <2>1. NumRecords \div NumThread \in Nat
    BY Quotient, NumRecordsAssumption, NumThreadAssumption
  <2> QED
    BY <2>1, NumThreadAssumption DEF Workers, Start
<1>2. Begin(0) = 0
  BY <1>1, SlicesMeet
<1> QED
  BY <1>2 DEF OwnBefore, Begin, Own, Records

LEMMA OwnOfIsOwn ==
    ASSUME NEW b
    PROVE  /\ \A w \in Workers : OwnOf(b, w) \subseteq Own(b)
           /\ \A n \in Own(b) : \E w \in Workers : n \in OwnOf(b, w)
<1>1. \A w \in Workers : Start(w) .. Stop(w) - 1 \subseteq Records
  BY SliceBounds, NumRecordsAssumption DEF Records
<1> QED
  BY <1>1, SlicesCover DEF Own, OwnOf

-----------------------------------------------------------------------------
(* The end of phase 1: who has arrived at the barrier has been through its *)
(* slice, and a buffer that exists holds the record it was created for, or *)
(* its creator is still about to store that.                               *)

Creating == {"link", "clear", "count", "append"}

SlicesDone == \A w \in Workers : pc[w] \in Arrived => i[w] = Stop(w)

Needed ==
    \A b \in Buffers : initialized[b] =>
        \E w \in Workers : \/ records[b][w] # <<>>
                           \/ pc[w] \in Creating /\ Here(w) = b

LEMMA SlicesDoneNext == TypeInv /\ SlicesDone /\ [Next]_vars => SlicesDone'
<1> SUFFICES ASSUME TypeInv, SlicesDone, [Next]_vars PROVE SlicesDone'
  OBVIOUS
<1>0. /\ pc \in [Workers -> Programs]
      /\ i \in [Workers -> Nat]
      /\ \A w \in Workers : i[w] <= Stop(w) /\ Stop(w) \in Nat /\ UNCHANGED Stop(w)
  BY SliceBounds DEF TypeInv, TypeOK, InSlice, Stop
<1> USE DEF Goto, At, SlicesDone, Passed, Arrived, Draining
<1>1. ASSUME NEW w \in Workers, Test(w) PROVE SlicesDone'
  BY <1>0, <1>1 DEF Test, phase1
<1>2. ASSUME NEW w \in Workers,
             Lock(w) \/ Alloc(w) \/ Publish(w) \/ Link(w) \/ Clear(w) \/ Count(w)
      PROVE  SlicesDone'
  <2>1. UNCHANGED i /\ \E l \in Encoding : Goto(w, l)
    BY <1>2 DEF Lock, Alloc, Publish, Link, Clear, Count, Encoding
  <2> QED
    BY <1>0, <2>1 DEF Encoding
<1>3. ASSUME NEW w \in Workers, Append_(w) PROVE SlicesDone'
  BY <1>0, <1>3 DEF Append_
<1>4. ASSUME NEW w \in Workers, Barrier(w) \/ Drain(w) PROVE SlicesDone'
  <2>1. pc[w] \in Arrived /\ UNCHANGED i
    BY <1>4 DEF Barrier, Drain, Claim, DrainRecord, NextSlot, Flush, phase1
  <2>2. UNCHANGED pc \/ \E l \in Passed : Goto(w, l)
    BY <1>4 DEF Barrier, Drain, Claim, DrainRecord, NextSlot, Flush
  <2> QED
    BY <1>0, <2>1, <2>2
<1>5. CASE Create
  BY <1>0, <1>5 DEF Create, phase1
<1>6. CASE Join \/ UNCHANGED vars
  BY <1>0, <1>6 DEF Join, vars, phase1
<1> QED
  BY <1>1, <1>2, <1>3, <1>4, <1>5, <1>6 DEF Next, Worker, Insert, Done

LEMMA NeededNext == TypeInv /\ SlotInv /\ Needed /\ [Next]_vars => Needed'
<1> SUFFICES ASSUME TypeInv, SlotInv, Needed, [Next]_vars,
                    NEW b \in Buffers, initialized'[b]
             PROVE  \E w \in Workers : \/ records'[b][w] # <<>>
                                       \/ pc'[w] \in Creating /\ Here(w)' = b
  BY DEF Needed
<1> DEFINE For(w) == records[b][w] # <<>> \/ (pc[w] \in Creating /\ Here(w) = b)
<1>0. /\ pc \in [Workers -> Programs]
      /\ i \in [Workers -> Nat]
      /\ initialized \in [Buffers -> BOOLEAN]
      /\ records \in [Buffers -> [Workers -> Seq(Records)]]
  BY DEF TypeInv, TypeOK
<1>00. initialized[b] => \E w \in Workers : For(w)
  BY DEF Needed
<1> USE DEF Goto, At, Creating, Here
<1>1. ASSUME NEW w \in Workers, Publish(w) PROVE \E v \in Workers : For(v)'
  <2>1. CASE initialized[b]
    BY <1>0, <1>00, <1>1, <2>1 DEF Publish
  <2>2. CASE ~initialized[b]
    <3>1. Here(w) = b /\ For(w)'
      BY <1>0, <1>1, <2>2 DEF Publish
    <3> QED
      BY <3>1
  <2> QED
    BY <2>1, <2>2
<1>2. ASSUME NEW w \in Workers, Alloc(w) PROVE \E v \in Workers : For(v)'
  <2>1. ~initialized[Here(w)] /\ UNCHANGED initialized
    BY <1>2 DEF Alloc, SlotInv, UsedAfterCreation
  <2>2. b # Here(w) /\ records'[b] = records[b]
    BY <1>0, <1>2, <2>1 DEF Alloc
  <2> QED
    BY <1>0, <1>00, <1>2, <2>1, <2>2 DEF Alloc
<1>3. ASSUME NEW w \in Workers, Append_(w) PROVE \E v \in Workers : For(v)'
  <2>1. Here(w) \in Buffers /\ i[w] \in Records /\ UNCHANGED initialized
    BY <1>3, HereIsBuffer DEF Append_, Encoding, TypeInv
  <2>2. PICK v \in Workers : For(v)
    BY <1>00, <2>1
  <2>3. records' = [records EXCEPT ![Here(w)][w] = Append(@, i[w])]
    BY <1>3 DEF Append_
  <2>4. Append(records[Here(w)][w], i[w]) # <<>>
    <3>1. records[Here(w)][w] \in Seq(Records)
      BY <1>0, <2>1
    <3> QED
      BY <2>1, <3>1, AppendProperties
  <2>5. \A u \in Workers : records[b][u] # <<>> => records'[b][u] # <<>>
    BY <1>0, <2>1, <2>3, <2>4
  <2>6. Here(w) = b => records'[b][w] # <<>>
    BY <1>0, <2>1, <2>3, <2>4
  <2>7. v # w => pc'[v] = pc[v] /\ Here(v)' = Here(v)
    BY <1>0, <1>3 DEF Append_
  <2>8. CASE records[b][v] # <<>>
    BY <2>5, <2>8
  <2>9. CASE records[b][v] = <<>> /\ v # w
    <3>1. For(v)'
      BY <2>2, <2>7, <2>9
    <3> QED
      BY <3>1
  <2>10. CASE records[b][v] = <<>> /\ v = w
    BY <2>2, <2>6, <2>10
  <2> QED
    BY <2>8, <2>9, <2>10
<1>4. ASSUME NEW w \in Workers, Test(w) \/ Lock(w) \/ Link(w) \/ Clear(w) \/ Count(w)
      PROVE  \E v \in Workers : For(v)'
  <2>1. UNCHANGED <<initialized, records, i, mask>>
    BY <1>4 DEF Test, Lock, Link, Clear, Count, phase1
  <2>2. pc[w] \in Creating => pc'[w] \in Creating
    BY <1>0, <1>4 DEF Test, Lock, Link, Clear, Count
  <2>3. \A v \in Workers : v # w => pc'[v] = pc[v]
    BY <1>0, <1>4 DEF Test, Lock, Link, Clear, Count
  <2> QED
    BY <1>0, <1>00, <2>1, <2>2, <2>3
<1>5. ASSUME NEW w \in Workers, Barrier(w) \/ Drain(w)
      PROVE  \E v \in Workers : For(v)'
  <2>1. UNCHANGED <<initialized, records, i, mask>> /\ pc[w] \notin Creating
    BY <1>5 DEF Barrier, Drain, Claim, DrainRecord, NextSlot, Flush, phase1
  <2>2. UNCHANGED pc \/ \E l \in Passed : Goto(w, l)
    BY <1>5 DEF Barrier, Drain, Claim, DrainRecord, NextSlot, Flush, Passed, Draining
  <2>3. \A v \in Workers : v # w => pc'[v] = pc[v]
    BY <1>0, <2>2
  <2> QED
    BY <1>0, <1>00, <2>1, <2>3
<1>6. CASE Create
  <2>1. created \in Workers /\ pc[created] = "idle" /\ UNCHANGED <<mask, phase1>>
    BY <1>6, NumThreadAssumption DEF Create, TypeInv, TypeOK, NotCreated, Workers
  <2>2. \A v \in Workers : v # created => pc'[v] = pc[v]
    BY <1>0, <1>6 DEF Create
  <2> QED
    BY <1>0, <1>00, <2>1, <2>2 DEF phase1
<1>7. CASE Join \/ UNCHANGED vars
  BY <1>0, <1>00, <1>7 DEF Join, vars, phase1
<1> QED
  BY <1>1, <1>2, <1>3, <1>4, <1>5, <1>6, <1>7 DEF Next, Worker, Insert, Done

-----------------------------------------------------------------------------
(* Phase 2: what has been moved into each subtree.                         *)

Busy(b) == \E w \in Workers : pc[w] = "drain" /\ j[w] = b

\* What the worker has moved: the slots before the one it is at, and the first
\* r of that one.
Moved(w) == OwnBefore(j[w], k[w]) \cup {records[j[w]][k[w]][m] : m \in 1 .. r[w]}

InProgress(w) ==
    /\ Entries(tree[j[w]]) = Moved(w)
    /\ k[w] < NumThread => r[w] <= Len(records[j[w]][k[w]])
    /\ k[w] = NumThread => r[w] = 0
    /\ j[w] \notin flushed

Finished(b) ==
    /\ Entries(tree[b]) = Own(b)
    /\ b \in flushed <=> tree[b] # <<>>

\* A buffer is unclaimed, being drained, or finished.
TreeInv ==
    /\ \A b \in Buffers : Ascending(tree[b])
    /\ \A w \in Workers : pc[w] = "drain" => InProgress(w)
    /\ \A b \in Buffers : b >= node_counter => tree[b] = <<>> /\ b \notin flushed
    /\ \A b \in Buffers : b < node_counter /\ ~Busy(b) => Finished(b)
    /\ \A w \in Workers : pc[w] = "exit" => node_counter >= NumBuffers

Phase2Inv == TypeInv /\ BarrierInv /\ ClaimInv /\ SlotInv /\ SlicesDone /\ Needed

LEMMA AppendGreatest ==
    ASSUME NEW s \in Seq(Records), NEW x \in Records, Ascending(s),
           \A y \in Entries(s) : y < x
    PROVE  /\ Entries(Append(s, x)) = Entries(s) \cup {x}
           /\ Ascending(Append(s, x))
<1> SUFFICES ASSUME NEW t, t = Append(s, x)
             PROVE  Entries(t) = Entries(s) \cup {x} /\ Ascending(t)
  OBVIOUS
<1>1. /\ Len(s) \in Nat
      /\ DOMAIN s = 1 .. Len(s)
      /\ DOMAIN t = 1 .. Len(s) + 1
      /\ \A n \in DOMAIN s : t[n] = s[n]
      /\ t[Len(s) + 1] = x
  OBVIOUS
<1>2. Entries(t) = Entries(s) \cup {x}
  BY <1>1 DEF Entries
<1>3. ASSUME NEW m \in DOMAIN t, NEW n \in DOMAIN t, m < n PROVE t[m] < t[n]
  <2>1. m \in DOMAIN s
    BY <1>1, <1>3
  <2>2. CASE n \in DOMAIN s
    BY <1>1, <1>3, <2>1, <2>2 DEF Ascending
  <2>3. CASE n = Len(s) + 1
    BY <1>1, <2>1, <2>3 DEF Entries
  <2> QED
    BY <1>1, <2>2, <2>3
<1> QED
  BY <1>2, <1>3 DEF Ascending

\* Behind the barrier every slot is what its worker's slice had for the buffer.
LEMMA SlotsFull ==
    ASSUME Phase2Inv, NEW w \in Workers, pc[w] \in Passed,
           NEW b \in Buffers, NEW v \in Workers
    PROVE  /\ records[b][v] \in Seq(Records)
           /\ Entries(records[b][v]) = OwnOf(b, v)
           /\ Ascending(records[b][v])
<1>1. i[v] = Stop(v)
  BY DEF Phase2Inv, BarrierInv, SlicesDone
<1>2. records[b][v] \in Seq(Records)
  BY DEF Phase2Inv, TypeInv, TypeOK
<1>3. /\ Entries(records[b][v]) = {n \in Start(v) .. i[v] - 1 : mask[n] = b}
      /\ Ascending(records[b][v])
  BY DEF Phase2Inv, SlotInv, StoredInOrder, Entries, Ascending
<1> QED
  BY <1>1, <1>2, <1>3 DEF OwnOf

\* A buffer has a record if and only if one of its slots does.
LEMMA OwnNotEmpty ==
    ASSUME Phase2Inv, NEW w \in Workers, pc[w] \in Passed, NEW b \in Buffers
    PROVE  /\ Own(b) # {} <=> \E v \in Workers : records[b][v] # <<>>
           /\ ~initialized[b] => Own(b) = {}
<1>1. \A v \in Workers : /\ records[b][v] \in Seq(Records)
                         /\ Entries(records[b][v]) = OwnOf(b, v)
  BY SlotsFull
<1>2. ASSUME NEW v \in Workers PROVE records[b][v] # <<>> <=> OwnOf(b, v) # {}
  <2> SUFFICES ASSUME NEW s \in Seq(Records) PROVE s # <<>> <=> Entries(s) # {}
    BY <1>1
  <2>1. CASE s = <<>>
    BY <2>1 DEF Entries
  <2>2. CASE s # <<>>
    <3>1. 1 \in DOMAIN s
      BY <2>2
    <3> QED
      BY <2>2, <3>1 DEF Entries
  <2> QED
    BY <2>1, <2>2
<1>3. Own(b) # {} <=> \E v \in Workers : OwnOf(b, v) # {}
  BY OwnOfIsOwn
<1>4. ~initialized[b] => \A v \in Workers : records[b][v] = <<>>
  BY DEF Phase2Inv, SlotInv, EmptyBefore
<1> QED
  BY <1>2, <1>3, <1>4

LEMMA TreeInit == Init => TreeInv
<1> SUFFICES ASSUME Init PROVE TreeInv
  OBVIOUS
<1>1. \A b \in Buffers : tree[b] = <<>> /\ b \notin flushed /\ ~(b < node_counter)
  BY DEF Init, Buffers
<1>2. \A b \in Buffers : Ascending(tree[b])
  BY <1>1 DEF Ascending
<1>3. \A w \in Workers : pc[w] = "idle"
  BY DEF Init
<1> QED
  BY <1>1, <1>2, <1>3 DEF TreeInv

\* Nothing is in phase 2 while a worker is still in phase 1.
LEMMA TreeInsert ==
    ASSUME Phase2Inv, TreeInv, NEW w \in Workers, Insert(w)
    PROVE  TreeInv'
<1>1. pc \in [Workers -> Programs]
  BY DEF Phase2Inv, TypeInv, TypeOK
<1>2. pc[w] \notin Arrived
  BY DEF Insert, Test, Lock, Alloc, Publish, Link, Clear, Count, Append_, At,
         Arrived, Passed, Draining
<1>3. \A v \in Workers : pc[v] \notin Passed
  BY <1>2 DEF Phase2Inv, BarrierInv
<1>4. \E l \in Encoding \cup {"barrier"} : pc' = [pc EXCEPT ![w] = l]
  BY DEF Insert, Test, Lock, Alloc, Publish, Link, Clear, Count, Append_,
         Encoding, Goto
<1>5. \A v \in Workers : pc[v] \notin {"drain", "exit"} /\ pc'[v] \notin {"drain", "exit"}
  BY <1>1, <1>3, <1>4 DEF Encoding, Passed, Draining
<1>6. UNCHANGED <<mask, node_counter, tree, flushed>>
  BY DEF Insert, Test, Lock, Alloc, Publish, Link, Clear, Count, Append_, phase2
<1> QED
  BY <1>5, <1>6 DEF TreeInv, Busy, Ascending, Finished, Own, Entries

\* A worker whose subtree and place in it do not change.
LEMMA DrainingFrame ==
    ASSUME NEW v \in Workers, UNCHANGED <<mask, records, flushed>>,
           tree'[j[v]] = tree[j[v]], j'[v] = j[v], k'[v] = k[v], r'[v] = r[v]
    PROVE  InProgress(v)' <=> InProgress(v)
<1>1. OwnBefore(j[v], k[v])' = OwnBefore(j[v], k[v])
  BY DEF OwnBefore, Begin, Start
<1>2. Moved(v)' = Moved(v)
  BY <1>1 DEF Moved
<1>3. Entries(tree[j[v]])' = Entries(tree[j[v]])
  BY DEF Entries
<1> QED
  BY <1>2, <1>3 DEF InProgress

\* Steps that leave the claims and the trees alone and start or end nothing.
LEMMA TreeFrame ==
    ASSUME TreeInv, UNCHANGED <<mask, records, node_counter, j, k, r, tree, flushed>>,
           \A v \in Workers : /\ pc'[v] = "drain" <=> pc[v] = "drain"
                              /\ pc'[v] = "exit" => pc[v] = "exit"
    PROVE  TreeInv'
<1>1. \A v \in Workers : pc'[v] = "drain" => InProgress(v)'
  BY DrainingFrame DEF TreeInv
<1>2. \A b \in Buffers : (Busy(b)' <=> Busy(b)) /\ (Finished(b)' <=> Finished(b))
  BY DEF Busy, Finished, Own, Entries
<1>3. \A b \in Buffers : Ascending(tree[b])'
  BY DEF TreeInv, Ascending
<1> QED
  BY <1>1, <1>2, <1>3 DEF TreeInv

LEMMA TreeClaim ==
    ASSUME Phase2Inv, TreeInv, NEW w \in Workers, Claim(w)
    PROVE  TreeInv'
<1> DEFINE c == node_counter
<1>0. /\ pc \in [Workers -> Programs]
      /\ j \in [Workers -> Buffers]
      /\ k \in [Workers -> 0 .. NumThread]
      /\ r \in [Workers -> Nat]
      /\ c \in Nat /\ Buffers \subseteq Nat /\ NumBuffers \in Nat
      /\ pc[w] = "claim" /\ pc[w] \in Passed
      /\ c' = c + 1
      /\ UNCHANGED <<mask, records, tree, flushed>>
  <2>1. /\ pc \in [Workers -> Programs]
        /\ j \in [Workers -> Buffers]
        /\ k \in [Workers -> 0 .. NumThread]
        /\ r \in [Workers -> Nat]
        /\ c \in Nat
    BY DEF Phase2Inv, TypeInv, TypeOK
  <2>2. Buffers \subseteq Nat /\ NumBuffers \in Nat
    BY NumBuffersAssumption DEF Buffers
  <2>3. /\ pc[w] = "claim" /\ c' = c + 1
        /\ UNCHANGED <<mask, records, tree, flushed>>
    BY DEF Claim, At, FetchAndAdd, phase1
  <2> QED
    BY <2>1, <2>2, <2>3 DEF Passed, Draining
<1> HIDE DEF c
<1>1. \A b \in Buffers : b >= c' => b >= c
  BY <1>0
<1>2. \A b \in Buffers : b < c' => b < c \/ b = c
  BY <1>0
<1>3. \A v \in Workers : pc[v] = "exit" => c' >= NumBuffers
  BY <1>0 DEF TreeInv, c
<1>4. CASE c >= NumBuffers /\ Goto(w, "exit") /\ UNCHANGED <<j, k, r>>
  <2>1. \A v \in Workers : pc'[v] = "drain" <=> pc[v] = "drain"
    BY <1>0, <1>4 DEF Goto
  <2>2. \A b \in Buffers : b # c
    BY <1>0, <1>4 DEF Buffers
  <2>3. \A v \in Workers : pc'[v] = "exit" => c' >= NumBuffers
    BY <1>0, <1>4
  <2>4. \A b \in Buffers : Busy(b)' <=> Busy(b)
    BY <1>4, <2>1 DEF Busy
  <2>5. \A v \in Workers : pc[v] = "drain" => InProgress(v)'
    BY <1>0, <1>4, DrainingFrame DEF TreeInv
  <2>6. \A b \in Buffers : Finished(b)' <=> Finished(b)
    BY <1>0 DEF Finished, Own, Entries
  <2>7. \A b \in Buffers : Ascending(tree[b])'
    BY <1>0 DEF TreeInv, Ascending
  <2>8. \A b \in Buffers : b >= c' => tree'[b] = <<>> /\ b \notin flushed'
    BY <1>0, <1>1 DEF TreeInv, c
  <2>9. \A b \in Buffers : b < c' /\ ~Busy(b)' => Finished(b)'
    BY <1>2, <2>2, <2>4, <2>6 DEF TreeInv, c
  <2> QED
    BY <2>1, <2>3, <2>5, <2>7, <2>8, <2>9 DEF TreeInv, c
<1>5. CASE c < NumBuffers /\ ~initialized[c] /\ UNCHANGED <<pc, j, k, r>>
  <2>1. c \in Buffers
    BY <1>0, <1>5 DEF Buffers
  <2>2. Finished(c)
    <3>1. Own(c) = {}
      BY <1>0, <1>5, <2>1, OwnNotEmpty
    <3>2. tree[c] = <<>> /\ c \notin flushed
      BY <1>0, <2>1 DEF TreeInv, c
    <3> QED
      BY <3>1, <3>2 DEF Finished, Entries
  <2>3. \A b \in Buffers : b < c' /\ ~Busy(b) => Finished(b)
    BY <1>2, <2>2 DEF TreeInv, c
  <2>4. \A v \in Workers : pc[v] = "drain" => InProgress(v)'
    BY <1>0, <1>5, DrainingFrame DEF TreeInv
  <2>5. \A b \in Buffers : (Busy(b)' <=> Busy(b)) /\ (Finished(b)' <=> Finished(b))
    BY <1>0, <1>5 DEF Busy, Finished, Own, Entries
  <2>6. \A b \in Buffers : Ascending(tree[b])'
    BY <1>0 DEF TreeInv, Ascending
  <2>7. \A b \in Buffers : b >= c' => tree'[b] = <<>> /\ b \notin flushed'
    BY <1>0, <1>1 DEF TreeInv, c
  <2> QED
    BY <1>3, <1>5, <2>3, <2>4, <2>5, <2>6, <2>7 DEF TreeInv, c
<1>6. CASE /\ c < NumBuffers
           /\ Goto(w, "drain")
           /\ j' = [j EXCEPT ![w] = c]
           /\ k' = [k EXCEPT ![w] = 0]
           /\ r' = [r EXCEPT ![w] = 0]
  <2>1. c \in Buffers /\ tree[c] = <<>> /\ c \notin flushed
    BY <1>0, <1>6 DEF Buffers, TreeInv, c
  <2>2. /\ j'[w] = c /\ k'[w] = 0 /\ r'[w] = 0 /\ pc'[w] = "drain"
        /\ \A v \in Workers : v # w =>
               j'[v] = j[v] /\ k'[v] = k[v] /\ r'[v] = r[v] /\ pc'[v] = pc[v]
    BY <1>0, <1>6 DEF Goto
  <2>3. InProgress(w)'
    <3>1. 0 # NumThread /\ 0 \in Workers
      BY NumThreadAssumption DEF Workers
    <3>2. Begin(k[w])' = 0
      BY <2>2, OwnEnds DEF Begin, Start
    <3>3. Moved(w)' = {}
      <4>1. 1 .. r'[w] = {}
        BY <2>2
      <4>2. OwnBefore(j[w], k[w])' = {}
        BY <3>2 DEF OwnBefore
      <4>3. {records'[j'[w]][k'[w]][m] : m \in 1 .. r'[w]} = {}
        BY <4>1
      <4> QED
        BY <4>2, <4>3 DEF Moved
    <3>4. tree'[j'[w]] = <<>> /\ Entries(tree'[j'[w]]) = {}
      BY <1>0, <2>1, <2>2 DEF Entries
    <3>5. records'[c][0] \in Seq(Records)
      BY <1>0, <2>1, <3>1 DEF Phase2Inv, TypeInv, TypeOK
    <3>6. 0 <= Len(records'[c][0])
      BY <3>5
    <3> QED
      BY <1>0, <2>1, <2>2, <3>1, <3>3, <3>4, <3>6 DEF InProgress, Entries
  <2>4. \A v \in Workers : pc'[v] = "drain" => InProgress(v)'
    <3> SUFFICES ASSUME NEW v \in Workers, pc[v] = "drain", v # w PROVE InProgress(v)'
      BY <2>2, <2>3
    <3>1. InProgress(v)
      BY DEF TreeInv
    <3> QED
      BY <1>0, <2>2, <3>1, DrainingFrame
  <2>5. \A b \in Buffers : b < c' /\ ~Busy(b)' => Finished(b)
    <3> SUFFICES ASSUME NEW b \in Buffers, b < c', ~Busy(b)' PROVE Finished(b)
      OBVIOUS
    <3>1. b # c
      BY <2>2 DEF Busy
    <3>2. ~Busy(b)
      BY <1>0, <2>2 DEF Busy
    <3> QED
      BY <1>2, <3>1, <3>2 DEF TreeInv, c
  <2>6. \A b \in Buffers : Finished(b)' <=> Finished(b)
    BY <1>0 DEF Finished, Own, Entries
  <2>7. \A v \in Workers : pc'[v] = "exit" => c' >= NumBuffers
    BY <1>3, <2>2
  <2> QED
    BY <1>0, <1>1, <2>4, <2>5, <2>6, <2>7 DEF TreeInv, Ascending, c
<1> QED
  BY <1>4, <1>5, <1>6 DEF Claim, c

\* What a worker that is in a subtree can rely on.
LEMMA InSubtree ==
    ASSUME Phase2Inv, TreeInv, NEW w \in Workers, pc[w] = "drain"
    PROVE  /\ pc[w] \in Passed
           /\ j[w] \in Buffers /\ Buffers \subseteq Nat
           /\ node_counter \in Nat /\ j[w] < node_counter
           /\ k[w] \in 0 .. NumThread /\ r[w] \in Nat
           /\ pc \in [Workers -> Programs]
           /\ k \in [Workers -> 0 .. NumThread]
           /\ r \in [Workers -> Nat]
           /\ tree \in [Buffers -> Seq(Records)]
           /\ InProgress(w)
           /\ \A v \in Workers : v # w /\ pc[v] = "drain" => j[v] # j[w]
<1>1. /\ pc \in [Workers -> Programs]
      /\ j \in [Workers -> Buffers]
      /\ k \in [Workers -> 0 .. NumThread]
      /\ r \in [Workers -> Nat]
      /\ tree \in [Buffers -> Seq(Records)]
      /\ node_counter \in Nat
  BY DEF Phase2Inv, TypeInv, TypeOK
<1>2. j[w] < node_counter
  BY DEF Phase2Inv, ClaimInv
<1>3. \A v \in Workers : v # w /\ pc[v] = "drain" => j[v] # j[w]
  BY DEF Phase2Inv, ClaimInv, OneWorkerPerSubtree, At
<1> QED
  BY <1>1, <1>2, <1>3 DEF TreeInv, Passed, Draining, Buffers

\* The next record of a slot is one of the buffer's, and comes after all that
\* have been moved.
LEMMA NextRecord ==
    ASSUME Phase2Inv, TreeInv, NEW w \in Workers, DrainRecord(w)
    PROVE  LET x == records[j[w]][k[w]][r[w] + 1] IN
           /\ x \in Own(j[w])
           /\ \A y \in Entries(tree[j[w]]) : y < x
           /\ k[w] \in Workers
           /\ r[w] < Len(records[j[w]][k[w]])
<1> DEFINE b == j[w]
           v == k[w]
           s == records[b][v]
           x == s[r[w] + 1]
<1>0. pc[w] = "drain" /\ ~SlotsDone(w) /\ r[w] < Len(s)
  BY DEF DrainRecord, At
<1>1. pc[w] \in Passed /\ b \in Buffers /\ v \in 0 .. NumThread /\ r[w] \in Nat /\ InProgress(w)
  BY <1>0, InSubtree
<1>2. v \in Workers
  BY <1>0, <1>1, NumThreadAssumption DEF SlotsDone, Workers
<1>3. s \in Seq(Records) /\ Entries(s) = OwnOf(b, v) /\ Ascending(s)
  BY <1>1, <1>2, SlotsFull
<1>4. Entries(tree[b]) = OwnBefore(b, v) \cup {s[m] : m \in 1 .. r[w]}
  BY <1>1 DEF InProgress, Moved
<1> HIDE DEF b, v, s
<1>5. r[w] + 1 \in DOMAIN s /\ \A m \in 1 .. r[w] : m \in DOMAIN s /\ m < r[w] + 1
  BY <1>0, <1>1, <1>3
<1>6. x \in OwnOf(b, v)
  BY <1>3, <1>5 DEF Entries
<1>7. \A m \in 1 .. r[w] : s[m] < x
  BY <1>3, <1>5 DEF Ascending
<1>8. \A y \in OwnBefore(b, v) : y < x
  BY <1>2, <1>6, OwnBeforeNext
<1>9. x \in Own(b)
  BY <1>2, <1>6, OwnOfIsOwn
<1> QED
  BY <1>0, <1>2, <1>4, <1>7, <1>8, <1>9 DEF b, v, s

LEMMA TreeDrainRecord ==
    ASSUME Phase2Inv, TreeInv, NEW w \in Workers, DrainRecord(w)
    PROVE  TreeInv'
<1> DEFINE b == j[w]
           s == records[b][k[w]]
           x == s[r[w] + 1]
<1>0. /\ pc[w] = "drain"
      /\ tree' = [tree EXCEPT ![b] = Append(@, x)]
      /\ r' = [r EXCEPT ![w] = @ + 1]
      /\ UNCHANGED <<mask, pc, records, node_counter, j, k, flushed>>
  BY DEF DrainRecord, At, phase1
<1>1. /\ b \in Buffers /\ Buffers \subseteq Nat /\ b < node_counter
      /\ r[w] \in Nat /\ r \in [Workers -> Nat] /\ k[w] \in 0 .. NumThread
      /\ tree \in [Buffers -> Seq(Records)]
      /\ InProgress(w)
      /\ node_counter \in Nat
      /\ \A v \in Workers : v # w /\ pc[v] = "drain" => j[v] # b
  BY <1>0, InSubtree
<1>2. /\ x \in Own(b) /\ x \in Records
      /\ \A y \in Entries(tree[b]) : y < x
      /\ r[w] < Len(s) /\ k[w] # NumThread
  BY NextRecord, NumThreadAssumption DEF Own, Workers
<1> HIDE DEF x
<1>3. /\ Entries(Append(tree[b], x)) = Entries(tree[b]) \cup {x}
      /\ Ascending(Append(tree[b], x))
  BY <1>1, <1>2, AppendGreatest DEF TreeInv
<1>4. /\ tree'[b] = Append(tree[b], x)
      /\ \A c \in Buffers : c # b => tree'[c] = tree[c]
      /\ r'[w] = r[w] + 1
      /\ \A v \in Workers : v # w => r'[v] = r[v]
  BY <1>0, <1>1
<1>5. InProgress(w)'
  <2>1. 1 .. r[w] + 1 = (1 .. r[w]) \cup {r[w] + 1}
    BY <1>1
  <2>2. {s[m] : m \in 1 .. r[w] + 1} = {s[m] : m \in 1 .. r[w]} \cup {x}
    BY <2>1 DEF x
  <2>3. OwnBefore(j[w], k[w])' = OwnBefore(b, k[w])
    BY <1>0 DEF OwnBefore, Begin, Start
  <2>4. Moved(w)' = Moved(w) \cup {x}
    <3>1. {records'[j'[w]][k'[w]][m] : m \in 1 .. r'[w]} = {s[m] : m \in 1 .. r[w] + 1}
      BY <1>0, <1>4
    <3>2. Moved(w)' = OwnBefore(b, k[w]) \cup {s[m] : m \in 1 .. r[w] + 1}
      BY <2>3, <3>1 DEF Moved
    <3> QED
      BY <2>2, <3>2 DEF Moved
  <2>5. Entries(tree'[j'[w]]) = Moved(w) \cup {x}
    BY <1>0, <1>1, <1>3, <1>4 DEF InProgress
  <2>6. k[w] < NumThread => r[w] + 1 <= Len(s)
    <3> SUFFICES ASSUME k[w] < NumThread PROVE r[w] + 1 <= Len(s)
      OBVIOUS
    <3>1. s \in Seq(Records)
      BY <1>0, <1>1, <1>2, InSubtree, SlotsFull, NextRecord
    <3> QED
      BY <1>1, <1>2, <3>1
  <2> QED
    <3>1. Entries(tree'[j'[w]]) = Moved(w)'
      BY <2>4, <2>5
    <3>2. k'[w] < NumThread => r'[w] <= Len(records'[j'[w]][k'[w]])
      BY <1>0, <1>4, <2>6
    <3>3. k'[w] # NumThread /\ j'[w] \notin flushed'
      BY <1>0, <1>1, <1>2 DEF InProgress
    <3> QED
      BY <3>1, <3>2, <3>3 DEF InProgress, Entries
<1>6. ASSUME NEW v \in Workers, pc[v] = "drain", v # w PROVE InProgress(v)'
  <2>1. j[v] \in Buffers
    BY <1>6, InSubtree
  <2>2. tree'[j[v]] = tree[j[v]]
    BY <1>1, <1>4, <1>6, <2>1
  <2> QED
    BY <1>0, <1>4, <1>6, <2>2, DrainingFrame DEF TreeInv
<1>7. ASSUME NEW c \in Buffers, c # b
      PROVE  Ascending(tree[c])' /\ (Finished(c)' <=> Finished(c)) /\ (Busy(c)' <=> Busy(c))
  BY <1>0, <1>4, <1>7 DEF TreeInv, Ascending, Finished, Own, Entries, Busy
<1>8. Busy(b)' /\ Ascending(tree'[b])
  BY <1>0, <1>3, <1>4 DEF Busy
<1>9. ASSUME NEW c \in Buffers PROVE Ascending(tree'[c])
  BY <1>7, <1>8 DEF Ascending
<1>10. ASSUME NEW c \in Buffers, c >= node_counter PROVE tree'[c] = <<>> /\ c \notin flushed
  <2>1. c # b
    BY <1>1, <1>10
  <2> QED
    BY <1>4, <1>10, <2>1 DEF TreeInv
<1>11. ASSUME NEW c \in Buffers, c < node_counter, ~Busy(c)' PROVE Finished(c)'
  <2>1. c # b
    BY <1>0, <1>11 DEF Busy
  <2> QED
    BY <1>7, <1>11, <2>1 DEF TreeInv
<1> QED
  BY <1>0, <1>5, <1>6, <1>9, <1>10, <1>11 DEF TreeInv, Ascending

LEMMA TreeNextSlot ==
    ASSUME Phase2Inv, TreeInv, NEW w \in Workers, NextSlot(w)
    PROVE  TreeInv'
<1> DEFINE b == j[w]
           v == k[w]
           s == records[b][v]
<1>0. /\ pc[w] = "drain" /\ ~SlotsDone(w) /\ r[w] >= Len(s)
      /\ k' = [k EXCEPT ![w] = @ + 1]
      /\ r' = [r EXCEPT ![w] = 0]
      /\ UNCHANGED <<mask, pc, records, node_counter, j, tree, flushed>>
  BY DEF NextSlot, At, phase1
<1>1. /\ pc[w] \in Passed /\ b \in Buffers
      /\ v \in 0 .. NumThread /\ r[w] \in Nat /\ InProgress(w)
      /\ k \in [Workers -> 0 .. NumThread] /\ r \in [Workers -> Nat]
  BY <1>0, InSubtree
<1>2. v \in Workers
  BY <1>0, <1>1, NumThreadAssumption DEF SlotsDone, Workers
<1>3. s \in Seq(Records) /\ Entries(s) = OwnOf(b, v)
  BY <1>1, <1>2, SlotsFull
<1>4. r[w] = Len(s)
  <2>1. v < NumThread
    BY <1>2, NumThreadAssumption DEF Workers
  <2>2. r[w] <= Len(s)
    BY <1>1, <2>1 DEF InProgress
  <2>3. Len(s) \in Nat
    BY <1>3
  <2> QED
    BY <1>0, <1>1, <2>2, <2>3
<1>5. Moved(w) = OwnBefore(b, v + 1)
  <2>1. {s[m] : m \in 1 .. r[w]} = Entries(s)
    BY <1>3, <1>4 DEF Entries
  <2>2. Moved(w) = OwnBefore(b, v) \cup OwnOf(b, v)
    BY <1>3, <2>1 DEF Moved
  <2> QED
    BY <1>2, <2>2, OwnBeforeNext
<1>6. /\ k'[w] = v + 1 /\ r'[w] = 0
      /\ \A u \in Workers : u # w => k'[u] = k[u] /\ r'[u] = r[u]
  BY <1>0, <1>1
<1>7. InProgress(w)'
  <2>1. OwnBefore(j[w], k[w])' = OwnBefore(b, v + 1)
    BY <1>0, <1>6 DEF OwnBefore, Begin, Start
  <2>2. {records'[j'[w]][k'[w]][m] : m \in 1 .. r'[w]} = {}
    BY <1>6
  <2>3. Moved(w)' = OwnBefore(b, v + 1)
    BY <2>1, <2>2 DEF Moved
  <2>4. Entries(tree'[j'[w]]) = OwnBefore(b, v + 1)
    BY <1>0, <1>1, <1>5 DEF InProgress
  <2>5. k'[w] < NumThread => 0 <= Len(records'[j'[w]][k'[w]])
    <3> SUFFICES ASSUME v + 1 < NumThread PROVE 0 <= Len(records[b][v + 1])
      BY <1>0, <1>6
    <3>1. v + 1 \in Workers
      BY <1>2, NumThreadAssumption DEF Workers
    <3>2. records[b][v + 1] \in Seq(Records)
      BY <1>1, <3>1, SlotsFull
    <3> QED
      BY <3>2
  <2>6. j'[w] \notin flushed'
    BY <1>0, <1>1 DEF InProgress
  <2> QED
    BY <1>6, <2>3, <2>4, <2>5, <2>6 DEF InProgress, Entries
<1>8. ASSUME NEW u \in Workers, pc[u] = "drain" PROVE InProgress(u)'
  BY <1>0, <1>6, <1>7, <1>8, DrainingFrame DEF TreeInv
<1>9. \A c \in Buffers : (Busy(c)' <=> Busy(c)) /\ (Finished(c)' <=> Finished(c))
  BY <1>0 DEF Busy, Finished, Own, Entries
<1> QED
  BY <1>0, <1>8, <1>9 DEF TreeInv, Ascending

LEMMA TreeFlush ==
    ASSUME Phase2Inv, TreeInv, NEW w \in Workers, Flush(w)
    PROVE  TreeInv'
<1> DEFINE b == j[w]
<1>0. /\ pc[w] = "drain" /\ SlotsDone(w)
      /\ flushed' = IF \E v \in Workers : records[b][v] # <<>>
                    THEN flushed \cup {b} ELSE flushed
      /\ pc' = [pc EXCEPT ![w] = "claim"]
      /\ UNCHANGED <<mask, records, node_counter, j, k, r, tree>>
  BY DEF Flush, At, Goto, phase1
<1>1. /\ pc[w] \in Passed /\ b \in Buffers /\ k[w] \in 0 .. NumThread /\ InProgress(w)
      /\ pc \in [Workers -> Programs]
      /\ Buffers \subseteq Nat /\ b < node_counter /\ node_counter \in Nat
      /\ tree \in [Buffers -> Seq(Records)]
      /\ \A v \in Workers : v # w /\ pc[v] = "drain" => j[v] # b
  BY <1>0, InSubtree
<1>2. k[w] = NumThread
  BY <1>0, <1>1, NumThreadAssumption DEF SlotsDone
<1>3. Entries(tree[b]) = Own(b)
  <2>1. 1 .. r[w] = {}
    BY <1>1, <1>2 DEF InProgress
  <2>2. Moved(w) = OwnBefore(b, NumThread)
    BY <1>2, <2>1 DEF Moved
  <2> QED
    BY <1>1, <2>2, OwnEnds DEF InProgress
<1>4. b \in flushed' <=> tree[b] # <<>>
  <2>1. b \notin flushed
    BY <1>1 DEF InProgress
  <2>2. b \in flushed' <=> Own(b) # {}
    BY <1>0, <1>1, <2>1, OwnNotEmpty
  <2>3. tree[b] # <<>> <=> Entries(tree[b]) # {}
    <3> SUFFICES ASSUME NEW t \in Seq(Records) PROVE t # <<>> <=> Entries(t) # {}
      BY <1>1
    <3>1. t # <<>> => 1 \in DOMAIN t
      OBVIOUS
    <3>2. t = <<>> => DOMAIN t = {}
      OBVIOUS
    <3> QED
      BY <3>1, <3>2 DEF Entries
  <2> QED
    BY <1>3, <2>2, <2>3
<1>5. \A v \in Workers : /\ pc'[v] = "drain" <=> pc[v] = "drain" /\ v # w
                         /\ pc'[v] = "exit" => pc[v] = "exit"
  BY <1>0, <1>1
<1>6. \A c \in Buffers : c # b => (c \in flushed' <=> c \in flushed)
  BY <1>0
<1>7. ASSUME NEW v \in Workers, pc'[v] = "drain" PROVE InProgress(v)'
  <2>1. pc[v] = "drain" /\ v # w
    BY <1>5, <1>7
  <2>2. j[v] \in Buffers /\ j[v] # b /\ InProgress(v)
    BY <1>1, <2>1, InSubtree
  <2>3. j'[v] \notin flushed'
    BY <1>0, <1>6, <2>2 DEF InProgress
  <2>4. OwnBefore(j[v], k[v])' = OwnBefore(j[v], k[v])
    BY <1>0 DEF OwnBefore, Begin, Start
  <2>5. Moved(v)' = Moved(v)
    BY <1>0, <2>4 DEF Moved
  <2> QED
    BY <1>0, <2>2, <2>3, <2>5 DEF InProgress, Entries
<1>8. ASSUME NEW c \in Buffers, c >= node_counter PROVE tree'[c] = <<>> /\ c \notin flushed'
  <2>1. c # b
    BY <1>1, <1>8
  <2> QED
    BY <1>0, <1>6, <1>8, <2>1 DEF TreeInv
<1>9. ASSUME NEW c \in Buffers, c < node_counter, ~Busy(c)' PROVE Finished(c)'
  <2>1. CASE c = b
    BY <1>0, <1>3, <1>4, <2>1 DEF Finished, Entries, Own
  <2>2. CASE c # b
    <3>1. ~Busy(c)
      BY <1>0, <1>5, <1>9, <2>2 DEF Busy
    <3>2. Finished(c)
      BY <1>9, <3>1 DEF TreeInv
    <3> QED
      BY <1>0, <1>6, <2>2, <3>2 DEF Finished, Entries, Own
  <2> QED
    BY <2>1, <2>2
<1> QED
  BY <1>0, <1>5, <1>7, <1>8, <1>9 DEF TreeInv, Ascending

LEMMA TreeNext == Phase2Inv /\ TreeInv /\ [Next]_vars => TreeInv'
<1> SUFFICES ASSUME Phase2Inv, TreeInv, [Next]_vars PROVE TreeInv'
  OBVIOUS
<1>0. pc \in [Workers -> Programs]
  BY DEF Phase2Inv, TypeInv, TypeOK
<1>1. ASSUME NEW w \in Workers, Barrier(w) PROVE TreeInv'
  <2>1. /\ UNCHANGED <<mask, records, node_counter, j, k, r, tree, flushed>>
        /\ pc[w] = "barrier" /\ pc' = [pc EXCEPT ![w] = "claim"]
    BY <1>1 DEF Barrier, phase1, phase2, At, Goto
  <2> QED
    BY <1>0, <2>1, TreeFrame
<1>2. CASE Create
  <2>1. /\ UNCHANGED <<mask, records, node_counter, j, k, r, tree, flushed>>
        /\ created \in Workers /\ pc[created] = "idle"
        /\ pc' = [pc EXCEPT ![created] = "test"]
    BY <1>2, NumThreadAssumption DEF Create, phase1, phase2, Goto, Phase2Inv,
                                     TypeInv, TypeOK, NotCreated, Workers
  <2> QED
    BY <1>0, <2>1, TreeFrame
<1>3. CASE Join \/ UNCHANGED vars
  <2>1. UNCHANGED <<mask, pc, records, node_counter, j, k, r, tree, flushed>>
    BY <1>3 DEF Join, vars, phase1, phase2
  <2> QED
    BY <2>1, TreeFrame
<1> QED
  BY <1>1, <1>2, <1>3, TreeInsert, TreeClaim, TreeDrainRecord, TreeNextSlot,
     TreeFlush DEF Next, Worker, Drain, Done

-----------------------------------------------------------------------------
(* The whole build.                                                        *)

Account ==
    /\ main = "done" => \A w \in Workers : pc[w] = "exit"
    /\ total_records = IF main = "done" THEN NumRecords ELSE 0

BuildInv == Phase2Inv /\ TreeInv /\ Account

LEMMA AccountNext == TypeInv /\ Account /\ [Next]_vars => Account'
<1> SUFFICES ASSUME TypeInv, Account, [Next]_vars PROVE Account'
  OBVIOUS
<1>0. pc \in [Workers -> Programs] /\ NumRecords \in Nat
  BY NumRecordsAssumption DEF TypeInv, TypeOK
<1>1. ASSUME NEW w \in Workers, Worker(w) PROVE Account'
  <2>1. pc[w] # "exit"
    BY <1>1 DEF Worker, Insert, Test, Lock, Alloc, Publish, Link, Clear, Count,
                Append_, Barrier, Drain, Claim, DrainRecord, NextSlot, Flush, At
  <2>2. UNCHANGED <<main, total_records>>
    BY <1>1 DEF Worker, Insert, Test, Lock, Alloc, Publish, Link, Clear, Count,
                Append_, Barrier, Drain, Claim, DrainRecord, NextSlot, Flush, caller
  <2> QED
    BY <2>1, <2>2 DEF Account
<1>2. CASE Create
  BY <1>2 DEF Create, Account
<1>3. CASE Join
  BY <1>0, <1>3 DEF Join, Account, At
<1>4. CASE UNCHANGED vars
  BY <1>4 DEF vars, caller, Account
<1> QED
  BY <1>1, <1>2, <1>3, <1>4 DEF Next, Done

LEMMA BuildInvariant == Spec => []BuildInv
<1>1. Init => BuildInv
  <2> SUFFICES ASSUME Init PROVE BuildInv
    OBVIOUS
  <2>1. ClaimInv /\ SlicesDone /\ Needed /\ Account
    BY DEF Init, ClaimInv, OneWorkerPerSubtree, SlicesDone, Needed, Account, At,
           Arrived, Passed, Draining
  <2> QED
    BY <2>1, TypeInit, BarrierInit, SlotInit, TreeInit DEF BuildInv, Phase2Inv
<1>2. BuildInv /\ [Next]_vars => BuildInv'
  BY TypeNext, BarrierNext, ClaimNext, SlotNext, SlicesDoneNext, NeededNext,
     TreeNext, AccountNext DEF BuildInv, Phase2Inv
<1> QED
  BY <1>1, <1>2, PTL DEF Spec

\* A subtree never holds anything but records of its buffer.
LEMMA OnlyOwn ==
    ASSUME BuildInv, NEW b \in Buffers
    PROVE  Entries(tree[b]) \subseteq Own(b)
<1>1. CASE b >= node_counter
  BY <1>1 DEF BuildInv, TreeInv, Entries
<1>2. CASE Busy(b)
  <2>1. PICK w \in Workers : pc[w] = "drain" /\ j[w] = b
    BY <1>2 DEF Busy
  <2> DEFINE v == k[w]
             s == records[b][v]
  <2>2. pc[w] \in Passed /\ v \in 0 .. NumThread /\ r[w] \in Nat /\ InProgress(w)
    BY <2>1, InSubtree DEF BuildInv
  <2>3. Entries(tree[b]) = OwnBefore(b, v) \cup {s[m] : m \in 1 .. r[w]}
    BY <2>1, <2>2 DEF InProgress, Moved
  <2>4. OwnBefore(b, v) \subseteq Own(b)
    <3>1. CASE v = NumThread
      BY <3>1, OwnEnds
    <3>2. CASE v # NumThread
      <4>1. v \in Workers
        BY <2>2, <3>2, NumThreadAssumption DEF Workers
      <4>2. Start(v) \in Nat /\ Start(v) <= NumRecords /\ Begin(v) = Start(v)
        BY <4>1, SliceBounds, SlicesMeet, NumRecordsAssumption
      <4> QED
        BY <4>2, NumRecordsAssumption DEF OwnBefore, Own, Records
    <3> QED
      BY <3>1, <3>2
  <2>5. ASSUME NEW m \in 1 .. r[w] PROVE s[m] \in Own(b)
    <3>1. v \in Workers
      BY <2>2, <2>5, NumThreadAssumption DEF InProgress, Workers
    <3>2. s \in Seq(Records) /\ Entries(s) = OwnOf(b, v)
      BY <2>2, <3>1, SlotsFull DEF BuildInv
    <3>3. r[w] <= Len(s)
      BY <2>1, <2>2, <3>1, NumThreadAssumption DEF InProgress, Workers
    <3>4. m \in DOMAIN s
      BY <2>2, <2>5, <3>2, <3>3
    <3> QED
      BY <3>1, <3>2, <3>4, OwnOfIsOwn DEF Entries
  <2> QED
    BY <2>3, <2>4, <2>5
<1>3. CASE b < node_counter /\ ~Busy(b)
  BY <1>3 DEF BuildInv, TreeInv, Finished
<1> QED
  BY <1>1, <1>2, <1>3 DEF BuildInv, Phase2Inv, TypeInv, TypeOK, Buffers

\* At the end every buffer is finished.
LEMMA AllFinished ==
    ASSUME BuildInv, \A w \in Workers : pc[w] = "exit", NEW b \in Buffers
    PROVE  Finished(b)
<1>1. 0 \in Workers
  BY NumThreadAssumption DEF Workers
<1>2. node_counter >= NumBuffers
  BY <1>1 DEF BuildInv, TreeInv
<1>3. b < node_counter
  BY <1>2, NumBuffersAssumption DEF BuildInv, Phase2Inv, TypeInv, TypeOK, Buffers
<1> QED
  BY <1>3 DEF BuildInv, TreeInv, Busy

\* The order of a subtree's records keeps two places from holding the same one.
LEMMA OnceOnly == BuildInv => EachRecordOnce
<1> SUFFICES ASSUME BuildInv, NEW b \in Buffers,
                    NEW m \in DOMAIN tree[b], NEW n \in DOMAIN tree[b]
             PROVE  /\ mask[tree[b][n]] = b
                    /\ tree[b][m] = tree[b][n] => m = n
  BY DEF EachRecordOnce
<1>1. mask[tree[b][n]] = b
  BY OnlyOwn DEF Entries, Own
<1>2. tree[b] \in Seq(Records)
  BY DEF BuildInv, Phase2Inv, TypeInv, TypeOK
<1>3. m \in Nat /\ n \in Nat /\ tree[b][m] \in Int /\ tree[b][n] \in Int
  <2>1. m \in 1 .. Len(tree[b]) /\ n \in 1 .. Len(tree[b]) /\ Len(tree[b]) \in Nat
    BY <1>2
  <2>2. tree[b][m] \in Records /\ tree[b][n] \in Records
    BY <1>2, <2>1
  <2> QED
    BY <2>1, <2>2, NumRecordsAssumption DEF Records
<1>4. /\ m < n => tree[b][m] < tree[b][n]
      /\ n < m => tree[b][n] < tree[b][m]
  BY DEF BuildInv, TreeInv, Ascending
<1> QED
  BY <1>1, <1>3, <1>4

\* Whatever the threads do in phase 2, no record is moved to a subtree that is
\* not its own, or twice.
THEOREM MovedOnce == Spec => []EachRecordOnce
  BY OnceOnly, BuildInvariant, PTL

\* The places of the moved records correspond one to one to the records.
LEMMA AllCounted ==
    ASSUME BuildInv, \A w \in Workers : pc[w] = "exit"
    PROVE  Cardinality(UNION {{<<b, n>> : n \in DOMAIN tree[b]} : b \in Buffers})
               = NumRecords
<1> DEFINE Cells == UNION {{<<b, n>> : n \in DOMAIN tree[b]} : b \in Buffers}
           At_(c) == tree[c[1]][c[2]]
           f == [c \in Cells |-> At_(c)]
<1>0. EachRecordOnce
  BY OnceOnly
<1>1. \A b \in Buffers : Entries(tree[b]) = Own(b)
  BY AllFinished DEF Finished
<1>2. \A c \in Cells : c[1] \in Buffers /\ c[2] \in DOMAIN tree[c[1]] /\ c = <<c[1], c[2]>>
  OBVIOUS
<1>3. \A c \in Cells : At_(c) \in Records /\ mask[At_(c)] = c[1]
  BY <1>1, <1>2 DEF Entries, Own
<1>4. \A c, d \in Cells : At_(c) = At_(d) => c = d
  <2> SUFFICES ASSUME NEW c \in Cells, NEW d \in Cells, At_(c) = At_(d) PROVE c = d
    OBVIOUS
  <2>1. c[1] = d[1]
    BY <1>3
  <2>2. c[2] = d[2]
    BY <1>0, <1>2, <2>1 DEF EachRecordOnce
  <2> QED
    BY <1>2, <2>1, <2>2
<1>5. ASSUME NEW x \in Records PROVE \E c \in Cells : At_(c) = x
  <2>1. mask[x] \in Buffers
    BY DEF BuildInv, Phase2Inv, TypeInv, TypeOK
  <2>2. x \in Entries(tree[mask[x]])
    BY <1>1, <2>1 DEF Own
  <2>3. PICK n \in DOMAIN tree[mask[x]] : tree[mask[x]][n] = x
    BY <2>2 DEF Entries
  <2>4. <<mask[x], n>> \in Cells
    BY <2>1
  <2> QED
    BY <2>3, <2>4
<1> HIDE DEF Cells
<1>6. f \in Bijection(Cells, Records)
  BY <1>3, <1>4, <1>5 DEF Bijection, Injection, Surjection, IsInjective
<1>7. ExistsBijection(Cells, Records)
  BY <1>6, Fun_ExistsBij
<1>8. ExistsBijection(Records, Cells)
  BY <1>7, Fun_ExistsBijSymmetric
<1>9. IsFiniteSet(Records) /\ Cardinality(Records) = NumRecords
  BY FS_Interval, NumRecordsAssumption DEF Records
<1>10. Cardinality(Cells) = NumRecords
  BY <1>8, <1>9, FS_Bijection
<1> QED
  BY <1>10 DEF Cells

\* When index_creation returns, every record is in a subtree, in the order of
\* the file; just the subtrees that have one are flushed; and the count is right.
THEOREM BuildIsComplete == Spec => []Complete
<1>1. BuildInv => Complete
  <2> SUFFICES ASSUME BuildInv, main = "done" PROVE
          /\ \A b \in Buffers : b \in flushed <=> tree[b] # <<>>
          /\ \A b \in Buffers : Ascending(tree[b])
          /\ {b \in Buffers : initialized[b]} = flushed
          /\ total_records =
               Cardinality(UNION {{<<b, n>> : n \in DOMAIN tree[b]} : b \in Buffers})
    BY DEF Complete, Ascending
  <2>1. \A w \in Workers : pc[w] = "exit" /\ pc[w] \in Passed
    BY DEF BuildInv, Account, Passed
  <2>2. \A b \in Buffers : Finished(b)
    BY <2>1, AllFinished
  <2>3. ASSUME NEW b \in Buffers PROVE b \in flushed <=> initialized[b]
    <3>1. 0 \in Workers
      BY NumThreadAssumption DEF Workers
    <3>2. /\ Own(b) # {} <=> \E v \in Workers : records[b][v] # <<>>
          /\ ~initialized[b] => Own(b) = {}
      BY <2>1, <3>1, OwnNotEmpty DEF BuildInv
    <3>3. initialized[b] => \E v \in Workers : records[b][v] # <<>>
      BY <2>1 DEF BuildInv, Phase2Inv, Needed, Creating
    <3>4. b \in flushed <=> tree[b] # <<>>
      BY <2>2 DEF Finished
    <3>5. tree[b] # <<>> <=> Own(b) # {}
      <4>1. tree[b] \in Seq(Records) /\ Entries(tree[b]) = Own(b)
        BY <2>2 DEF Finished, BuildInv, Phase2Inv, TypeInv, TypeOK
      <4>2. CASE tree[b] = <<>>
        BY <4>1, <4>2 DEF Entries
      <4>3. CASE tree[b] # <<>>
        <5>1. 1 \in DOMAIN tree[b]
          BY <4>1, <4>3
        <5> QED
          BY <4>1, <4>3, <5>1 DEF Entries
      <4> QED
        BY <4>2, <4>3
    <3> QED
      BY <3>2, <3>3, <3>4, <3>5
  <2>4. flushed \in SUBSET Buffers
    BY DEF BuildInv, Phase2Inv, TypeInv, TypeOK
  <2>5. total_records = NumRecords
    BY DEF BuildInv, Account
  <2> QED
    BY <2>1, <2>2, <2>3, <2>4, <2>5, AllCounted DEF Finished, BuildInv, TreeInv
<1> QED
  BY <1>1, BuildInvariant, PTL

-----------------------------------------------------------------------------
(* The step simulation.                                                    *)

\* Every behaviour of the threads is one of IndexBuild, fairness aside: moving a
\* record is an insertion, the last join the end, and nothing else shows.
THEOREM ThreadsImplementBuild == Spec => Build!Init /\ [][Build!Next]_(Build!vars)
<1>1. Init => Build!Init
  <2> SUFFICES ASSUME Init PROVE Build!Init
    OBVIOUS
  <2>1. [b \in Buffers |-> {tree[b][n] : n \in DOMAIN tree[b]}] = [b \in Buffers |-> {}]
    BY DEF Init
  <2> QED
    BY <2>1 DEF Init, Build!Init
<1>2. BuildInv /\ [Next]_vars => [Build!Next]_(Build!vars)
  <2> DEFINE indexed == [b \in Buffers |-> {tree[b][n] : n \in DOMAIN tree[b]}]
  <2> SUFFICES ASSUME BuildInv, [Next]_vars PROVE [Build!Next]_(Build!vars)
    OBVIOUS
  <2>1. UNCHANGED <<mask, tree, main>> => UNCHANGED Build!vars
    BY DEF Build!vars
  <2>2. ASSUME NEW w \in Workers, DrainRecord(w) PROVE Build!Next
    <3> DEFINE b == j[w]
               x == records[b][k[w]][r[w] + 1]
    <3>1. /\ pc[w] = "drain" /\ UNCHANGED <<mask, main>>
          /\ tree' = [tree EXCEPT ![b] = Append(@, x)]
      BY <2>2 DEF DrainRecord, At, caller
    <3>2. b \in Buffers /\ tree \in [Buffers -> Seq(Records)]
      BY <3>1, InSubtree DEF BuildInv
    <3>3. x \in Own(b) /\ \A y \in Entries(tree[b]) : y < x
      BY <2>2, NextRecord DEF BuildInv
    <3> HIDE DEF x
    <3>4. x \in Records /\ mask[x] = b
      BY <3>3 DEF Own
    <3>5. main # "done"
      BY <3>1 DEF BuildInv, Account
    <3>6. ASSUME NEW c \in Buffers PROVE x \notin indexed[c]
      <4>1. CASE c = b
        <5>1. x \in Int
          BY <3>4, NumRecordsAssumption DEF Records
        <5> QED
          BY <3>3, <4>1, <5>1 DEF Entries
      <4>2. CASE c # b
        BY <3>4, <4>2, OnlyOwn DEF Entries, Own
      <4> QED
        BY <4>1, <4>2
    <3>7. indexed' = [indexed EXCEPT ![mask[x]] = @ \cup {x}]
      <4>1. Entries(Append(tree[b], x)) = Entries(tree[b]) \cup {x}
        BY <3>2, <3>3, <3>4, AppendGreatest DEF BuildInv, TreeInv
      <4>2. tree'[b] = Append(tree[b], x) /\ \A c \in Buffers : c # b => tree'[c] = tree[c]
        BY <3>1, <3>2
      <4>3. indexed'[b] = indexed[b] \cup {x}
        <5>1. \A c \in Buffers : /\ indexed[c] = Entries(tree[c])
                                 /\ indexed'[c] = Entries(tree'[c])
          BY DEF Entries
        <5> HIDE DEF indexed
        <5> QED
          BY <3>2, <4>1, <4>2, <5>1
      <4>4. \A c \in Buffers : c # b => indexed'[c] = indexed[c]
        BY <4>2
      <4> QED
        BY <3>2, <3>4, <4>3, <4>4
    <3> QED
      BY <3>1, <3>4, <3>5, <3>6, <3>7 DEF Build!Next, Build!Insert
  <2>3. CASE Join
    <3>1. /\ main = "join" /\ main' = "done" /\ UNCHANGED <<mask, tree>>
          /\ \A w \in Workers : pc[w] = "exit"
      BY <2>3 DEF Join, At, phase2
    <3>2. ASSUME NEW x \in Records PROVE mask[x] \in Buffers /\ x \in indexed[mask[x]]
      <4>1. mask[x] \in Buffers
        BY DEF BuildInv, Phase2Inv, TypeInv, TypeOK
      <4>2. x \in Entries(tree[mask[x]])
        BY <3>1, <4>1, AllFinished DEF Finished, Own
      <4> QED
        BY <4>1, <4>2 DEF Entries
    <3> QED
      BY <3>1, <3>2 DEF Build!Next, Build!Finish
  <2>4. CASE Create
    <3>1. UNCHANGED <<mask, tree>> /\ main # "done" /\ main' # "done"
      BY <2>4 DEF Create, phase2
    <3> QED
      BY <3>1 DEF Build!vars
  <2>5. ASSUME NEW w \in Workers, Insert(w) \/ Barrier(w) \/ Claim(w) \/ NextSlot(w) \/ Flush(w)
        PROVE  UNCHANGED <<mask, tree, main>>
    BY <2>5 DEF Insert, Test, Lock, Alloc, Publish, Link, Clear, Count, Append_,
                Barrier, Claim, NextSlot, Flush, phase2, caller
  <2>6. UNCHANGED vars => UNCHANGED <<mask, tree, main>>
    BY DEF vars, phase2, caller
  <2> QED
    BY <2>1, <2>2, <2>3, <2>4, <2>5, <2>6 DEF Next, Worker, Drain, Done
<1> QED
  BY <1>1, <1>2, BuildInvariant, PTL DEF Spec
=============================================================================
