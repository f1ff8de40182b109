--------------------- MODULE ParallelCandidatesProofs ---------------------
(***************************************************************************)
(* Theorems about ParallelCandidates, for every number of threads, list of *)
(* leaves, limit and layout of the words of the bit vector.                *)
(***************************************************************************)
EXTENDS ParallelCandidates, InductionLemmas

ProgramPoints == {"take", "check", "read", "write", "finish", "test", "end"}
Scanning == {"read", "write"}
Holding == {"check"} \cup Scanning

-----------------------------------------------------------------------------
(* Type correctness, and which thread has which leaf.                      *)

Types ==
    /\ leaf_nodes \in Seq(Seq(Dataset))
    /\ next \in 1 .. Count + 1
    /\ pc \in [Threads -> ProgramPoints]
    /\ i \in [Threads -> 0 .. Count]
    /\ at \in [Threads -> Nat \ {0}]
    /\ num \in [Threads -> Nat]
    /\ last \in [Threads -> Nat]
    /\ finished \in Nat
    /\ stop \in BOOLEAN
    /\ done \in BOOLEAN
    /\ isCandidate \subseteq Dataset
    /\ word \in [Threads -> SUBSET Dataset]
    /\ scanner \in [1 .. Count -> 0 .. NumThread]

\* The leaves handed out are each in one hand, and are scanned by that hand.
Hands ==
    /\ \A t \in Threads : pc[t] \in Holding => i[t] \in 1 .. next - 1
    /\ \A t, u \in Threads : t # u /\ pc[t] \in Holding /\ pc[u] \in Holding => i[t] # i[u]
    /\ \A t \in Threads : pc[t] = "check" => scanner[i[t]] = 0
    /\ \A t \in Threads : pc[t] \in Scanning => scanner[i[t]] = t
    /\ \A l \in 1 .. Count : l >= next => scanner[l] = 0
    /\ \A t \in Threads : pc[t] = "write" => at[t] \in DOMAIN leaf_nodes[i[t]]

\* last_node_index_each_thread is where the thread has scanned last.
Lasts == \A t \in Threads : last[t] = 1 \/ (last[t] \in 1 .. next - 1 /\ scanner[last[t]] = t)

\* The loop is over when no iteration is left, and the copy when the loop is.
Ends == /\ \A t \in Threads : pc[t] = "end" => next = Count + 1
        /\ done => \A t \in Threads : pc[t] = "end"
        /\ ~done => nodes = {}
        /\ done => isCandidate = nodes

LoopInv == Types /\ Hands /\ Lasts /\ Ends

LEMMA LeafFacts ==
    ASSUME Types, NEW l \in 1 .. Count
    PROVE  /\ leaf_nodes[l] \in Seq(Dataset)
           /\ Len(leaf_nodes[l]) \in Nat
           /\ DOMAIN leaf_nodes[l] = 1 .. Len(leaf_nodes[l])
           /\ Points(l) \subseteq Dataset
           /\ IsFiniteSet(Points(l))
<1>1. leaf_nodes[l] \in Seq(Dataset)
  BY DEF Types, Count
<1>2. IsFiniteSet(Points(l))
  BY <1>1, FiniteRange DEF Points, ToSet
<1>3. Points(l) \subseteq Dataset
  BY <1>1 DEF Points, ToSet
<1> QED
  BY <1>1, <1>2, <1>3

LEMMA CountIsNat == ASSUME Types PROVE Count \in Nat
  BY DEF Types, Count

\* last_node_index is one of the threads', and none of them is further.
LEMMA LastIndexIsMax ==
    ASSUME Types
    PROVE  /\ LastIndex \in Nat
           /\ \E t \in Threads : last[t] = LastIndex
           /\ \A t \in Threads : last[t] <= LastIndex
<1>1. Range(last) = {last[t] : t \in Threads} /\ last \in [Threads -> Nat]
  BY DEF Types, Range
<1>2. IsFiniteSet(Threads) /\ 1 \in Threads
  BY FS_Interval, NumThreadAssumption DEF Threads
<1>3. last \in Surjection(Threads, Range(last))
  BY <1>1 DEF Surjection
<1>4. IsFiniteSet(Range(last))
  BY <1>2, <1>3, FS_Surjection
<1>5. \E x \in Range(last) : \A y \in Range(last) : y <= x
  <2>1. Range(last) \subseteq Nat /\ Range(last) # {}
    BY <1>1, <1>2
  <2> HIDE DEF Types
  <2> QED
    BY <1>4, <2>1, FiniteGreatest
<1>6. LastIndex \in Range(last) /\ \A y \in Range(last) : LastIndex >= y
  <2>1. \E x \in Range(last) : \A y \in Range(last) : x >= y
    BY <1>1, <1>5
  <2>2. LastIndex = CHOOSE x \in Range(last) : \A y \in Range(last) : x >= y
    BY DEF LastIndex, Max
  <2> QED
    BY <2>1, <2>2
<1> QED
  BY <1>1, <1>6

LEMMA FilledTypes ==
    ASSUME Types, NEW c \in SUBSET Dataset
    PROVE  Filled(c) \subseteq Dataset /\ c \subseteq Filled(c)
<1>1. Count \in Nat /\ LastIndex \in Nat
  BY CountIsNat, LastIndexIsMax
<1>2. ASSUME NEW l \in LastIndex + 1 .. Count, NEW x \in DOMAIN leaf_nodes[l]
      PROVE  leaf_nodes[l][x] \in Dataset
  <2>1. l \in 1 .. Count
    BY <1>1
  <2>2. leaf_nodes[l] \in Seq(Dataset)
    BY <2>1, LeafFacts
  <2> QED
    BY <2>2
<1> QED
  BY <1>2 DEF Filled

LEMMA LoopInit == Init => LoopInv
<1> SUFFICES ASSUME Init PROVE LoopInv
  OBVIOUS
<1>1. leaf_nodes \in Seq(Seq(Dataset)) /\ Count \in Nat
  BY LeafListsAssumption DEF Init, Count
<1>2. Types
  <2>1. /\ next \in 1 .. Count + 1 /\ scanner \in [1 .. Count -> 0 .. NumThread]
        /\ i \in [Threads -> 0 .. Count]
    BY <1>1, NumThreadAssumption DEF Init
  <2>2. /\ pc \in [Threads -> ProgramPoints] /\ at \in [Threads -> Nat \ {0}]
        /\ num \in [Threads -> Nat] /\ last \in [Threads -> Nat]
        /\ word \in [Threads -> SUBSET Dataset]
    BY DEF Init, ProgramPoints
  <2> QED
    BY <1>1, <2>1, <2>2 DEF Init, Types
<1>3. Hands /\ Lasts
  BY <1>1 DEF Init, Hands, Lasts, Holding, Scanning
<1>4. Ends
  BY DEF Init, Ends
<1> QED
  BY <1>2, <1>3, <1>4 DEF LoopInv

LEMMA TypesNext == LoopInv /\ [Next]_vars => Types'
<1> SUFFICES ASSUME LoopInv, [Next]_vars PROVE Types'
  OBVIOUS
<1> USE DEF Goto, At
<1>0. Types /\ Count \in Nat
  BY CountIsNat DEF LoopInv
<1>1. leaf_nodes' = leaf_nodes /\ Count' = Count
  BY DEF Next, Thread, Take, Check, Read, Write, Tally, Finish, Test, Collect, Done,
         vars, Count
<1>2. ASSUME NEW t \in Threads, Take(t) PROVE Types'
  <2>1. /\ next' \in 1 .. Count + 1 /\ i' \in [Threads -> 0 .. Count]
        /\ pc' \in [Threads -> ProgramPoints]
    <3>1. /\ next \in 1 .. Count + 1 /\ pc \in [Threads -> ProgramPoints]
          /\ i \in [Threads -> 0 .. Count]
      BY <1>0 DEF Types
    <3>2. CASE /\ next <= Count /\ i' = [i EXCEPT ![t] = next]
               /\ next' = next + 1 /\ pc' = [pc EXCEPT ![t] = "check"]
      BY <1>0, <3>1, <3>2 DEF ProgramPoints
    <3>3. CASE UNCHANGED <<i, next>> /\ pc' = [pc EXCEPT ![t] = "end"]
      BY <3>1, <3>3 DEF ProgramPoints
    <3> QED
      BY <1>2, <3>2, <3>3 DEF Take
  <2> QED
    BY <1>0, <1>1, <1>2, <2>1 DEF Take, Types, result
<1>3. ASSUME NEW t \in Threads, Check(t) PROVE Types'
  <2>1. i[t] \in 1 .. Count
    BY <1>0, <1>3 DEF Check, LoopInv, Hands, Holding, Types
  <2>2. /\ pc' \in [Threads -> ProgramPoints]
        /\ at' \in [Threads -> Nat \ {0}]
        /\ last' \in [Threads -> Nat]
    <3>1. /\ pc \in [Threads -> ProgramPoints] /\ at \in [Threads -> Nat \ {0}]
          /\ last \in [Threads -> Nat] /\ i[t] \in Nat
      BY <1>0, <2>1 DEF Types
    <3>2. pc' = [pc EXCEPT ![t] = "take"] \/ pc' = [pc EXCEPT ![t] = "read"]
      BY <1>3 DEF Check
    <3>3. \/ UNCHANGED <<at, last>>
          \/ at' = [at EXCEPT ![t] = 1] /\ last' = [last EXCEPT ![t] = i[t]]
      BY <1>3 DEF Check
    <3> QED
      BY <3>1, <3>2, <3>3 DEF ProgramPoints
  <2>3. scanner' \in [1 .. Count -> 0 .. NumThread]
    <3>1. t \in 0 .. NumThread /\ scanner \in [1 .. Count -> 0 .. NumThread]
      BY <1>0, NumThreadAssumption DEF Types, Threads
    <3>2. UNCHANGED scanner \/ scanner' = [scanner EXCEPT ![i[t]] = t]
      BY <1>3 DEF Check
    <3> QED
      BY <3>1, <3>2
  <2> QED
    BY <1>0, <1>1, <1>3, <2>2, <2>3 DEF Check, Types, result
<1>4. ASSUME NEW t \in Threads, Read(t) PROVE Types'
  <2>1. i[t] \in 1 .. Count /\ at[t] \in Nat \ {0}
    BY <1>0, <1>4 DEF Read, LoopInv, Hands, Holding, Scanning, Types
  <2>2. SameWord(Point(t)) \subseteq Dataset
    <3>1. isCandidate \subseteq Dataset
      BY <1>0 DEF Types
    <3> QED
      BY <3>1 DEF SameWord
  <2>3. pc' \in [Threads -> ProgramPoints] /\ word' \in [Threads -> SUBSET Dataset]
    BY <1>0, <1>4, <2>2 DEF Read, Types, ProgramPoints
  <2> QED
    BY <1>0, <1>1, <1>4, <2>3 DEF Read, Types, result
<1>5. ASSUME NEW t \in Threads, Write(t) PROVE Types'
  <2>1. pc' \in [Threads -> ProgramPoints] /\ at' \in [Threads -> Nat \ {0}]
    BY <1>0, <1>5 DEF Write, Types, ProgramPoints
  <2>2. Point(t) \in Dataset /\ word[t] \subseteq Dataset
    <3>1. i[t] \in 1 .. Count /\ at[t] \in DOMAIN leaf_nodes[i[t]]
      BY <1>0, <1>5 DEF Write, LoopInv, Hands, Holding, Scanning, Types
    <3> QED
      <4>1. leaf_nodes[i[t]] \in Seq(Dataset)
        BY <1>0, <3>1, LeafFacts
      <4>2. word[t] \in SUBSET Dataset
        BY <1>0 DEF Types
      <4> QED
        BY <3>1, <4>1, <4>2 DEF Point
  <2>3. isCandidate' \subseteq Dataset
    BY <1>0, <1>5, <2>2 DEF Write, Marked, Types
  <2> QED
    BY <1>0, <1>1, <1>5, <2>1, <2>3 DEF Write, Types, result
<1>6. ASSUME NEW t \in Threads, Tally(t) PROVE Types'
  <2>1. i[t] \in 1 .. Count
    BY <1>0, <1>6 DEF Tally, LoopInv, Hands, Holding, Scanning, Types
  <2>2. NewTally(t) \in Nat
    <3>1. Types /\ num[t] \in Nat
      BY <1>0 DEF Types
    <3>2. Len(leaf_nodes[i[t]]) \in Nat
      BY <2>1, <3>1, LeafFacts
    <3> QED
      BY <3>1, <3>2 DEF NewTally
  <2>3. pc' \in [Threads -> ProgramPoints] /\ num' \in [Threads -> Nat]
    BY <1>0, <1>6, <2>2 DEF Tally, Types, ProgramPoints
  <2> QED
    BY <1>0, <1>1, <1>6, <2>3 DEF Tally, Types, result
<1>7. ASSUME NEW t \in Threads, Finish(t) \/ Test(t) PROVE Types'
  <2>1. /\ pc' \in [Threads -> ProgramPoints] /\ finished' \in Nat /\ stop' \in BOOLEAN
    <3>1. /\ pc \in [Threads -> ProgramPoints] /\ finished \in Nat /\ stop \in BOOLEAN
      BY <1>0 DEF Types
    <3>2. CASE Finish(t)
      BY <3>1, <3>2 DEF Finish, ProgramPoints
    <3>3. CASE Test(t)
      <4>1. stop' \in BOOLEAN /\ UNCHANGED finished
        BY <3>1, <3>3 DEF Test
      <4> QED
        BY <3>1, <3>3, <4>1 DEF Test, AfterTest, ProgramPoints
    <3> QED
      BY <1>7, <3>2, <3>3
  <2> QED
    BY <1>0, <1>1, <1>7, <2>1 DEF Finish, Test, Types, result
<1>8. CASE Collect
  <2>1. isCandidate' \subseteq Dataset
    BY <1>0, <1>8, FilledTypes DEF Collect, Types
  <2> QED
    BY <1>0, <1>1, <1>8, <2>1 DEF Collect, Types
<1>9. CASE UNCHANGED vars
  BY <1>0, <1>1, <1>9 DEF vars, Types, result
<1> QED
  BY <1>2, <1>3, <1>4, <1>5, <1>6, <1>7, <1>8, <1>9 DEF Next, Thread, Done

\* One step of one thread leaves the others where they are.
LEMMA OthersStay ==
    ASSUME Types, NEW t \in Threads, Thread(t), NEW u \in Threads, u # t
    PROVE  pc'[u] = pc[u] /\ i'[u] = i[u] /\ at'[u] = at[u] /\ word'[u] = word[u]
           /\ num'[u] = num[u] /\ last'[u] = last[u]
<1>1. /\ pc \in [Threads -> ProgramPoints] /\ i \in [Threads -> 0 .. Count]
      /\ at \in [Threads -> Nat \ {0}] /\ word \in [Threads -> SUBSET Dataset]
      /\ num \in [Threads -> Nat] /\ last \in [Threads -> Nat]
  BY DEF Types
<1>2. CASE Take(t) \/ Check(t)
  BY <1>1, <1>2 DEF Take, Check, Goto
<1>3. CASE Read(t) \/ Write(t) \/ Tally(t)
  BY <1>1, <1>3 DEF Read, Write, Tally, Goto
<1>4. CASE Finish(t) \/ Test(t)
  BY <1>1, <1>4 DEF Finish, Test, Goto
<1> QED
  BY <1>2, <1>3, <1>4 DEF Thread

\* The lists, and what has been copied, are only changed by Collect.
LEMMA LeavesStay ==
    ASSUME [Next]_vars
    PROVE  /\ leaf_nodes' = leaf_nodes /\ Count' = Count
           /\ ~Collect => nodes' = nodes /\ done' = done /\ obtained' = obtained
  BY DEF Next, Thread, Take, Check, Read, Write, Tally, Finish, Test, Collect, Done,
         vars, result, Count

\* A leaf that has been scanned stays with the thread that has.
LEMMA ScannersStay ==
    ASSUME LoopInv, [Next]_vars
    PROVE  /\ next \in Nat /\ next' \in Nat /\ next <= next'
           /\ \A l \in 1 .. Count : scanner[l] # 0 => scanner'[l] = scanner[l]
           /\ \A l \in 1 .. Count : scanner'[l] # scanner[l] =>
                 \E t \in Threads : /\ Check(t) /\ ~stop /\ l = i[t] /\ scanner[l] = 0
                                    /\ scanner'[l] = t /\ l < next
<1> USE DEF Goto, At
<1>0. Types /\ Count \in Nat
  BY CountIsNat DEF LoopInv
<1>1. next \in Nat /\ next' \in Nat /\ next <= next'
  BY <1>0 DEF Types, Next, Thread, Take, Check, Read, Write, Tally, Finish, Test,
              Collect, Done, vars
<1>2. ASSUME NEW t \in Threads, Check(t)
      PROVE  \A l \in 1 .. Count : scanner'[l] # scanner[l] =>
                ~stop /\ l = i[t] /\ scanner[l] = 0 /\ scanner'[l] = t /\ l < next
  <2>1. i[t] \in 1 .. next - 1 /\ scanner[i[t]] = 0
    BY <1>2 DEF Check, LoopInv, Hands, Holding
  <2> QED
    BY <1>0, <1>1, <1>2, <2>1 DEF Check, Types
<1>3. (\A t \in Threads : ~Check(t)) => UNCHANGED scanner
  BY DEF Next, Thread, Take, Check, Read, Write, Tally, Finish, Test, Collect, Done, vars
<1> QED
  BY <1>1, <1>2, <1>3

LEMMA HandsNext == LoopInv /\ [Next]_vars => Hands'
<1> SUFFICES ASSUME LoopInv, [Next]_vars PROVE Hands'
  OBVIOUS
<1> USE DEF Goto, At
<1>0. Types /\ Hands /\ Count \in Nat /\ next \in 1 .. Count + 1
  BY CountIsNat DEF LoopInv, Types
<1>1. leaf_nodes' = leaf_nodes /\ Count' = Count
  BY LeavesStay
<1>2. /\ next \in Nat /\ next' \in Nat /\ next <= next'
      /\ \A l \in 1 .. Count : scanner[l] # 0 => scanner'[l] = scanner[l]
      /\ \A l \in 1 .. Count : scanner'[l] # scanner[l] =>
            \E t \in Threads : l = i[t] /\ pc[t] = "check" /\ l < next
  BY ScannersStay DEF Check
<1>3. \A l \in 1 .. Count : l >= next' => scanner'[l] = 0
  BY <1>0, <1>2 DEF Hands
<1>4. ASSUME NEW t \in Threads, Thread(t) PROVE Hands'
  <2>1. \A u \in Threads : u # t => pc'[u] = pc[u] /\ i'[u] = i[u] /\ at'[u] = at[u]
    BY <1>0, <1>4, OthersStay
  <2>2. \A u \in Threads : u # t /\ pc[u] \in Holding => scanner'[i[u]] = scanner[i[u]]
    <3> SUFFICES ASSUME NEW u \in Threads, u # t, pc[u] \in Holding
                 PROVE  scanner'[i[u]] = scanner[i[u]]
      OBVIOUS
    <3>1. i[u] \in 1 .. Count
      BY <1>0 DEF Hands
    <3>2. pc[t] = "check" => i[u] # i[t]
      BY <1>0 DEF Hands, Holding
    <3>3. pc[t] # "check" => UNCHANGED scanner
      BY <1>4 DEF Thread, Take, Check, Read, Write, Tally, Finish, Test
    <3>4. pc[t] = "check" => \A l \in 1 .. Count : l # i[t] => scanner'[l] = scanner[l]
      BY <1>0, <1>4 DEF Thread, Take, Check, Read, Write, Tally, Finish, Test, Types
    <3> QED
      BY <3>1, <3>2, <3>3, <3>4
  <2>3. \/ /\ pc'[t] \in Holding
           /\ i'[t] \in 1 .. next' - 1
           /\ \/ i'[t] = i[t] /\ pc[t] \in Holding
              \/ i'[t] = next
           /\ pc'[t] = "check" => scanner'[i'[t]] = 0
           /\ pc'[t] \in Scanning => scanner'[i'[t]] = t
           /\ pc'[t] = "write" => at'[t] \in DOMAIN leaf_nodes[i'[t]]
        \/ pc'[t] \notin Holding
    <3>1. CASE Take(t)
      <4>1. CASE next <= Count /\ i' = [i EXCEPT ![t] = next] /\ next' = next + 1
                 /\ pc' = [pc EXCEPT ![t] = "check"]
        <5>1. i'[t] = next /\ pc'[t] = "check" /\ next \in 1 .. Count
          BY <1>0, <4>1 DEF Types
        <5>2. scanner'[next] = 0
          BY <1>0, <3>1, <5>1 DEF Take, Hands
        <5> QED
          BY <1>0, <4>1, <5>1, <5>2 DEF Holding, Scanning
      <4>2. CASE pc' = [pc EXCEPT ![t] = "end"]
        BY <1>0, <4>2 DEF Types, Holding, Scanning
      <4> QED
        BY <3>1, <4>1, <4>2 DEF Take
    <3>2. CASE Check(t)
      <4>1. i[t] \in 1 .. next - 1 /\ i' = i /\ next' = next /\ pc[t] = "check"
        BY <1>0, <3>2 DEF Check, Hands, Holding
      <4>2. \/ pc'[t] = "take"
            \/ pc'[t] = "read" /\ scanner'[i[t]] = t
        BY <1>0, <3>2, <4>1 DEF Check, Types
      <4> QED
        BY <4>1, <4>2 DEF Holding, Scanning
    <3>3. CASE Read(t) \/ Write(t)
      <4>1. /\ i[t] \in 1 .. next - 1 /\ i' = i /\ next' = next /\ pc[t] \in Scanning
            /\ scanner' = scanner /\ scanner[i[t]] = t /\ pc'[t] \in Scanning
        BY <1>0, <3>3 DEF Read, Write, Hands, Holding, Scanning, Types
      <4>2. pc'[t] = "write" => at' = at /\ at[t] <= Len(leaf_nodes[i[t]])
        BY <1>0, <3>3 DEF Read, Write, Types
      <4>3. pc'[t] = "write" => at'[t] \in DOMAIN leaf_nodes[i[t]]
        <5>1. /\ DOMAIN leaf_nodes[i[t]] = 1 .. Len(leaf_nodes[i[t]])
              /\ Len(leaf_nodes[i[t]]) \in Nat /\ at[t] \in Nat \ {0}
          <6>1. Types /\ i[t] \in 1 .. Count
            BY <1>0, <4>1, CountIsNat DEF Types
          <6>2. at[t] \in Nat \ {0}
            BY <6>1 DEF Types
          <6> QED
            BY <6>1, <6>2, LeafFacts
        <5> QED
          BY <4>2, <5>1
      <4> QED
        BY <4>1, <4>3 DEF Holding, Scanning
    <3>4. CASE Tally(t) \/ Finish(t) \/ Test(t)
      BY <1>0, <3>4 DEF Tally, Finish, Test, AfterTest, Types, Holding, Scanning
    <3> QED
      BY <1>4, <3>1, <3>2, <3>3, <3>4 DEF Thread
  <2>4. \A u \in Threads : pc'[u] \in Holding => i'[u] \in 1 .. next' - 1
    BY <1>0, <1>2, <2>1, <2>3 DEF Hands
  <2>5. \A u \in Threads : u # t /\ pc'[u] \in Holding /\ pc'[t] \in Holding => i'[u] # i'[t]
    BY <1>0, <2>1, <2>3 DEF Hands
  <2>6. \A u, v \in Threads : u # v /\ pc'[u] \in Holding /\ pc'[v] \in Holding => i'[u] # i'[v]
    BY <1>0, <2>1, <2>5 DEF Hands
  <2>7. \A u \in Threads : pc'[u] = "check" => scanner'[i'[u]] = 0
    BY <1>0, <2>1, <2>2, <2>3 DEF Hands, Holding, Scanning
  <2>8. \A u \in Threads : pc'[u] \in Scanning => scanner'[i'[u]] = u
    BY <1>0, <2>1, <2>2, <2>3 DEF Hands, Holding, Scanning
  <2>9. \A u \in Threads : pc'[u] = "write" => at'[u] \in DOMAIN leaf_nodes'[i'[u]]
    BY <1>0, <1>1, <2>1, <2>3 DEF Hands, Holding, Scanning
  <2> QED
    BY <1>1, <1>3, <2>4, <2>6, <2>7, <2>8, <2>9 DEF Hands
<1>5. CASE Collect
  BY <1>0, <1>1, <1>5 DEF Collect, Hands
<1>6. CASE UNCHANGED vars
  BY <1>0, <1>1, <1>6 DEF vars, Hands
<1> QED
  BY <1>4, <1>5, <1>6 DEF Next, Done

LEMMA LastsNext == LoopInv /\ [Next]_vars => Lasts'
<1> SUFFICES ASSUME LoopInv, [Next]_vars, NEW u \in Threads
             PROVE  last'[u] = 1 \/ (last'[u] \in 1 .. next' - 1 /\ scanner'[last'[u]] = u)
  BY DEF Lasts
<1>0. Types /\ Count \in Nat /\ next \in 1 .. Count + 1
  BY CountIsNat DEF LoopInv, Types
<1>1. /\ next \in Nat /\ next' \in Nat /\ next <= next'
      /\ \A l \in 1 .. Count : scanner[l] # 0 => scanner'[l] = scanner[l]
  BY ScannersStay
<1>2. CASE last'[u] = last[u]
  <2>1. u # 0
    BY NumThreadAssumption DEF Threads
  <2> QED
    BY <1>0, <1>1, <1>2, <2>1 DEF LoopInv, Lasts
<1>3. ASSUME NEW t \in Threads, Check(t), ~stop, u = t
      PROVE  last'[u] \in 1 .. next' - 1 /\ scanner'[last'[u]] = u
  <2>1. i[t] \in 1 .. next - 1 /\ i[t] \in 1 .. Count
    BY <1>0, <1>3 DEF LoopInv, Hands, Holding, Check, At
  <2>2. /\ last' = [last EXCEPT ![t] = i[t]] /\ next' = next
        /\ scanner' = [scanner EXCEPT ![i[t]] = t]
    BY <1>3 DEF Check
  <2> QED
    BY <1>0, <1>3, <2>1, <2>2 DEF Types
<1>4. ASSUME NEW t \in Threads, Thread(t), ~(Check(t) /\ ~stop /\ u = t)
      PROVE  last'[u] = last[u]
  <2>1. u # t => last'[u] = last[u]
    BY <1>0, <1>4, OthersStay
  <2>2. Check(t) /\ stop => UNCHANGED last
    BY DEF Check
  <2>3. ~Check(t) => UNCHANGED last
    BY <1>4 DEF Thread, Take, Read, Write, Tally, Finish, Test
  <2> QED
    BY <1>4, <2>1, <2>2, <2>3
<1>5. Collect \/ UNCHANGED vars => last'[u] = last[u]
  BY DEF Collect, vars
<1> QED
  BY <1>2, <1>3, <1>4, <1>5 DEF Next, Done

LEMMA EndsNext == LoopInv /\ [Next]_vars => Ends'
<1> SUFFICES ASSUME LoopInv, [Next]_vars PROVE Ends'
  OBVIOUS
<1> USE DEF Goto, At
<1>0. Types /\ Ends /\ Count \in Nat /\ next \in 1 .. Count + 1
  BY CountIsNat DEF LoopInv, Types
<1>1. leaf_nodes' = leaf_nodes /\ Count' = Count
  BY LeavesStay
<1>2. ASSUME NEW t \in Threads, Thread(t) PROVE Ends'
  <2>1. pc[t] # "end" /\ ~done /\ nodes' = nodes /\ done' = done
    <3>1. pc[t] # "end" /\ nodes' = nodes /\ done' = done
      BY <1>2 DEF Thread, Take, Check, Read, Write, Tally, Finish, Test, result
    <3> QED
      BY <1>0, <3>1 DEF Ends
  <2>2. \A u \in Threads : u # t => pc'[u] = pc[u]
    BY <1>0, <1>2, OthersStay
  <2>3. (\E u \in Threads : pc[u] = "end") => next' = next
    BY <1>0, <1>2 DEF Ends, Thread, Take, Check, Read, Write, Tally, Finish, Test
  <2>4. pc'[t] = "end" => next' = Count + 1
    <3>1. CASE Take(t)
      BY <1>0, <3>1 DEF Take, Types
    <3>2. CASE Check(t) \/ Read(t) \/ Write(t)
      BY <1>0, <3>2 DEF Check, Read, Write, Types
    <3>3. CASE Tally(t) \/ Finish(t) \/ Test(t)
      BY <1>0, <3>3 DEF Tally, Finish, Test, AfterTest, Types
    <3> QED
      BY <1>2, <3>1, <3>2, <3>3 DEF Thread
  <2> QED
    BY <1>0, <1>1, <2>1, <2>2, <2>3, <2>4 DEF Ends
<1>3. CASE Collect
  BY <1>0, <1>1, <1>3 DEF Collect, Ends
<1>4. CASE UNCHANGED vars
  BY <1>0, <1>1, <1>4 DEF vars, result, Ends
<1> QED
  BY <1>2, <1>3, <1>4 DEF Next, Done

LEMMA LoopInvariant == Spec => []LoopInv
<1>1. LoopInv /\ [Next]_vars => LoopInv'
  BY TypesNext, HandsNext, LastsNext, EndsNext DEF LoopInv
<1> QED
  BY <1>1, LoopInit, PTL DEF Spec

-----------------------------------------------------------------------------
(* What is marked comes from the leaves scanned.                           *)

ScannedPoints == UNION {Points(l) : l \in Scanned}

Marks == ~done => /\ isCandidate \subseteq ScannedPoints
                  /\ \A t \in Threads : pc[t] = "write" => word[t] \subseteq ScannedPoints

LEMMA ScannedGrows ==
    ASSUME LoopInv, [Next]_vars
    PROVE  /\ Scanned \subseteq Scanned' /\ ScannedPoints \subseteq ScannedPoints'
           /\ \A l \in Scanned : scanner'[l] = scanner[l]
           /\ \A l \in 1 .. Count : Points(l)' = Points(l)
<1>1. leaf_nodes' = leaf_nodes /\ Count' = Count
  BY LeavesStay
<1>2. \A l \in 1 .. Count : Points(l)' = Points(l)
  BY <1>1 DEF Points
<1>3. \A l \in Scanned : l \in 1 .. Count /\ scanner'[l] = scanner[l]
  BY ScannersStay DEF Scanned
<1>4. Scanned \subseteq Scanned'
  BY <1>1, <1>3 DEF Scanned
<1> QED
  BY <1>2, <1>3, <1>4 DEF ScannedPoints

LEMMA MarksNext == LoopInv /\ Marks /\ [Next]_vars => Marks'
<1> SUFFICES ASSUME LoopInv, Marks, [Next]_vars PROVE Marks'
  OBVIOUS
<1> USE DEF Goto, At
<1>0. Types /\ Count \in Nat
  BY CountIsNat DEF LoopInv
<1>1. ScannedPoints \subseteq ScannedPoints'
  BY ScannedGrows
<1>2. ASSUME NEW t \in Threads, Thread(t) PROVE Marks'
  <2>1. ~done
    BY <1>2 DEF Thread, Take, Check, Read, Write, Tally, Finish, Test, LoopInv, Ends
  <2>2. \A u \in Threads : u # t => pc'[u] = pc[u] /\ word'[u] = word[u]
    BY <1>0, <1>2, OthersStay
  <2>3. CASE Read(t)
    <3>1. word'[t] \subseteq isCandidate /\ isCandidate' = isCandidate
      BY <1>0, <2>3 DEF Read, SameWord, Types
    <3> QED
      BY <1>1, <2>1, <2>2, <3>1 DEF Marks
  <2>4. CASE Write(t)
    <3>1. i[t] \in 1 .. Count /\ scanner[i[t]] = t /\ at[t] \in DOMAIN leaf_nodes[i[t]]
      BY <1>0, <2>4 DEF Write, LoopInv, Hands, Holding, Scanning, Types
    <3>2. Point(t) \in Points(i[t]) /\ i[t] \in Scanned
      BY <3>1, NumThreadAssumption DEF Point, Points, ToSet, Scanned, Threads
    <3>3. Point(t) \in ScannedPoints
      BY <3>2 DEF ScannedPoints
    <3>4. isCandidate' \subseteq isCandidate \cup word[t] \cup {Point(t)} /\ pc[t] = "write"
      BY <2>4 DEF Write, Marked
    <3>5. pc'[t] = "read"
      BY <1>0, <2>4 DEF Write, Types
    <3> QED
      BY <1>1, <2>1, <2>2, <3>3, <3>4, <3>5 DEF Marks
  <2>5. CASE Take(t) \/ Check(t) \/ Tally(t) \/ Finish(t) \/ Test(t)
    <3>1. pc'[t] # "write" /\ isCandidate' = isCandidate
      BY <1>0, <2>5 DEF Take, Check, Tally, Finish, Test, AfterTest, Types
    <3> QED
      BY <1>1, <2>1, <2>2, <3>1 DEF Marks
  <2> QED
    BY <1>2, <2>3, <2>4, <2>5 DEF Thread
<1>3. CASE Collect
  BY <1>3 DEF Collect, Marks
<1>4. CASE UNCHANGED vars
  BY <1>1, <1>4 DEF vars, result, Marks
<1> QED
  BY <1>2, <1>3, <1>4 DEF Next, Done

-----------------------------------------------------------------------------
(* The tally of a thread.                                                  *)

\* The leaves a thread is done with.
Mine(t) == {l \in 1 .. Count : scanner[l] = t /\ ~(pc[t] \in Scanning /\ i[t] = l)}
Tallies == \A t \in Threads : num[t] = Cardinality(Places(Mine(t)))

LEMMA OnePlaceEach ==
    ASSUME Types, NEW l \in 1 .. Count
    PROVE  LET P == {l} \X DOMAIN leaf_nodes[l]
           IN  IsFiniteSet(P) /\ Cardinality(P) = Len(leaf_nodes[l])
<1> DEFINE P == {l} \X DOMAIN leaf_nodes[l]
           n == Len(leaf_nodes[l])
           f == [x \in 1 .. n |-> <<l, x>>]
<1>1. n \in Nat /\ DOMAIN leaf_nodes[l] = 1 .. n
  BY LeafFacts
<1>2. IsFiniteSet(1 .. n) /\ Cardinality(1 .. n) = n
  BY <1>1, FS_Interval
<1>3. f \in Bijection(1 .. n, P)
  <2>1. \A x \in 1 .. n : f[x] = <<l, x>> /\ <<l, x>> \in P
    BY <1>1
  <2>2. \A x, y \in 1 .. n : f[x] = f[y] => x = y
    BY <2>1
  <2>3. \A p \in P : \E x \in 1 .. n : f[x] = p
    <3>1. \A p \in P : \E x \in 1 .. n : p = <<l, x>>
      BY <1>1
    <3> QED
      BY <2>1, <3>1
  <2>4. f \in [1 .. n -> P]
    BY <2>1
  <2> HIDE DEF P, n, f
  <2> QED
    BY <2>2, <2>3, <2>4 DEF Bijection, Injection, Surjection, IsInjective
<1> HIDE DEF P, n, f
<1>4. ExistsBijection(1 .. n, P)
  BY <1>3 DEF ExistsBijection
<1>5. IsFiniteSet(P) /\ Cardinality(P) = n
  BY <1>2, <1>4, FS_Bijection
<1> QED
  BY <1>5 DEF P, n

LEMMA PlacesFinite ==
    ASSUME Types, NEW S, S \subseteq 1 .. Count
    PROVE  IsFiniteSet(Places(S)) /\ Cardinality(Places(S)) \in Nat
<1> DEFINE f == [l \in 1 .. Count |-> {l} \X DOMAIN leaf_nodes[l]]
<1>1. ASSUME NEW l \in 1 .. Count PROVE IsFiniteSet({l} \X DOMAIN leaf_nodes[l])
  BY OnePlaceEach
<1>2. IsFiniteSet(UNION {f[l] : l \in 1 .. Count})
  <2>1. \A l \in 1 .. Count : IsFiniteSet(f[l])
    BY <1>1
  <2> HIDE DEF f
  <2> QED
    BY <2>1, CountIsNat, FiniteUnion
<1>3. Places(S) \subseteq UNION {f[l] : l \in 1 .. Count}
  BY DEF Places
<1> HIDE DEF f
<1>4. IsFiniteSet(Places(S))
  BY <1>2, <1>3, FS_Subset
<1> QED
  BY <1>4, FS_CardinalityType

\* One leaf more adds the number of its points.
LEMMA PlacesAdded ==
    ASSUME Types, NEW S, S \subseteq 1 .. Count, NEW l \in 1 .. Count, l \notin S
    PROVE  Cardinality(Places(S \cup {l})) = Cardinality(Places(S)) + Len(leaf_nodes[l])
<1> DEFINE P == {l} \X DOMAIN leaf_nodes[l]
<1>1. IsFiniteSet(P) /\ Cardinality(P) = Len(leaf_nodes[l])
  BY OnePlaceEach
<1>2. IsFiniteSet(Places(S)) /\ Cardinality(Places(S)) \in Nat
  BY PlacesFinite
<1>3. Places(S \cup {l}) = Places(S) \cup P
  BY DEF Places
<1>4. Places(S) \cap P = {}
  <2> SUFFICES ASSUME NEW y \in Places(S), y \in P PROVE FALSE
    OBVIOUS
  <2>1. PICK k \in S : y \in {k} \X DOMAIN leaf_nodes[k]
    BY DEF Places
  <2>2. y[1] = k /\ y[1] = l
    BY <2>1
  <2> QED
    BY <2>2
<1> HIDE DEF P
<1>5. Cardinality(Places(S) \cup P) =
          Cardinality(Places(S)) + Cardinality(P) - Cardinality(Places(S) \cap P)
  BY <1>1, <1>2, FS_Union
<1>6. Cardinality(Places(S) \cap P) = 0
  BY <1>4, FS_EmptySet
<1>7. Len(leaf_nodes[l]) \in Nat
  BY LeafFacts
<1>8. Cardinality(Places(S) \cup P) = Cardinality(Places(S)) + Len(leaf_nodes[l])
  BY <1>1, <1>2, <1>5, <1>6, <1>7
<1> QED
  BY <1>3, <1>8

LEMMA TalliesNext == LoopInv /\ Tallies /\ [Next]_vars => Tallies'
<1> SUFFICES ASSUME LoopInv, Tallies, [Next]_vars PROVE Tallies'
  OBVIOUS
<1> USE DEF Goto, At
<1>0. Types /\ Count \in Nat
  BY CountIsNat DEF LoopInv
<1>1. leaf_nodes' = leaf_nodes /\ Count' = Count
  BY LeavesStay
<1>2. \A S : Places(S)' = Places(S)
  BY <1>1 DEF Places
<1>3. ASSUME NEW u \in Threads, num'[u] = num[u], Mine(u)' = Mine(u)
      PROVE  num'[u] = Cardinality(Places(Mine(u)))'
  <2>1. Places(Mine(u))' = Places(Mine(u))
    BY <1>1, <1>3 DEF Places
  <2> QED
    BY <1>3, <2>1 DEF Tallies
<1>4. ASSUME NEW t \in Threads, Thread(t) PROVE Tallies'
  <2>1. ASSUME NEW u \in Threads, u # t
        PROVE  num'[u] = num[u] /\ Mine(u)' = Mine(u)
    <3>1. num'[u] = num[u] /\ pc'[u] = pc[u] /\ i'[u] = i[u]
      BY <1>0, <1>4, <2>1, OthersStay
    <3>2. \A l \in 1 .. Count : scanner'[l] = u <=> scanner[l] = u
      <4>1. scanner' = scanner \/ Check(t)
        BY <1>4 DEF Thread, Take, Read, Write, Tally, Finish, Test
      <4>2. Check(t) => scanner' = scanner \/
                        (scanner' = [scanner EXCEPT ![i[t]] = t] /\ scanner[i[t]] = 0)
        BY DEF Check, LoopInv, Hands
      <4>3. u # 0
        BY NumThreadAssumption DEF Threads
      <4> QED
        BY <1>0, <2>1, <4>1, <4>2, <4>3 DEF Types
    <3> QED
      BY <1>1, <3>1, <3>2 DEF Mine
  <2>2. num'[t] = Cardinality(Places(Mine(t)))'
    <3>1. CASE Take(t)
      <4>1. num' = num /\ scanner' = scanner /\ pc[t] \notin Scanning /\ pc'[t] \notin Scanning
        BY <1>0, <3>1 DEF Take, Types, Scanning
      <4>2. Mine(t)' = Mine(t)
        BY <1>1, <4>1 DEF Mine
      <4> QED
        BY <1>3, <4>1, <4>2
    <3>2. CASE Check(t)
      <4>1. num' = num /\ i' = i /\ pc[t] \notin Scanning /\ scanner[i[t]] = 0
        BY <3>2 DEF Check, Scanning, LoopInv, Hands
      <4>2. i[t] \in 1 .. Count /\ t # 0
        BY <1>0, <3>2, NumThreadAssumption
           DEF Check, LoopInv, Hands, Holding, Types, Threads
      <4>3. \/ scanner' = scanner /\ pc'[t] \notin Scanning
            \/ pc'[t] \in Scanning /\ scanner' = [scanner EXCEPT ![i[t]] = t]
        BY <1>0, <3>2 DEF Check, Types, Scanning
      <4>4. Mine(t)' = Mine(t)
        BY <1>0, <1>1, <4>1, <4>2, <4>3 DEF Mine, Types
      <4> QED
        BY <1>3, <4>1, <4>4
    <3>3. CASE Read(t) \/ Write(t)
      <4>1. /\ num' = num /\ scanner' = scanner /\ i' = i
            /\ pc[t] \in Scanning /\ pc'[t] \in Scanning
        BY <1>0, <3>3 DEF Read, Write, Types, Scanning
      <4>2. Mine(t)' = Mine(t)
        BY <1>1, <4>1 DEF Mine
      <4> QED
        BY <1>3, <4>1, <4>2
    <3>4. CASE Tally(t)
      <4>1. /\ scanner' = scanner /\ i' = i /\ pc[t] \in Scanning
            /\ num'[t] = num[t] + Len(leaf_nodes[i[t]])
        BY <1>0, <3>4 DEF Tally, NewTally, Types, Scanning
      <4>2. pc'[t] \notin Scanning
        BY <1>0, <3>4 DEF Tally, Types, Scanning
      <4>3. i[t] \in 1 .. Count /\ scanner[i[t]] = t
        BY <1>0, <4>1 DEF LoopInv, Hands, Holding, Types
      <4>4. Mine(t)' = Mine(t) \cup {i[t]} /\ i[t] \notin Mine(t) /\ Mine(t) \subseteq 1 .. Count
        BY <1>1, <4>1, <4>2, <4>3 DEF Mine
      <4>5. Cardinality(Places(Mine(t) \cup {i[t]})) =
                Cardinality(Places(Mine(t))) + Len(leaf_nodes[i[t]])
        BY <1>0, <4>3, <4>4, PlacesAdded
      <4>6. Places(Mine(t))' = Places(Mine(t) \cup {i[t]})
        BY <1>1, <4>4 DEF Places
      <4> QED
        BY <4>1, <4>5, <4>6 DEF Tallies
    <3>5. CASE Finish(t) \/ Test(t)
      <4>1. /\ num' = num /\ scanner' = scanner /\ i' = i
            /\ pc[t] \notin Scanning /\ pc'[t] \notin Scanning
        BY <1>0, <3>5 DEF Finish, Test, AfterTest, Types, Scanning
      <4>2. Mine(t)' = Mine(t)
        BY <1>1, <4>1 DEF Mine
      <4> QED
        BY <1>3, <4>1, <4>2
    <3> QED
      BY <1>4, <3>1, <3>2, <3>3, <3>4, <3>5 DEF Thread
  <2> QED
    BY <1>3, <2>1, <2>2 DEF Tallies
<1>5. CASE Collect \/ UNCHANGED vars
  <2>1. UNCHANGED <<num, scanner, pc, i>>
    BY <1>5 DEF Collect, vars
  <2>2. \A u \in Threads : Mine(u)' = Mine(u)
    BY <1>1, <2>1 DEF Mine
  <2> QED
    BY <1>3, <2>1, <2>2 DEF Tallies
<1> QED
  BY <1>4, <1>5 DEF Next, Done

TypeInv == LoopInv /\ Marks /\ Tallies

LEMMA TypeInvariant == Spec => []TypeInv
<1>1. Init => TypeInv
  <2> SUFFICES ASSUME Init PROVE TypeInv
    OBVIOUS
  <2>1. Marks
    BY DEF Init, Marks
  <2>2. ASSUME NEW t \in Threads PROVE num[t] = Cardinality(Places(Mine(t)))
    <3>1. Mine(t) = {}
      BY NumThreadAssumption DEF Init, Mine, Threads
    <3>2. Places({}) = {}
      BY DEF Places
    <3> QED
      BY <3>1, <3>2, FS_EmptySet DEF Init
  <2> QED
    BY <2>1, <2>2, LoopInit DEF TypeInv, Tallies
<1>2. TypeInv /\ [Next]_vars => TypeInv'
  BY TypesNext, HandsNext, LastsNext, EndsNext, MarksNext, TalliesNext DEF TypeInv, LoopInv
<1> QED
  BY <1>1, <1>2, PTL DEF Spec

\* However the schedule hands out the leaves, a thread notes in
\* last_node_index_each_thread only leaves it scans itself, what it counts is
\* the points of the leaves it has scanned, and nothing is marked that is in no
\* leaf a thread has come to.
THEOREM TypeCorrect == Spec => []TypeOK
<1>1. TypeInv => TypeOK
  <2> SUFFICES ASSUME TypeInv PROVE TypeOK
    OBVIOUS
  <2>1. isCandidate \subseteq nodes \cup ScannedPoints
    BY DEF TypeInv, LoopInv, Ends, Marks, Types
  <2>2. \A t \in Threads : last[t] # 1 => scanner[last[t]] = t
    BY DEF TypeInv, LoopInv, Lasts
  <2>3. ASSUME NEW t \in Threads, pc[t] # "read", pc[t] # "write"
        PROVE  num[t] = Cardinality(Places({l \in 1 .. Count : scanner[l] = t}))
    <3>1. Mine(t) = {l \in 1 .. Count : scanner[l] = t}
      BY <2>3 DEF Mine, Scanning
    <3> QED
      BY <3>1 DEF TypeInv, Tallies
  <2>4. Types
    BY DEF TypeInv, LoopInv
  <2>5. /\ pc \in [Threads -> {"take", "check", "read", "write", "finish", "test", "end"}]
        /\ next \in 1 .. Count + 1 /\ i \in [Threads -> 0 .. Count]
        /\ finished \in Nat /\ stop \in BOOLEAN
    BY <2>4 DEF Types, ProgramPoints
  <2> QED
    BY <2>1, <2>2, <2>3, <2>5 DEF TypeOK, ScannedPoints, At
<1> QED
  BY <1>1, TypeInvariant, PTL

-----------------------------------------------------------------------------
(* The race on the words of the bit vector.                                *)

\* A leaf another thread has scanned has a different point in p's word.
Racer(l, p) == \E m \in Scanned : /\ scanner[m] # scanner[l]
                                  /\ \E q \in Points(m) : q # p /\ WordOf(q) = WordOf(p)

\* How far the thread that scans leaf l has come in it.
Behind(l, y) == pc[scanner[l]] \in Scanning /\ i[scanner[l]] = l => y < at[scanner[l]]
Passed(l) == {p \in Points(l) : \E y \in DOMAIN leaf_nodes[l] :
                                   leaf_nodes[l][y] = p /\ Behind(l, y)}

\* A point a thread has been at is marked, or has a racer; this goes as well for
\* the word a thread is about to write back.
Raced ==
    /\ \A l \in Scanned : \A p \in Passed(l) : p \in isCandidate \/ Racer(l, p)
    /\ \A t \in Threads : pc[t] = "write" =>
          \A l \in Scanned : \A p \in Passed(l) : WordOf(p) = WordOf(Point(t)) =>
              p \in word[t] \/ p = Point(t) \/ Racer(l, p)

LEMMA RacerStays ==
    ASSUME LoopInv, [Next]_vars, NEW l \in Scanned, NEW p, Racer(l, p)
    PROVE  Racer(l, p)'
<1>1. PICK m \in Scanned : /\ scanner[m] # scanner[l]
                           /\ \E q \in Points(m) : q # p /\ WordOf(q) = WordOf(p)
  BY DEF Racer
<1>2. /\ m \in Scanned' /\ scanner'[m] = scanner[m] /\ scanner'[l] = scanner[l]
      /\ Points(m)' = Points(m)
  BY ScannedGrows DEF Scanned
<1> QED
  BY <1>1, <1>2 DEF Racer

\* A leaf that was not scanned before the step has no point passed after it.
LEMMA NothingPassedYet ==
    ASSUME LoopInv, [Next]_vars, NEW l \in Scanned', l \notin Scanned
    PROVE  Passed(l)' = {}
<1>0. Types /\ Count' = Count /\ leaf_nodes' = leaf_nodes
  BY LeavesStay DEF LoopInv
<1>1. l \in 1 .. Count /\ scanner[l] = 0 /\ scanner'[l] # 0
  BY <1>0 DEF Scanned, Types
<1>2. PICK t \in Threads : Check(t) /\ ~stop /\ l = i[t] /\ scanner'[l] = t
  BY <1>1, ScannersStay
<1>3. i'[t] = l /\ pc'[t] = "read" /\ at'[t] = 1
  BY <1>0, <1>2 DEF Check, Types, Goto
<1>4. \A y \in DOMAIN leaf_nodes[l] : ~(y < 1)
  BY <1>0, <1>1, LeafFacts
<1>5. \A y \in DOMAIN leaf_nodes[l] : ~Behind(l, y)'
  BY <1>2, <1>3, <1>4 DEF Behind, Scanning
<1> QED
  BY <1>0, <1>5 DEF Passed

\* A step other than Write passes no point.
LEMMA PassedStays ==
    ASSUME LoopInv, [Next]_vars, NEW l \in Scanned
    PROVE  \/ Passed(l)' \subseteq Passed(l)
           \/ \E t \in Threads : /\ Write(t) /\ scanner[l] = t /\ i[t] = l
                                 /\ Passed(l)' \subseteq Passed(l) \cup {Point(t)}
<1> USE DEF Goto, At
<1>0. /\ Types /\ Count \in Nat /\ Count' = Count /\ leaf_nodes' = leaf_nodes
      /\ l \in 1 .. Count /\ scanner[l] # 0 /\ scanner[l] \in Threads
      /\ scanner'[l] = scanner[l] /\ Points(l)' = Points(l)
  <2>1. l \in 1 .. Count /\ scanner[l] # 0
    BY DEF Scanned
  <2>2. scanner[l] \in Threads
    <3>1. scanner[l] \in 0 .. NumThread
      BY <2>1 DEF LoopInv, Types
    <3> QED
      BY <2>1, <3>1, NumThreadAssumption DEF Threads
  <2> QED
    BY <2>1, <2>2, CountIsNat, LeavesStay, ScannedGrows DEF LoopInv
<1> DEFINE t == scanner[l]
<1>1. ASSUME \A y \in DOMAIN leaf_nodes[l] : Behind(l, y)' => Behind(l, y)
      PROVE  Passed(l)' \subseteq Passed(l)
  BY <1>0, <1>1 DEF Passed
<1>2. ASSUME UNCHANGED <<pc, i, at>> PROVE Passed(l)' \subseteq Passed(l)
  BY <1>0, <1>1, <1>2 DEF Behind
<1>3. ASSUME NEW u \in Threads, Thread(u), u # t PROVE Passed(l)' \subseteq Passed(l)
  <2>1. pc'[t] = pc[t] /\ i'[t] = i[t] /\ at'[t] = at[t]
    BY <1>0, <1>3, OthersStay
  <2> QED
    BY <1>0, <1>1, <2>1 DEF Behind
<1>4. ASSUME Thread(t), pc[t] \notin Scanning PROVE Passed(l)' \subseteq Passed(l)
  BY <1>1, <1>4 DEF Behind
<1>5. ASSUME Read(t) PROVE Passed(l)' \subseteq Passed(l)
  <2>1. pc[t] \in Scanning /\ pc'[t] \in Scanning /\ i' = i /\ at' = at
    BY <1>0, <1>5 DEF Read, Types, Scanning
  <2> QED
    BY <1>0, <1>1, <2>1 DEF Behind
<1>6. ASSUME Tally(t) PROVE Passed(l)' \subseteq Passed(l)
  <2>1. pc[t] \in Scanning /\ i' = i /\ at' = at /\ at[t] > Len(leaf_nodes[i[t]])
    BY <1>0, <1>6 DEF Tally, Types, Scanning
  <2>2. i[t] = l => \A y \in DOMAIN leaf_nodes[l] : y < at[t]
    BY <1>0, <2>1, LeafFacts DEF Types
  <2> QED
    BY <1>1, <2>2 DEF Behind
<1>7. ASSUME Write(t) PROVE i[t] # l => Passed(l)' \subseteq Passed(l)
  BY <1>1, <1>7 DEF Behind
<1>8. ASSUME Write(t), i[t] = l PROVE Passed(l)' \subseteq Passed(l) \cup {Point(t)}
  <2>1. /\ pc[t] \in Scanning /\ pc'[t] \in Scanning /\ i' = i /\ at'[t] = at[t] + 1
        /\ at[t] \in Nat
    BY <1>0, <1>8 DEF Write, Types, Scanning
  <2>2. \A y \in DOMAIN leaf_nodes[l] : Behind(l, y)' => Behind(l, y) \/ y = at[t]
    BY <1>0, <1>8, <2>1, LeafFacts DEF Behind
  <2>3. \A y \in DOMAIN leaf_nodes[l] : y = at[t] => leaf_nodes[l][y] = Point(t)
    BY <1>8 DEF Point
  <2> QED
    BY <1>0, <2>2, <2>3 DEF Passed
<1>9. ASSUME Thread(t) PROVE \/ pc[t] \notin Scanning
                             \/ Read(t) \/ Write(t) \/ Tally(t)
  BY <1>9 DEF Thread, Take, Check, Finish, Test, Scanning
<1>10. CASE \E u \in Threads : Thread(u)
  BY <1>0, <1>3, <1>4, <1>5, <1>6, <1>7, <1>8, <1>9, <1>10
<1>11. CASE Collect \/ UNCHANGED vars
  BY <1>2, <1>11 DEF Collect, vars
<1> QED
  BY <1>10, <1>11 DEF Next, Done

LEMMA RacedNext == LoopInv /\ Raced /\ [Next]_vars => Raced'
<1> SUFFICES ASSUME LoopInv, Raced, [Next]_vars PROVE Raced'
  OBVIOUS
<1> USE DEF Goto, At
<1>0. /\ Types /\ Count \in Nat /\ Count' = Count /\ leaf_nodes' = leaf_nodes
      /\ \A l \in Scanned' : l \in Scanned \/ Passed(l)' = {}
  BY CountIsNat, LeavesStay, NothingPassedYet DEF LoopInv
<1>1. \A l \in Scanned : \A p : Racer(l, p) => Racer(l, p)'
  BY RacerStays
<1>2. ASSUME NEW t \in Threads, Write(t) PROVE Raced'
  <2>1. /\ i[t] \in 1 .. Count /\ i[t] \in Scanned /\ scanner[i[t]] = t
        /\ Point(t) \in Points(i[t]) /\ pc[t] = "write"
    <3>1. i[t] \in 1 .. Count /\ scanner[i[t]] = t /\ pc[t] = "write"
      BY <1>0, <1>2 DEF Write, LoopInv, Hands, Holding, Scanning, Types
    <3>2. at[t] \in DOMAIN leaf_nodes[i[t]]
      BY <1>0, <3>1 DEF LoopInv, Hands
    <3> QED
      BY <3>1, <3>2, NumThreadAssumption DEF Scanned, Threads, Point, Points, ToSet
  <2>2. \A l \in Scanned : Passed(l)' \subseteq Passed(l)
                        \/ (scanner[l] = t /\ Passed(l)' \subseteq Passed(l) \cup {Point(t)})
    <3>1. \A u \in Threads : Write(u) => u = t
      <4>1. pc'[t] = "read" /\ pc[t] = "write"
        BY <1>0, <1>2 DEF Write, Types
      <4>2. \A u \in Threads : Write(u) /\ u # t => pc'[t] = pc[t]
        BY <1>0, OthersStay DEF Thread
      <4> QED
        BY <4>1, <4>2
    <3> QED
      BY <3>1, PassedStays
  <2>3. /\ \A u \in Threads : u # t => /\ pc'[u] = pc[u] /\ i'[u] = i[u] /\ at'[u] = at[u]
                                      /\ word'[u] = word[u]
        /\ pc'[t] = "read" /\ Scanned' = Scanned /\ scanner' = scanner
        /\ isCandidate' = Marked(word[t], Point(t))
    <3>1. \A u \in Threads : u # t => /\ pc'[u] = pc[u] /\ i'[u] = i[u] /\ at'[u] = at[u]
                                     /\ word'[u] = word[u]
      BY <1>0, <1>2, OthersStay DEF Thread
    <3> QED
      BY <1>0, <1>2, <3>1 DEF Write, Types, Scanned
  <2>4. ASSUME NEW l \in Scanned, NEW p \in Passed(l)'
        PROVE  p \in isCandidate' \/ Racer(l, p)'
    <3>1. CASE p = Point(t)
      BY <2>3, <3>1 DEF Marked
    <3>2. CASE p # Point(t) /\ WordOf(p) = WordOf(Point(t))
      <4>1. p \in Passed(l)
        BY <2>2, <3>2
      <4>2. p \in word[t] \/ Racer(l, p)
        BY <2>1, <3>2, <4>1 DEF Raced
      <4> QED
        BY <1>1, <2>3, <4>2 DEF Marked
    <3>3. CASE WordOf(p) # WordOf(Point(t))
      <4>1. p \in Passed(l)
        BY <2>2, <3>3
      <4>2. p \in isCandidate \/ Racer(l, p)
        BY <4>1 DEF Raced
      <4> QED
        BY <1>1, <2>3, <3>3, <4>2 DEF Marked, SameWord
    <3> QED
      BY <3>1, <3>2, <3>3
  <2>5. ASSUME NEW u \in Threads, u # t, pc[u] = "write",
               NEW l \in Scanned, NEW p \in Passed(l)', WordOf(p) = WordOf(Point(u))
        PROVE  p \in word[u] \/ p = Point(u) \/ Racer(l, p)'
    <3>1. CASE p \in Passed(l)
      BY <1>1, <2>5, <3>1 DEF Raced
    <3>2. CASE p \notin Passed(l) /\ p # Point(u)
      <4>1. scanner[l] = t /\ p = Point(t)
        BY <2>2, <3>2
      <4>2. /\ i[u] \in 1 .. Count /\ scanner[i[u]] = u
            /\ at[u] \in DOMAIN leaf_nodes[i[u]]
        BY <1>0, <2>5 DEF LoopInv, Hands, Holding, Scanning, Types
      <4>3. i[u] \in Scanned /\ Point(u) \in Points(i[u])
        BY <4>2, NumThreadAssumption DEF Scanned, Threads, Point, Points, ToSet
      <4>4. Racer(l, p)
        BY <2>5, <3>2, <4>1, <4>2, <4>3 DEF Racer
      <4> QED
        BY <1>1, <4>4
    <3> QED
      BY <3>1, <3>2
  <2>6. \A u \in Threads : u # t => Point(u)' = Point(u)
    BY <1>0, <2>3 DEF Point
  <2> QED
    BY <1>0, <2>3, <2>4, <2>5, <2>6 DEF Raced
<1>3. ASSUME NEW t \in Threads, Read(t) PROVE Raced'
  <2>1. \A l \in Scanned : Passed(l)' \subseteq Passed(l)
    <3>1. \A u \in Threads : ~Write(u)
      <4>1. pc'[t] = "write" /\ pc[t] = "read" /\ isCandidate' = isCandidate /\ at' = at
        BY <1>0, <1>3 DEF Read, Types
      <4>2. \A u \in Threads : Write(u) => at'[u] = at[u] + 1 /\ at[u] \in Nat
        BY <1>0 DEF Write, Types
      <4> QED
        BY <4>1, <4>2
    <3> QED
      BY <3>1, PassedStays
  <2>2. /\ \A u \in Threads : u # t => pc'[u] = pc[u] /\ word'[u] = word[u]
        /\ word'[t] = SameWord(Point(t)) /\ Scanned' = Scanned
        /\ isCandidate' = isCandidate
        /\ \A u \in Threads : Point(u)' = Point(u)
    <3>1. \A u \in Threads : u # t => pc'[u] = pc[u] /\ word'[u] = word[u]
      BY <1>0, <1>3, OthersStay DEF Thread
    <3> QED
      BY <1>0, <1>3, <3>1 DEF Read, Types, Scanned, Point
  <2>3. \A l \in Scanned : \A p \in Passed(l)' : p \in isCandidate \/ Racer(l, p)'
    BY <1>1, <2>1 DEF Raced
  <2>4. \A l \in Scanned : \A p \in Passed(l)' : WordOf(p) = WordOf(Point(t)) =>
            p \in word'[t] \/ Racer(l, p)'
    BY <2>2, <2>3 DEF SameWord
  <2>5. \A u \in Threads : u # t /\ pc[u] = "write" =>
            \A l \in Scanned : \A p \in Passed(l)' : WordOf(p) = WordOf(Point(u)) =>
                p \in word[u] \/ p = Point(u) \/ Racer(l, p)'
    BY <1>1, <2>1 DEF Raced
  <2> QED
    BY <2>2, <2>3, <2>4, <2>5 DEF Raced
<1>4. ASSUME \A t \in Threads : ~Write(t), isCandidate \subseteq isCandidate',
             \A u \in Threads : pc'[u] = "write" => /\ pc[u] = "write"
                                                    /\ word'[u] = word[u]
                                                    /\ Point(u)' = Point(u)
      PROVE  Raced'
  <2>1. \A l \in Scanned : Passed(l)' \subseteq Passed(l)
    BY <1>4, PassedStays
  <2> QED
    BY <1>0, <1>1, <1>4, <2>1 DEF Raced
<1>5. ASSUME NEW t \in Threads, Thread(t), ~Read(t), ~Write(t) PROVE Raced'
  <2>1. pc'[t] # "write" /\ isCandidate' = isCandidate
    <3>1. CASE Take(t) \/ Check(t)
      BY <1>0, <3>1 DEF Take, Check, Types
    <3>2. CASE Tally(t) \/ Finish(t) \/ Test(t)
      BY <1>0, <3>2 DEF Tally, Finish, Test, AfterTest, Types
    <3> QED
      BY <1>5, <3>1, <3>2 DEF Thread
  <2>2. \A u \in Threads : u # t => /\ pc'[u] = pc[u] /\ word'[u] = word[u]
                                    /\ Point(u)' = Point(u)
    BY <1>0, <1>5, OthersStay DEF Point
  <2>3. \A u \in Threads : ~Write(u)
    <3> SUFFICES ASSUME NEW u \in Threads, Write(u), u # t PROVE FALSE
      BY <1>5
    <3>1. pc'[u] = "read" /\ pc[u] = "write"
      BY <1>0 DEF Write, Types
    <3> QED
      BY <2>2, <3>1
  <2> QED
    BY <1>4, <2>1, <2>2, <2>3
<1>6. CASE Collect
  <2>1. isCandidate \subseteq isCandidate'
    BY <1>0, <1>6, FilledTypes DEF Collect, Types
  <2>2. \A u \in Threads : pc[u] = "end" /\ pc'[u] = pc[u]
    BY <1>6 DEF Collect
  <2>3. \A u \in Threads : ~Write(u)
    BY <2>2 DEF Write
  <2> QED
    BY <1>4, <2>1, <2>2, <2>3
<1>7. CASE UNCHANGED vars
  <2>1. \A u \in Threads : ~Write(u)
    <3> SUFFICES ASSUME NEW u \in Threads, Write(u) PROVE FALSE
      OBVIOUS
    <3>1. pc'[u] = "read" /\ pc[u] = "write"
      BY <1>0 DEF Write, Types
    <3> QED
      BY <1>7, <3>1 DEF vars
  <2> QED
    BY <1>0, <1>4, <1>7, <2>1 DEF vars, Point
<1> QED
  BY <1>2, <1>3, <1>5, <1>6, <1>7 DEF Next, Done

RaceInv == LoopInv /\ Raced

\* A store to the bit vector writes back a word another thread may have changed
\* since it was read. That is the only way to lose a point: whenever a scanned
\* point is no candidate, a leaf of another thread has a point of the same word.
THEOREM OnlyRacesLose == Spec => []LostOnlyByWordRace
<1>1. Init => RaceInv
  <2> SUFFICES ASSUME Init PROVE RaceInv
    OBVIOUS
  <2>1. Scanned = {}
    BY DEF Init, Scanned
  <2> QED
    BY <2>1, LoopInit DEF RaceInv, Raced
<1>2. RaceInv /\ [Next]_vars => RaceInv'
  BY TypesNext, HandsNext, LastsNext, EndsNext, RacedNext DEF RaceInv, LoopInv
<1>3. RaceInv => LostOnlyByWordRace
  <2> SUFFICES ASSUME RaceInv, done, NEW l \in Scanned, NEW p \in Points(l) \ nodes
               PROVE  Racer(l, p)
    BY DEF LostOnlyByWordRace, Racer
  <2>1. l \in 1 .. Count /\ scanner[l] \in Threads
    <3>1. l \in 1 .. Count /\ scanner[l] # 0
      BY DEF Scanned
    <3>2. scanner[l] \in 0 .. NumThread
      BY <3>1 DEF RaceInv, LoopInv, Types
    <3> QED
      BY <3>1, <3>2, NumThreadAssumption DEF Threads
  <2>2. pc[scanner[l]] = "end"
    BY <2>1 DEF RaceInv, LoopInv, Ends
  <2>3. PICK y \in DOMAIN leaf_nodes[l] : leaf_nodes[l][y] = p
    BY DEF Points, ToSet
  <2>4. p \in Passed(l)
    BY <2>2, <2>3 DEF Passed, Behind, Scanning
  <2>5. p \notin isCandidate
    BY DEF RaceInv, LoopInv, Ends
  <2> QED
    BY <2>4, <2>5 DEF RaceInv, Raced
<1> QED
  BY <1>1, <1>2, <1>3, PTL DEF Spec

-----------------------------------------------------------------------------
(* What the second pass makes up for.                                      *)

Low == {l \in DOMAIN scanner : l < LastIndex /\ scanner[l] = 0}

\* Until the stop a leaf that has been handed out is scanned or in a hand; from
\* then on no leaf is scanned, and all but one of the hands may hold one.
Skips ==
    /\ ~stop => \A l \in 1 .. Count : l < next /\ scanner[l] = 0 =>
                    \E t \in Threads : pc[t] = "check" /\ i[t] = l
    /\ stop => Cardinality(Low) < NumThread

LEMMA LowIsHandedOut ==
    ASSUME LoopInv, NEW l \in Low PROVE l \in 1 .. Count /\ l < next /\ scanner[l] = 0
<1>1. PICK t \in Threads : last[t] = LastIndex
  BY LastIndexIsMax DEF LoopInv
<1>2. l \in 1 .. Count /\ l < LastIndex /\ scanner[l] = 0 /\ Count \in Nat /\ next \in Nat
  BY CountIsNat DEF Low, LoopInv, Types
<1>3. last[t] = 1 \/ last[t] \in 1 .. next - 1
  BY DEF LoopInv, Lasts
<1> QED
  BY <1>1, <1>2, <1>3

LEMMA SkipsNext == LoopInv /\ Skips /\ [Next]_vars => Skips'
<1> SUFFICES ASSUME LoopInv, Skips, [Next]_vars PROVE Skips'
  OBVIOUS
<1> USE DEF Goto, At
<1>0. Types /\ Count \in Nat /\ Count' = Count /\ next \in Nat
  BY CountIsNat, LeavesStay DEF LoopInv, Types
<1>1. ASSUME stop PROVE stop' /\ Low' = Low
  <2>1. stop' /\ scanner' = scanner /\ last' = last
    BY <1>1 DEF Next, Thread, Take, Check, Read, Write, Tally, Finish, Test, Collect,
                Done, vars
  <2> QED
    BY <2>1 DEF Low, LastIndex
<1>2. ASSUME NEW t \in Threads, Thread(t), ~stop, ~stop', NEW l \in 1 .. Count,
             l < next', scanner'[l] = 0
      PROVE  \E u \in Threads : pc'[u] = "check" /\ i'[u] = l
  <2>1. \A u \in Threads : u # t => pc'[u] = pc[u] /\ i'[u] = i[u]
    BY <1>0, <1>2, OthersStay
  <2>2. CASE Take(t)
    <3>1. scanner' = scanner /\ pc[t] # "check"
      BY <2>2 DEF Take
    <3>2. CASE l < next
      BY <1>2, <2>1, <3>1, <3>2 DEF Skips
    <3>3. CASE ~(l < next)
      <4>1. next <= Count /\ i' = [i EXCEPT ![t] = next] /\ next' = next + 1
            /\ pc' = [pc EXCEPT ![t] = "check"]
        BY <1>2, <2>2, <3>3 DEF Take
      <4>2. l = next
        BY <1>0, <1>2, <3>3, <4>1
      <4> QED
        BY <1>0, <4>1, <4>2 DEF Types
    <3> QED
      BY <3>2, <3>3
  <2>3. CASE Check(t)
    <3>1. scanner' = [scanner EXCEPT ![i[t]] = t] /\ next' = next
      BY <1>2, <2>3 DEF Check
    <3>2. t # 0
      BY NumThreadAssumption DEF Threads
    <3>3. l # i[t] /\ scanner[l] = 0
      BY <1>0, <1>2, <3>1, <3>2 DEF Types
    <3>4. PICK u \in Threads : pc[u] = "check" /\ i[u] = l
      BY <1>2, <3>1, <3>3 DEF Skips
    <3> QED
      BY <2>1, <3>3, <3>4
  <2>4. CASE Read(t) \/ Write(t) \/ Tally(t) \/ Finish(t) \/ Test(t)
    <3>1. scanner' = scanner /\ next' = next /\ pc[t] # "check"
      BY <2>4 DEF Read, Write, Tally, Finish, Test
    <3>2. PICK u \in Threads : pc[u] = "check" /\ i[u] = l
      BY <1>2, <3>1 DEF Skips
    <3> QED
      BY <2>1, <3>1, <3>2
  <2> QED
    BY <1>2, <2>2, <2>3, <2>4 DEF Thread
<1>3. ASSUME NEW t \in Threads, Test(t), ~stop PROVE Cardinality(Low) < NumThread
  <2> DEFINE rest == Threads \ {t}
             held == {i[u] : u \in rest}
             f == [u \in rest |-> i[u]]
  <2>1. IsFiniteSet(rest) /\ Cardinality(rest) = NumThread - 1
    <3>1. IsFiniteSet(Threads) /\ Cardinality(Threads) = NumThread
      BY FS_Interval, NumThreadAssumption DEF Threads
    <3> QED
      BY <3>1, FS_RemoveElement
  <2>2. f \in Surjection(rest, held)
    BY DEF Surjection
  <2>3. Low \subseteq held
    <3> SUFFICES ASSUME NEW l \in Low PROVE l \in held
      OBVIOUS
    <3>1. l \in 1 .. Count /\ l < next /\ scanner[l] = 0
      BY LowIsHandedOut
    <3>2. PICK u \in Threads : pc[u] = "check" /\ i[u] = l
      BY <1>3, <3>1 DEF Skips
    <3>3. u # t
      BY <1>3, <3>2 DEF Test
    <3> QED
      BY <3>2, <3>3
  <2> HIDE DEF rest, held, f
  <2>4. IsFiniteSet(held) /\ Cardinality(held) <= NumThread - 1
    BY <2>1, <2>2, FS_Surjection
  <2>5. Cardinality(Low) <= Cardinality(held) /\ IsFiniteSet(Low)
    BY <2>3, <2>4, FS_Subset
  <2>6. Cardinality(held) \in Nat /\ Cardinality(Low) \in Nat
    BY <2>4, <2>5, FS_CardinalityType
  <2> QED
    BY <2>4, <2>5, <2>6, NumThreadAssumption
<1>4. ASSUME NEW t \in Threads, Test(t), ~stop PROVE Low' = Low
  BY <1>4 DEF Test, Low, LastIndex
<1>5. ~stop /\ stop' => \E t \in Threads : Test(t)
  BY DEF Next, Thread, Take, Check, Read, Write, Tally, Finish, Test, Collect, Done, vars
<1>6. ~stop /\ stop' => Cardinality(Low)' < NumThread
  BY <1>3, <1>4, <1>5
<1>7. CASE Collect \/ UNCHANGED vars
  BY <1>0, <1>1, <1>7 DEF Collect, vars, Skips, Low, LastIndex
<1>8. CASE \E t \in Threads : Thread(t)
  BY <1>0, <1>1, <1>2, <1>6, <1>8 DEF Skips
<1> QED
  BY <1>7, <1>8 DEF Next, Done

\* All points of the leaves, and so every set of points before a place, are
\* finitely many.
LEMMA BeforeFinite ==
    ASSUME Types, NEW c \in SUBSET Dataset, IsFiniteSet(c)
    PROVE  /\ IsFiniteSet(Filled(c)) /\ Cardinality(Filled(c)) \in Nat
           /\ \A l \in LastIndex + 1 .. Count : \A x \in DOMAIN leaf_nodes[l] :
                 /\ IsFiniteSet(c \cup Before(l, x))
                 /\ Cardinality(c \cup Before(l, x)) \in Nat
<1> DEFINE f == [l \in 1 .. Count |-> Points(l)]
           all == UNION {f[l] : l \in 1 .. Count}
<1>1. Count \in Nat /\ LastIndex \in Nat
  BY CountIsNat, LastIndexIsMax
<1>2. \A l \in 1 .. Count : f[l] = Points(l) /\ IsFiniteSet(f[l])
  BY LeafFacts
<1>3. IsFiniteSet(all)
  <2> HIDE DEF f
  <2> QED
    BY <1>1, <1>2, FiniteUnion
<1>4. \A l \in 1 .. Count : Points(l) \subseteq all
  BY <1>2
<1> HIDE DEF all
<1>5. IsFiniteSet(c \cup all)
  BY <1>3, FS_Union
<1>6. Filled(c) \subseteq c \cup all
  <2>1. \A l \in LastIndex + 1 .. Count : \A x \in DOMAIN leaf_nodes[l] :
            leaf_nodes[l][x] \in Points(l) /\ l \in 1 .. Count
    BY <1>1 DEF Points, ToSet
  <2> QED
    BY <1>4, <2>1 DEF Filled
<1>7. ASSUME NEW l \in LastIndex + 1 .. Count, NEW x \in DOMAIN leaf_nodes[l]
      PROVE  c \cup Before(l, x) \subseteq c \cup all
  <2>1. l \in 1 .. Count /\ \A m \in LastIndex + 1 .. l - 1 : m \in 1 .. Count
    BY <1>1
  <2>2. \A y \in 1 .. x - 1 : leaf_nodes[l][y] \in Points(l)
    <3>1. DOMAIN leaf_nodes[l] = 1 .. Len(leaf_nodes[l]) /\ Len(leaf_nodes[l]) \in Nat
      BY <2>1, LeafFacts
    <3>2. \A y \in 1 .. x - 1 : y \in DOMAIN leaf_nodes[l]
      BY <3>1
    <3> QED
      BY <3>2 DEF Points, ToSet
  <2> QED
    BY <1>4, <2>1, <2>2 DEF Before
<1>8. IsFiniteSet(Filled(c)) /\ Cardinality(Filled(c)) \in Nat
  BY <1>5, <1>6, FS_Subset, FS_CardinalityType
<1>9. ASSUME NEW l \in LastIndex + 1 .. Count, NEW x \in DOMAIN leaf_nodes[l]
      PROVE  /\ IsFiniteSet(c \cup Before(l, x))
             /\ Cardinality(c \cup Before(l, x)) \in Nat
  BY <1>5, <1>7, FS_Subset, FS_CardinalityType
<1> QED
  BY <1>8, <1>9

\* The last point that is taken fills at most the last place.
LEMMA FilledWithin ==
    ASSUME Types, NEW c \in SUBSET Dataset, IsFiniteSet(c),
           Cardinality(c) <= MaxCandidateSize
    PROVE  Cardinality(Filled(c)) <= MaxCandidateSize
<1> DEFINE Takes(l, x) == HasLeft(c \cup Before(l, x))
           TakenLeaves == {l \in LastIndex + 1 .. Count :
                              \E x \in DOMAIN leaf_nodes[l] : Takes(l, x)}
<1>1. Count \in Nat /\ LastIndex \in Nat
  BY CountIsNat, LastIndexIsMax
<1>2. CASE TakenLeaves = {}
  <2>1. Filled(c) = c
    BY <1>2 DEF Filled
  <2> QED
    BY <2>1
<1>3. CASE TakenLeaves # {}
  <2>1. PICK g \in TakenLeaves : \A l \in TakenLeaves : l <= g
    <3>1. TakenLeaves \subseteq 0 .. Count
      BY <1>1
    <3> HIDE DEF TakenLeaves
    <3> QED
      BY <1>1, <1>3, <3>1, GreatestElement
  <2> DEFINE n == Len(leaf_nodes[g])
             TakenHere == {x \in DOMAIN leaf_nodes[g] : Takes(g, x)}
  <2>2. g \in 1 .. Count /\ g \in LastIndex + 1 .. Count /\ TakenHere # {}
    BY <1>1, <2>1
  <2>3. n \in Nat /\ DOMAIN leaf_nodes[g] = 1 .. n
    BY <2>2, LeafFacts
  <2>4. PICK z \in TakenHere : \A x \in TakenHere : x <= z
    <3>1. TakenHere \subseteq 0 .. n
      BY <2>3
    <3> HIDE DEF TakenHere
    <3> QED
      BY <2>2, <2>3, <3>1, GreatestElement
  <2> DEFINE b == c \cup Before(g, z)
             p == leaf_nodes[g][z]
  <2>5. IsFiniteSet(b) /\ Cardinality(b) \in Nat /\ Cardinality(b) < MaxCandidateSize
    BY <2>2, <2>4, BeforeFinite DEF HasLeft
  <2>6. Filled(c) \subseteq b \cup {p}
    <3> SUFFICES ASSUME NEW l \in LastIndex + 1 .. Count, NEW x \in DOMAIN leaf_nodes[l],
                        Takes(l, x)
                 PROVE  leaf_nodes[l][x] \in b \cup {p}
      BY DEF Filled
    <3>1. l \in TakenLeaves /\ l <= g /\ l \in 1 .. Count
      <4>1. l \in TakenLeaves
        OBVIOUS
      <4> HIDE DEF TakenLeaves
      <4> QED
        BY <1>1, <2>1, <4>1
    <3>2. CASE l < g
      <4>1. leaf_nodes[l][x] \in Points(l) /\ l \in LastIndex + 1 .. g - 1
        BY <1>1, <2>2, <3>2 DEF Points, ToSet
      <4> QED
        BY <4>1 DEF Before
    <3>3. CASE l = g
      <4>1. x \in TakenHere /\ x <= z
        BY <2>4, <3>3
      <4>2. x = z \/ x \in 1 .. z - 1
        BY <2>3, <2>4, <3>3, <4>1
      <4> QED
        BY <3>3, <4>2 DEF Before
    <3> QED
      BY <1>1, <2>2, <3>1, <3>2, <3>3
  <2> HIDE DEF b, p
  <2>7. IsFiniteSet(b \cup {p}) /\ Cardinality(b \cup {p}) <= Cardinality(b) + 1
    BY <2>5, FS_AddElement
  <2>8. Cardinality(Filled(c)) <= Cardinality(b \cup {p})
    BY <2>6, <2>7, FS_Subset
  <2>9. Cardinality(Filled(c)) \in Nat /\ Cardinality(b \cup {p}) \in Nat
    BY <2>7, BeforeFinite, FS_CardinalityType
  <2> QED
    BY <2>5, <2>7, <2>8, <2>9, MaxCandidateSizeAssumption
<1> QED
  BY <1>2, <1>3

\* As long as the limit is not reached every point is taken.
LEMMA FilledAll ==
    ASSUME Types, NEW c \in SUBSET Dataset, IsFiniteSet(c),
           Cardinality(Filled(c)) < MaxCandidateSize,
           NEW k \in LastIndex + 1 .. Count
    PROVE  Points(k) \subseteq Filled(c)
<1> DEFINE Takes(l, x) == HasLeft(c \cup Before(l, x))
           Refused == {l \in LastIndex + 1 .. Count :
                          \E x \in DOMAIN leaf_nodes[l] : ~Takes(l, x)}
<1>1. Count \in Nat /\ LastIndex \in Nat
  BY CountIsNat, LastIndexIsMax
<1>2. ASSUME NEW l \in LastIndex + 1 .. Count, NEW x \in DOMAIN leaf_nodes[l], Takes(l, x)
      PROVE  leaf_nodes[l][x] \in Filled(c)
  <2>1. l \in 1 .. Count
    BY <1>1
  <2>2. leaf_nodes[l][x] \in Dataset
    BY <2>1, LeafFacts
  <2> QED
    BY <1>2, <2>2 DEF Filled
<1>3. Refused = {}
  <2> SUFFICES ASSUME Refused # {} PROVE FALSE
    OBVIOUS
  <2>1. PICK g \in Refused : \A l \in Refused : g <= l
    <3>1. Refused \subseteq Nat
      BY <1>1
    <3> HIDE DEF Refused
    <3> QED
      BY <3>1, LeastElement
  <2> DEFINE RefusedHere == {x \in DOMAIN leaf_nodes[g] : ~Takes(g, x)}
  <2>2. g \in 1 .. Count /\ g \in LastIndex + 1 .. Count /\ RefusedHere # {}
    BY <1>1, <2>1
  <2>3. Len(leaf_nodes[g]) \in Nat /\ DOMAIN leaf_nodes[g] = 1 .. Len(leaf_nodes[g])
    BY <2>2, LeafFacts
  <2>4. PICK z \in RefusedHere : \A x \in RefusedHere : z <= x
    <3>1. RefusedHere \subseteq Nat
      BY <2>3
    <3> HIDE DEF RefusedHere
    <3> QED
      BY <2>2, <3>1, LeastElement
  <2>5. \A y \in 1 .. z - 1 : leaf_nodes[g][y] \in Filled(c)
    <3> SUFFICES ASSUME NEW y \in 1 .. z - 1 PROVE leaf_nodes[g][y] \in Filled(c)
      OBVIOUS
    <3>1. y \in DOMAIN leaf_nodes[g] /\ y < z /\ y \in Int /\ z \in Int
      BY <2>3, <2>4
    <3>2. y \notin RefusedHere
      <4> HIDE DEF RefusedHere
      <4> QED
        BY <2>4, <3>1
    <3> QED
      BY <1>2, <2>2, <3>1, <3>2
  <2>6. \A m \in LastIndex + 1 .. g - 1 : Points(m) \subseteq Filled(c)
    <3> SUFFICES ASSUME NEW m \in LastIndex + 1 .. g - 1, NEW x \in DOMAIN leaf_nodes[m]
                 PROVE  leaf_nodes[m][x] \in Filled(c)
      BY DEF Points, ToSet
    <3>1. m \in LastIndex + 1 .. Count /\ m \notin Refused
      BY <1>1, <2>1, <2>2
    <3> QED
      BY <1>2, <3>1
  <2>7. c \cup Before(g, z) \subseteq Filled(c)
    <3>1. c \subseteq Filled(c)
      BY DEF Filled
    <3> HIDE DEF Takes, Refused, RefusedHere
    <3> QED
      BY <2>5, <2>6, <3>1 DEF Before
  <2>8. Cardinality(c \cup Before(g, z)) <= Cardinality(Filled(c))
    BY <2>7, BeforeFinite, FS_Subset
  <2>9. Takes(g, z)
    BY <2>2, <2>4, <2>8, BeforeFinite, MaxCandidateSizeAssumption DEF HasLeft
  <2> QED
    BY <2>4, <2>9
<1> SUFFICES ASSUME NEW x \in DOMAIN leaf_nodes[k] PROVE leaf_nodes[k][x] \in Filled(c)
  BY DEF Points, ToSet
<1> QED
  BY <1>2, <1>3

FillInv == LoopInv /\ Marks /\ Skips /\ FilledUp

LEMMA FilledUpNext == LoopInv /\ Marks /\ FilledUp /\ [Next]_vars => FilledUp'
<1> SUFFICES ASSUME LoopInv, Marks, FilledUp, [Next]_vars PROVE FilledUp'
  OBVIOUS
<1>0. Types /\ Count \in Nat /\ Count' = Count /\ leaf_nodes' = leaf_nodes
  BY CountIsNat, LeavesStay DEF LoopInv
<1>1. CASE Collect
  <2>1. ~done /\ isCandidate \subseteq ScannedPoints /\ isCandidate \in SUBSET Dataset
    BY <1>0, <1>1 DEF Collect, Marks, Types
  <2>2. IsFiniteSet(isCandidate)
    <3> DEFINE f == [l \in 1 .. Count |-> Points(l)]
               all == UNION {f[l] : l \in 1 .. Count}
    <3>1. \A l \in 1 .. Count : f[l] = Points(l) /\ IsFiniteSet(f[l])
      BY <1>0, LeafFacts
    <3>2. IsFiniteSet(all)
      <4> HIDE DEF f
      <4> QED
        BY <1>0, <3>1, FiniteUnion
    <3>3. ScannedPoints \subseteq all
      BY DEF ScannedPoints, Scanned
    <3> HIDE DEF all
    <3> QED
      BY <2>1, <3>2, <3>3, FS_Subset
  <2>3. /\ obtained' = Cardinality(isCandidate) /\ nodes' = Filled(isCandidate)
        /\ LastIndex' = LastIndex
    BY <1>1 DEF Collect, LastIndex
  <2>4. obtained' <= MaxCandidateSize => Cardinality(nodes)' <= MaxCandidateSize
    BY <1>0, <2>1, <2>2, <2>3, FilledWithin
  <2>5. Cardinality(nodes)' < MaxCandidateSize =>
            \A l \in LastIndex + 1 .. Count : Points(l) \subseteq nodes'
    BY <1>0, <2>1, <2>2, <2>3, FilledAll
  <2>6. \A l : Points(l)' = Points(l)
    BY <1>0 DEF Points
  <2> QED
    BY <1>0, <2>3, <2>4, <2>5, <2>6 DEF FilledUp
<1>2. ASSUME NEW t \in Threads, Thread(t) PROVE FilledUp'
  <2>1. ~done'
    BY <1>2 DEF Thread, Take, Check, Read, Write, Tally, Finish, Test, At, result,
                LoopInv, Ends
  <2> QED
    BY <2>1 DEF FilledUp
<1>3. CASE UNCHANGED vars
  BY <1>0, <1>3 DEF vars, result, FilledUp, LastIndex, Points
<1> QED
  BY <1>1, <1>2, <1>3 DEF Next, Done

\* When the threads have stopped, the second pass leaves out fewer leaves than
\* there are threads; it fills up to max_candidate_size unless there is no leaf
\* left, and never fills beyond it.
THEOREM FillMakesUp == Spec => []FillComplete
<1>1. Init => FillInv
  BY LoopInit DEF Init, FillInv, Marks, Skips, FilledUp
<1>2. FillInv /\ [Next]_vars => FillInv'
  BY TypesNext, HandsNext, LastsNext, EndsNext, MarksNext, SkipsNext, FilledUpNext
     DEF FillInv, LoopInv
<1>3. FillInv => FillComplete
  <2> SUFFICES ASSUME FillInv, done PROVE Cardinality(Low) < NumThread
    BY DEF FillInv, FillComplete, FewSkipped, FilledUp, Low
  <2>1. CASE stop
    BY <2>1 DEF FillInv, Skips
  <2>2. CASE ~stop
    <3>1. Low = {}
      <4> SUFFICES ASSUME NEW l \in Low PROVE FALSE
        OBVIOUS
      <4>1. l \in 1 .. Count /\ l < next /\ scanner[l] = 0
        BY LowIsHandedOut DEF FillInv
      <4>2. PICK t \in Threads : pc[t] = "check"
        BY <2>2, <4>1 DEF FillInv, Skips
      <4> QED
        BY <4>2 DEF FillInv, LoopInv, Ends
    <3> QED
      BY <3>1, FS_EmptySet, NumThreadAssumption
  <2> QED
    BY <2>1, <2>2
<1> QED
  BY <1>1, <1>2, <1>3, PTL DEF Spec
=============================================================================
