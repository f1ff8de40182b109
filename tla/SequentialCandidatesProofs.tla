--------------------- MODULE SequentialCandidatesProofs ---------------------
(***************************************************************************)
(* The candidate step with one thread: the heaps it takes the leaves from, *)
(* and their merge.                                                        *)
(*                                                                         *)
(* For every set of elements and of priorities the array of PQueue stays a *)
(* heap whose elements know their places, and it does what a priority      *)
(* queue promises. The sifts are loops here, with the invariants of loops: *)
(* the order is broken at one place at most, the moving element's.         *)
(*                                                                         *)
(* The merge of the queues of all trees implements NearestLeaves, for any  *)
(* number of trees and queues and any leaves: every step of the candidate  *)
(* loop is a step of it or changes nothing it speaks of. The invariant     *)
(* says where every leaf is: used, in one queue, or the head of one, which *)
(* is as near as any leaf behind it.                                       *)
(***************************************************************************)
EXTENDS SequentialCandidates, PQueue, InductionLemmas

-----------------------------------------------------------------------------
(* The heap. Places and exchanges.                                         *)

LEMMA Halves ==
    /\ \A x \in Nat : x > 1 => ParentOf(x) \in Nat /\ 1 <= ParentOf(x) /\ ParentOf(x) < x
    /\ \A x, c \in Nat : c > 1 => (ParentOf(c) = x <=> c = 2 * x \/ c = 2 * x + 1)
  BY DEF ParentOf

\* g has the elements of h, in some order.
Rearranged(g, h) == /\ g \in Seq(Elements) /\ Len(g) = Len(h)
                    /\ Entries(g) = Entries(h)
                    /\ Distinct(h) => Distinct(g)

LEMMA ExchangedFacts ==
    ASSUME NEW h \in Seq(Elements), NEW x \in 1 .. Len(h), NEW y \in 1 .. Len(h)
    PROVE  /\ Rearranged(Exchanged(h, x, y), h)
           /\ Exchanged(h, x, y)[x] = h[y] /\ Exchanged(h, x, y)[y] = h[x]
           /\ \A z \in 1 .. Len(h) : z # x /\ z # y => Exchanged(h, x, y)[z] = h[z]
<1> DEFINE g == Exchanged(h, x, y)
<1>1. Len(h) \in Nat /\ DOMAIN h = 1 .. Len(h) /\ \A z \in 1 .. Len(h) : h[z] \in Elements
  OBVIOUS
<1>2. g = [z \in 1 .. Len(h) |-> IF z = x THEN h[y] ELSE IF z = y THEN h[x] ELSE h[z]]
  BY <1>1 DEF Exchanged
<1>3. g \in Seq(Elements) /\ Len(g) = Len(h) /\ DOMAIN g = 1 .. Len(h)
  BY <1>1, <1>2
<1>4. g[x] = h[y] /\ g[y] = h[x] /\ \A z \in 1 .. Len(h) : z # x /\ z # y => g[z] = h[z]
  BY <1>2
<1> HIDE DEF g
<1>5. Entries(g) = Entries(h)
  <2>1. ASSUME NEW z \in 1 .. Len(h) PROVE g[z] \in Entries(h) /\ h[z] \in Entries(g)
    <3>1. CASE z = x
      BY <1>1, <1>3, <1>4, <3>1 DEF Entries
    <3>2. CASE z = y
      BY <1>1, <1>3, <1>4, <3>2 DEF Entries
    <3>3. CASE z # x /\ z # y
      BY <1>1, <1>3, <1>4, <3>3 DEF Entries
    <3> QED
      BY <3>1, <3>2, <3>3
  <2> QED
    BY <1>1, <1>3, <2>1 DEF Entries
<1>6. ASSUME Distinct(h) PROVE Distinct(g)
  <2> SUFFICES ASSUME NEW m \in 1 .. Len(h), NEW n \in 1 .. Len(h), g[m] = g[n] PROVE m = n
    BY <1>3 DEF Distinct
  <2>1. \A a, b \in 1 .. Len(h) : h[a] = h[b] => a = b
    BY <1>1, <1>6 DEF Distinct
  <2> QED
    BY <1>4, <2>1
<1> QED
  BY <1>3, <1>4, <1>5, <1>6 DEF Rearranged, g

LEMMA RearrangedTrans ==
    ASSUME NEW f, NEW g, NEW h, Rearranged(f, g), Rearranged(g, h) PROVE Rearranged(f, h)
  BY DEF Rearranged

-----------------------------------------------------------------------------
(* Order.                                                                  *)

\* The element at y does not come before its parent.
InOrderAt(h, q, y) == q[h[ParentOf(y)]] <= q[h[y]]
Ordered(h, q) == \A y \in 2 .. Len(h) : InOrderAt(h, q, y)

\* What a sift has at each turn of its loop: an array and a place in it.
Turns == {s \in [h : Seq(Elements), at : Nat] : s.at \in 1 .. Len(s.h)}

\* Around the moving element its parent and its children are in order.
Bridged(s, q) == \A y \in 2 .. Len(s.h) :
                     ParentOf(y) = s.at /\ s.at > 1 => q[s.h[ParentOf(s.at)]] <= q[s.h[y]]

\* All is in order but the moving element and its parent, or its children.
OrderedBelow(s, q) == /\ \A y \in 2 .. Len(s.h) : y # s.at => InOrderAt(s.h, q, y)
                      /\ Bridged(s, q)
OrderedAbove(s, q) == /\ \A y \in 2 .. Len(s.h) : ParentOf(y) # s.at => InOrderAt(s.h, q, y)
                      /\ Bridged(s, q)

\* The loop of bubble_up, or of percolate_down, is over.
UpRests(s, q) == s.at > 1 => InOrderAt(s.h, q, s.at)
DownRests(s, q) == \A y \in 2 .. Len(s.h) : ParentOf(y) = s.at => InOrderAt(s.h, q, y)

LEMMA UpTurn ==
    ASSUME NEW q \in [Elements -> Int], NEW s \in Turns
    PROVE  /\ Up(s, q) \in Turns /\ Rearranged(Up(s, q).h, s.h)
           /\ UpRests(s, q) => Up(s, q) = s
           /\ ~UpRests(s, q) => Up(s, q).at < s.at
           /\ OrderedBelow(s, q) => OrderedBelow(Up(s, q), q)
<1> DEFINE parent == ParentOf(s.at)
           t == Up(s, q)
<1>1. /\ s.h \in Seq(Elements) /\ s.at \in 1 .. Len(s.h) /\ s.at \in Nat /\ Len(s.h) \in Nat
      /\ DOMAIN s.h = 1 .. Len(s.h)
      /\ \A y \in 1 .. Len(s.h) : s.h[y] \in Elements /\ q[s.h[y]] \in Int
  BY DEF Turns
<1>2. s.at > 1 => parent \in 1 .. Len(s.h) /\ parent < s.at
  BY <1>1, Halves
<1>3. CASE UpRests(s, q)
  <2>1. ~(s.at > 1 /\ After(q[s.h[parent]], q[s.h[s.at]]))
    BY <1>1, <1>2, <1>3 DEF UpRests, InOrderAt, After
  <2>2. t = s
    BY <2>1 DEF Up
  <2> QED
    BY <1>1, <1>3, <2>2 DEF Rearranged
<1>4. CASE ~UpRests(s, q)
  <2>1. s.at > 1 /\ q[s.h[parent]] > q[s.h[s.at]] /\ parent \in 1 .. Len(s.h) /\ parent < s.at
    BY <1>1, <1>2, <1>4 DEF UpRests, InOrderAt
  <2>2. t = [h |-> Exchanged(s.h, s.at, parent), at |-> parent]
    BY <2>1 DEF Up, After
  <2> DEFINE g == Exchanged(s.h, s.at, parent)
  <2>3. /\ Rearranged(g, s.h)
        /\ g[s.at] = s.h[parent] /\ g[parent] = s.h[s.at]
        /\ \A z \in 1 .. Len(s.h) : z # s.at /\ z # parent => g[z] = s.h[z]
    BY <1>1, <2>1, ExchangedFacts
  <2>4. t \in Turns
    BY <1>1, <2>1, <2>2, <2>3 DEF Turns, Rearranged
  <2> HIDE DEF g
  <2>5. Len(g) = Len(s.h) /\ t.h = g /\ t.at = parent
    BY <2>2, <2>3 DEF Rearranged, g
  <2>6. ASSUME OrderedBelow(s, q) PROVE OrderedBelow(t, q)
    <3>1. /\ \A y \in 2 .. Len(s.h) : y # s.at => q[s.h[ParentOf(y)]] <= q[s.h[y]]
          /\ \A y \in 2 .. Len(s.h) : ParentOf(y) = s.at => q[s.h[parent]] <= q[s.h[y]]
      BY <2>1, <2>6 DEF OrderedBelow, Bridged, InOrderAt
    <3>2. \A y \in 2 .. Len(s.h) : /\ y \in Nat /\ y > 1 /\ y \in 1 .. Len(s.h)
                                   /\ ParentOf(y) \in 1 .. Len(s.h) /\ ParentOf(y) < y
      BY <1>1, Halves
    <3>3. ASSUME NEW y \in 2 .. Len(s.h), y # parent PROVE q[g[ParentOf(y)]] <= q[g[y]]
      <4> PICK a : a = ParentOf(y)
        OBVIOUS
      <4>0. a \in 1 .. Len(s.h) /\ a < y /\ y \in 1 .. Len(s.h)
        BY <3>2
      <4>1. CASE y = s.at
        BY SMTT(30), <1>1, <2>1, <2>3, <4>1
      <4>2. CASE y # s.at /\ a = s.at
        <5>1. g[a] = s.h[parent] /\ g[y] = s.h[y]
          BY <2>3, <3>3, <4>0, <4>2
        <5> QED
          BY <3>1, <4>2, <5>1
      <4>3. CASE y # s.at /\ a = parent
        <5>1. g[a] = s.h[s.at] /\ g[y] = s.h[y]
          BY <2>3, <3>3, <4>0, <4>3
        <5>2. q[s.h[parent]] <= q[s.h[y]]
          BY <3>1, <4>3
        <5>3. q[s.h[parent]] \in Int /\ q[s.h[s.at]] \in Int /\ q[s.h[y]] \in Int
          BY <1>1, <2>1, <4>0
        <5>4. q[s.h[s.at]] <= q[s.h[y]]
          BY <2>1, <5>2, <5>3
        <5> QED
          BY <5>1, <5>4
      <4>4. CASE y # s.at /\ a # s.at /\ a # parent
        <5>1. g[a] = s.h[a] /\ g[y] = s.h[y]
          BY <2>3, <3>3, <4>0, <4>4
        <5> QED
          BY <3>1, <4>4, <5>1
      <4> QED
        BY <4>1, <4>2, <4>3, <4>4
    <3>4. ASSUME NEW y \in 2 .. Len(s.h), ParentOf(y) = parent, parent > 1
          PROVE  q[g[ParentOf(parent)]] <= q[g[y]]
      <4>1. parent \in 2 .. Len(s.h)
        BY <2>1, <3>4
      <4> PICK b : b = ParentOf(parent)
        OBVIOUS
      <4>2. b \in 1 .. Len(s.h) /\ b < parent /\ q[s.h[b]] <= q[s.h[parent]] /\ g[b] = s.h[b]
        <5>1. b \in 1 .. Len(s.h) /\ b < parent
          BY <3>2, <4>1
        <5>2. b # s.at /\ b # parent
          BY <1>1, <2>1, <5>1
        <5>3. q[s.h[b]] <= q[s.h[parent]]
          BY <2>1, <3>1, <4>1
        <5> QED
          BY <2>3, <5>1, <5>2, <5>3
      <4>3. parent < y /\ y \in 1 .. Len(s.h)
        BY <3>2, <3>4
      <4>4. CASE y = s.at
        BY <2>3, <4>2, <4>4
      <4>5. CASE y # s.at
        <5>1. q[s.h[parent]] <= q[s.h[y]] /\ g[y] = s.h[y]
          BY <2>3, <3>1, <3>4, <4>3, <4>5
        <5> QED
          BY <1>1, <2>1, <4>2, <4>3, <5>1
      <4> QED
        BY <4>4, <4>5
    <3> QED
      BY <2>5, <3>3, <3>4 DEF OrderedBelow, Bridged, InOrderAt
  <2> QED
    BY <1>4, <2>1, <2>3, <2>4, <2>5, <2>6
<1> QED
  BY <1>3, <1>4

LEMMA MaxChildFacts ==
    ASSUME NEW q \in [Elements -> Int], NEW h \in Seq(Elements), NEW x \in 1 .. Len(h)
    PROVE  /\ \/ /\ MaxChild(h, q, x) = 0
                 /\ \A y \in 2 .. Len(h) : ParentOf(y) # x
              \/ /\ MaxChild(h, q, x) \in 2 .. Len(h)
                 /\ ParentOf(MaxChild(h, q, x)) = x
           /\ \A y \in 2 .. Len(h) :
                  ParentOf(y) = x => q[h[MaxChild(h, q, x)]] <= q[h[y]]
<1> DEFINE c == LeftOf(x)
           best == MaxChild(h, q, x)
<1>1. /\ Len(h) \in Nat /\ x \in Nat /\ x >= 1 /\ c = 2 * x /\ c \in Nat
      /\ \A y \in 1 .. Len(h) : h[y] \in Elements /\ q[h[y]] \in Int
  BY DEF LeftOf
<1>2. \A y \in 2 .. Len(h) : ParentOf(y) = x <=> y = 2 * x \/ y = 2 * x + 1
  <2>1. \A y \in 2 .. Len(h) : y \in Nat /\ y > 1
    OBVIOUS
  <2> QED
    BY <1>1, <2>1, Halves
<1>3. best = IF c > Len(h) THEN 0
             ELSE IF c + 1 <= Len(h) /\ After(q[h[c]], q[h[c + 1]]) THEN c + 1 ELSE c
  BY DEF MaxChild
<1> HIDE DEF c, best
<1>4. CASE c > Len(h)
  <2>1. \A y \in 2 .. Len(h) : ParentOf(y) # x
    BY <1>1, <1>2, <1>4
  <2> QED
    BY <1>3, <1>4, <2>1 DEF best
<1>5. CASE ~(c > Len(h)) /\ c + 1 <= Len(h) /\ After(q[h[c]], q[h[c + 1]])
  <2>1. best = c + 1 /\ best \in 2 .. Len(h) /\ ParentOf(best) = x
    BY <1>1, <1>2, <1>3, <1>5
  <2>2. q[h[c + 1]] <= q[h[c]]
    <3>1. c \in 1 .. Len(h) /\ c + 1 \in 1 .. Len(h)
      BY <1>1, <1>5
    <3>2. q[h[c]] \in Int /\ q[h[c + 1]] \in Int
      BY <1>1, <3>1
    <3> QED
      BY <1>5, <3>2 DEF After
  <2>3. q[h[c + 1]] <= q[h[c + 1]]
    <3>1. c + 1 \in 1 .. Len(h)
      BY <1>1, <1>5
    <3> QED
      BY <1>1, <3>1
  <2>4. \A y \in 2 .. Len(h) : ParentOf(y) = x => q[h[best]] <= q[h[y]]
    BY <1>1, <1>2, <2>1, <2>2, <2>3
  <2> QED
    BY <2>1, <2>4 DEF best
<1>6. CASE ~(c > Len(h)) /\ ~(c + 1 <= Len(h) /\ After(q[h[c]], q[h[c + 1]]))
  <2>1. best = c /\ best \in 2 .. Len(h) /\ ParentOf(best) = x
    <3>1. best = c
      BY <1>3, <1>6
    <3>2. c \in 2 .. Len(h)
      BY <1>1, <1>6
    <3> QED
      BY <1>1, <1>2, <3>1, <3>2
  <2>2. c + 1 <= Len(h) => q[h[c]] <= q[h[c + 1]]
    <3> SUFFICES ASSUME c + 1 <= Len(h) PROVE q[h[c]] <= q[h[c + 1]]
      OBVIOUS
    <3>1. c \in 1 .. Len(h) /\ c + 1 \in 1 .. Len(h)
      BY <1>1, <1>6
    <3>2. q[h[c]] \in Int /\ q[h[c + 1]] \in Int
      BY <1>1, <3>1
    <3> QED
      BY <1>6, <3>2 DEF After
  <2>3. q[h[c]] <= q[h[c]]
    <3>1. c \in 1 .. Len(h)
      BY <1>1, <1>6
    <3> QED
      BY <1>1, <3>1
  <2>4. \A y \in 2 .. Len(h) : ParentOf(y) = x => q[h[best]] <= q[h[y]]
    <3> SUFFICES ASSUME NEW y \in 2 .. Len(h), ParentOf(y) = x PROVE q[h[c]] <= q[h[y]]
      BY <2>1
    <3>1. y = c \/ (y = c + 1 /\ c + 1 <= Len(h))
      BY <1>1, <1>2
    <3> QED
      BY <2>2, <2>3, <3>1
  <2> QED
    BY <2>1, <2>4 DEF best
<1> QED
  BY <1>4, <1>5, <1>6

LEMMA DownTurn ==
    ASSUME NEW q \in [Elements -> Int], NEW s \in Turns
    PROVE  /\ Down(s, q) \in Turns /\ Rearranged(Down(s, q).h, s.h)
           /\ DownRests(s, q) => Down(s, q) = s
           /\ ~DownRests(s, q) => Down(s, q).at > s.at
           /\ OrderedAbove(s, q) => OrderedAbove(Down(s, q), q)
<1> DEFINE child == MaxChild(s.h, q, s.at)
           t == Down(s, q)
<1>1. /\ s.h \in Seq(Elements) /\ s.at \in 1 .. Len(s.h) /\ s.at \in Nat /\ Len(s.h) \in Nat
      /\ DOMAIN s.h = 1 .. Len(s.h)
      /\ \A y \in 1 .. Len(s.h) : s.h[y] \in Elements /\ q[s.h[y]] \in Int
  BY DEF Turns
<1>2. /\ \/ /\ child = 0
            /\ \A y \in 2 .. Len(s.h) : ParentOf(y) # s.at
         \/ /\ child \in 2 .. Len(s.h)
            /\ ParentOf(child) = s.at
      /\ \A y \in 2 .. Len(s.h) : ParentOf(y) = s.at => q[s.h[child]] <= q[s.h[y]]
  BY <1>1, MaxChildFacts
<1> HIDE DEF child
<1>3. CASE DownRests(s, q)
  <2>1. ~(child # 0 /\ After(q[s.h[s.at]], q[s.h[child]]))
    <3> SUFFICES ASSUME child # 0 PROVE ~After(q[s.h[s.at]], q[s.h[child]])
      OBVIOUS
    <3>1. child \in 2 .. Len(s.h) /\ ParentOf(child) = s.at /\ child \in 1 .. Len(s.h)
      BY <1>1, <1>2
    <3>2. q[s.h[s.at]] <= q[s.h[child]]
      BY <1>3, <3>1 DEF DownRests, InOrderAt
    <3> QED
      BY <1>1, <3>1, <3>2 DEF After
  <2>2. t = s
    BY <2>1 DEF Down, child
  <2> QED
    BY <1>1, <1>3, <2>2 DEF Rearranged
<1>4. CASE ~DownRests(s, q)
  <2>1. child # 0 /\ q[s.h[s.at]] > q[s.h[child]]
    <3>1. PICK y \in 2 .. Len(s.h) : ParentOf(y) = s.at /\ ~(q[s.h[s.at]] <= q[s.h[y]])
      BY <1>4 DEF DownRests, InOrderAt
    <3>2. child \in 1 .. Len(s.h) /\ y \in 1 .. Len(s.h) /\ child # 0
      BY <1>1, <1>2, <3>1
    <3>3. q[s.h[child]] <= q[s.h[y]]
      BY <1>2, <3>1
    <3>4. q[s.h[child]] \in Int /\ q[s.h[y]] \in Int /\ q[s.h[s.at]] \in Int
      BY <1>1, <3>2
    <3> QED
      BY <3>1, <3>2, <3>3, <3>4
  <2>2. t = [h |-> Exchanged(s.h, s.at, child), at |-> child]
    BY <2>1 DEF Down, After, child
  <2>3. child \in 2 .. Len(s.h) /\ child \in 1 .. Len(s.h) /\ ParentOf(child) = s.at /\ child > s.at
    <3>1. child \in 2 .. Len(s.h) /\ ParentOf(child) = s.at
      BY <1>2, <2>1
    <3>2. child \in Nat /\ child > 1
      BY <3>1
    <3> QED
      BY <1>1, <3>1, <3>2, Halves
  <2> DEFINE g == Exchanged(s.h, s.at, child)
  <2>4. /\ Rearranged(g, s.h)
        /\ g[s.at] = s.h[child] /\ g[child] = s.h[s.at]
        /\ \A z \in 1 .. Len(s.h) : z # s.at /\ z # child => g[z] = s.h[z]
    BY <1>1, <2>3, ExchangedFacts
  <2>5. t \in Turns
    BY <1>1, <2>2, <2>3, <2>4 DEF Turns, Rearranged
  <2> HIDE DEF g
  <2>6. Len(g) = Len(s.h) /\ t.h = g /\ t.at = child
    BY <2>2, <2>4 DEF Rearranged, g
  <2>7. ASSUME OrderedAbove(s, q) PROVE OrderedAbove(t, q)
    <3>1. /\ \A y \in 2 .. Len(s.h) : ParentOf(y) # s.at => q[s.h[ParentOf(y)]] <= q[s.h[y]]
          /\ \A y \in 2 .. Len(s.h) : ParentOf(y) = s.at /\ s.at > 1 =>
                 q[s.h[ParentOf(s.at)]] <= q[s.h[y]]
      BY <2>7 DEF OrderedAbove, Bridged, InOrderAt
    <3>2. \A y \in 2 .. Len(s.h) : /\ y \in Nat /\ y > 1 /\ y \in 1 .. Len(s.h)
                                   /\ ParentOf(y) \in 1 .. Len(s.h) /\ ParentOf(y) < y
      BY <1>1, Halves
    <3>3. ASSUME NEW y \in 2 .. Len(s.h), ParentOf(y) # child PROVE q[g[ParentOf(y)]] <= q[g[y]]
      <4> PICK a : a = ParentOf(y)
        OBVIOUS
      <4>0. a \in 1 .. Len(s.h) /\ a < y /\ y \in 1 .. Len(s.h)
        BY <3>2
      <4>1. CASE y = child
        BY SMTT(30), <1>1, <2>1, <2>3, <2>4, <4>0, <4>1
      <4>2. CASE y # child /\ a = s.at
        <5>1. g[a] = s.h[child] /\ g[y] = s.h[y]
          BY <2>4, <4>0, <4>2
        <5> QED
          BY <1>2, <4>2, <5>1
      <4>3. CASE y # child /\ y = s.at
        <5>1. g[a] = s.h[a] /\ g[y] = s.h[child]
          BY <1>1, <2>4, <3>3, <4>0, <4>3
        <5>2. q[s.h[a]] <= q[s.h[child]]
          BY <1>1, <2>3, <3>1, <4>0, <4>3
        <5> QED
          BY <5>1, <5>2
      <4>4. CASE y # child /\ a # s.at /\ y # s.at
        <5>1. g[a] = s.h[a] /\ g[y] = s.h[y]
          BY <2>4, <3>3, <4>0, <4>4
        <5> QED
          BY <3>1, <4>4, <5>1
      <4> QED
        BY <4>1, <4>2, <4>3, <4>4
    <3>4. ASSUME NEW y \in 2 .. Len(s.h), ParentOf(y) = child
          PROVE  q[g[ParentOf(child)]] <= q[g[y]]
      <4>1. child < y /\ y \in 1 .. Len(s.h) /\ y # s.at /\ y # child
        BY <1>1, <2>3, <3>2, <3>4
      <4>2. g[y] = s.h[y] /\ g[ParentOf(child)] = s.h[child]
        BY <2>3, <2>4, <4>1
      <4>3. q[s.h[child]] <= q[s.h[y]]
        BY SMTT(30), <1>1, <2>3, <3>1, <3>4
      <4> QED
        BY <4>2, <4>3
    <3> QED
      BY <2>6, <3>3, <3>4 DEF OrderedAbove, Bridged, InOrderAt
  <2> QED
    BY <1>4, <2>3, <2>4, <2>5, <2>6, <2>7
<1> QED
  BY <1>3, <1>4

-----------------------------------------------------------------------------
(* The loops of the sifts. They end: the moving element has less than the  *)
(* length of the array to go.                                              *)

\* A loop of m turns, each of which does the same.
Loops(f, m, c, turn) == f[0] = c /\ \A n \in 1 .. m : f[n] = turn[f[n - 1]]

LEMMA Loop ==
    ASSUME NEW m \in Nat, NEW S, NEW c \in S, NEW turn \in [S -> S]
    PROVE  \E f \in [0 .. m -> S] : Loops(f, m, c, turn)
<1> DEFINE turns == [n \in 1 .. m |-> turn]
<1>1. turns \in [1 .. m -> [S -> S]]
  OBVIOUS
<1>2. \A n \in 1 .. m : turns[n] = turn
  OBVIOUS
<1> HIDE DEF turns
<1>3. PICK f \in [0 .. m -> S] : Iterates(f, m, c, turns)
  BY <1>1, Recursion
<1>4. Loops(f, m, c, turn)
  BY <1>2, <1>3 DEF Iterates, Loops
<1> QED
  BY <1>4

\* f has the turns of bubble_up.
BubbleUpRuns(f, h, q, x) == /\ f[0] = [h |-> h, at |-> x]
                            /\ \A n \in 1 .. Len(h) : f[n] = Up(f[n - 1], q)
                            /\ BubbleUp(h, q, x) = f[Len(h)].h

LEMMA BubbleUpTurns ==
    ASSUME NEW q \in [Elements -> Int], NEW h \in Seq(Elements), NEW x \in 1 .. Len(h)
    PROVE  \E f \in [0 .. Len(h) -> Turns] : BubbleUpRuns(f, h, q, x)
<1> DEFINE c == [h |-> h, at |-> x]
           turn == [s \in Turns |-> Up(s, q)]
           m == Len(h)
           Runs(f) == f = [n \in 0 .. m |-> IF n = 0 THEN c ELSE Up(f[n - 1], q)]
<1>1. m \in Nat /\ c \in Turns /\ turn \in [Turns -> Turns]
  <2>1. \A s \in Turns : Up(s, q) \in Turns
    BY UpTurn
  <2> QED
    BY <2>1 DEF Turns
<1>2. \A s \in Turns : turn[s] = Up(s, q)
  OBVIOUS
<1> HIDE DEF c, turn, m
<1>3. PICK f \in [0 .. m -> Turns] : Loops(f, m, c, turn)
  BY <1>1, Loop
<1>4. \A n \in 0 .. m : f[n] = IF n = 0 THEN c ELSE Up(f[n - 1], q)
  <2>1. f[0] = c /\ \A n \in 1 .. m : f[n] = turn[f[n - 1]]
    BY <1>3 DEF Loops
  <2>2. \A n \in 1 .. m : f[n - 1] \in Turns
    <3>1. \A n \in 1 .. m : n - 1 \in 0 .. m
      BY <1>1
    <3> QED
      BY <1>3, <3>1
  <2>3. \A n \in 0 .. m : n = 0 \/ n \in 1 .. m
    BY <1>1
  <2> QED
    BY <1>2, <2>1, <2>2, <2>3
<1>5. Runs(f)
  <2>1. f = [n \in 0 .. m |-> f[n]]
    BY <1>3
  <2> QED
    BY <1>4, <2>1
<1>6. PICK g : Runs(g) /\ BubbleUp(h, q, x) = g[m].h
  <2> DEFINE chosen == CHOOSE g : Runs(g)
  <2>1. BubbleUp(h, q, x) = chosen[m].h
    BY DEF BubbleUp, c, m
  <2>2. \E g : Runs(g)
    BY <1>5
  <2> HIDE DEF Runs
  <2>3. Runs(chosen)
    BY <2>2
  <2> HIDE DEF chosen
  <2> QED
    BY <2>1, <2>3
<1>7. g[0] = c /\ \A n \in 1 .. m : g[n] = Up(g[n - 1], q)
  <2>1. \A n \in 0 .. m : g[n] = IF n = 0 THEN c ELSE Up(g[n - 1], q)
    BY <1>6
  <2>2. 0 \in 0 .. m /\ \A n \in 1 .. m : n \in 0 .. m /\ n # 0
    BY <1>1
  <2> HIDE DEF Runs
  <2> QED
    BY <2>1, <2>2
<1>8. \A n \in 0 .. m : g[n] \in Turns
  <2> DEFINE T == {n \in Nat : g[n] \in Turns}
  <2>1. 0 \in T
    BY <1>1, <1>7
  <2>2. \A n \in 1 .. m : n - 1 \in T => n \in T
    <3> SUFFICES ASSUME NEW n \in 1 .. m, g[n - 1] \in Turns PROVE g[n] \in Turns
      BY <1>1
    <3>1. Up(g[n - 1], q) \in Turns
      BY UpTurn
    <3> QED
      BY <1>7, <3>1
  <2>3. 0 .. m \subseteq T
    <3> HIDE DEF T
    <3> QED
      BY <1>1, <2>1, <2>2, Induction
  <2> QED
    BY <2>3
<1> DEFINE e == [n \in 0 .. m |-> g[n]]
<1>9. /\ e \in [0 .. m -> Turns] /\ e[0] = c /\ e[m] = g[m]
      /\ \A n \in 1 .. m : e[n] = Up(e[n - 1], q)
  <2>1. 0 \in 0 .. m /\ m \in 0 .. m /\ \A n \in 1 .. m : n \in 0 .. m /\ n - 1 \in 0 .. m
    BY <1>1
  <2>2. \A n \in 0 .. m : e[n] = g[n]
    OBVIOUS
  <2>3. e \in [0 .. m -> Turns]
    BY <1>8
  <2> HIDE DEF e, Runs
  <2> QED
    BY <1>7, <2>1, <2>2, <2>3
<1> HIDE DEF e, Runs
<1>10. BubbleUpRuns(e, h, q, x)
  BY <1>6, <1>9 DEF BubbleUpRuns, c, m
<1> QED
  BY <1>9, <1>10 DEF m

\* bubble_up restores the order from a place whose parent may come after it.
LEMMA BubbleUpRight ==
    ASSUME NEW q \in [Elements -> Int], NEW h \in Seq(Elements), NEW x \in 1 .. Len(h),
           OrderedBelow([h |-> h, at |-> x], q)
    PROVE  Rearranged(BubbleUp(h, q, x), h) /\ Ordered(BubbleUp(h, q, x), q)
<1> DEFINE m == Len(h)
<1>0. m \in Nat /\ x \in Nat /\ x <= m /\ Rearranged(h, h)
  BY DEF Rearranged
<1> PICK f \in [0 .. Len(h) -> Turns] : BubbleUpRuns(f, h, q, x)
  BY BubbleUpTurns
<1>1. /\ f \in [0 .. m -> Turns]
      /\ f[0] = [h |-> h, at |-> x]
      /\ \A n \in 1 .. m : f[n] = Up(f[n - 1], q)
      /\ BubbleUp(h, q, x) = f[m].h
  BY DEF BubbleUpRuns
<1> HIDE DEF m
<1> DEFINE T == {n \in Nat : /\ Rearranged(f[n].h, h)
                             /\ OrderedBelow(f[n], q)
                             /\ UpRests(f[n], q) \/ f[n].at <= x - n}
<1>2. 0 \in T
  <2>1. f[0].h = h /\ f[0].at = x
    BY <1>1
  <2> QED
    BY <1>0, <1>1, <2>1
<1>3. ASSUME NEW n \in 1 .. m, n - 1 \in T PROVE n \in T
  <2> PICK k : k = n - 1
    OBVIOUS
  <2> PICK s : s = f[k]
    OBVIOUS
  <2>0. n \in Nat /\ k \in 0 .. m
    BY <1>0
  <2>1. s \in Turns /\ f[n] = Up(s, q)
    BY <1>1, <2>0
  <2>2. Rearranged(s.h, h) /\ OrderedBelow(s, q) /\ (UpRests(s, q) \/ s.at <= x - k)
    BY <1>3
  <2>3. Rearranged(f[n].h, h) /\ OrderedBelow(f[n], q) /\ f[n] \in Turns
    <3>1. Rearranged(Up(s, q).h, s.h) /\ OrderedBelow(Up(s, q), q) /\ Up(s, q) \in Turns
      BY <2>1, <2>2, UpTurn
    <3> QED
      BY <2>1, <2>2, <3>1, RearrangedTrans
  <2>4. UpRests(f[n], q) \/ f[n].at <= x - n
    <3>1. CASE UpRests(s, q)
      <4>1. Up(s, q) = s
        BY <2>1, <3>1, UpTurn
      <4> QED
        BY <2>1, <3>1, <4>1
    <3>2. CASE ~UpRests(s, q)
      <4>1. Up(s, q).at < s.at
        BY <2>1, <3>2, UpTurn
      <4>2. s.at \in Nat /\ f[n].at \in Nat /\ f[n].at < s.at /\ s.at <= x - k
        BY <2>1, <2>2, <2>3, <3>2, <4>1 DEF Turns
      <4> QED
        BY <1>0, <2>0, <4>2
    <3> QED
      BY <3>1, <3>2
  <2> QED
    BY <2>0, <2>3, <2>4
<1>4. m \in T
  <2>1. \A n \in 1 .. m : n - 1 \in T => n \in T
    BY <1>3
  <2> HIDE DEF T
  <2>2. 0 .. m \subseteq T
    BY <1>0, <1>2, <2>1, Induction
  <2> QED
    BY <1>0, <2>2
<1> PICK s : s = f[m]
  OBVIOUS
<1>5. s \in Turns /\ Rearranged(s.h, h) /\ OrderedBelow(s, q) /\ (UpRests(s, q) \/ s.at <= x - m)
  BY <1>0, <1>1, <1>4
<1>6. UpRests(s, q)
  <2>1. s.at \in Nat /\ s.at >= 1
    BY <1>5 DEF Turns
  <2> QED
    BY <1>0, <1>5, <2>1
<1>7. Ordered(s.h, q)
  <2> SUFFICES ASSUME NEW y \in 2 .. Len(s.h) PROVE InOrderAt(s.h, q, y)
    BY DEF Ordered
  <2>1. CASE y = s.at
    BY <1>6, <2>1 DEF UpRests
  <2>2. CASE y # s.at
    BY <1>5, <2>2 DEF OrderedBelow
  <2> QED
    BY <2>1, <2>2
<1> QED
  BY <1>1, <1>5, <1>7

\* The same for percolate_down.
PercolateDownRuns(f, h, q, x) == /\ f[0] = [h |-> h, at |-> x]
                                 /\ \A n \in 1 .. Len(h) : f[n] = Down(f[n - 1], q)
                                 /\ PercolateDown(h, q, x) = f[Len(h)].h

LEMMA PercolateDownTurns ==
    ASSUME NEW q \in [Elements -> Int], NEW h \in Seq(Elements), NEW x \in 1 .. Len(h)
    PROVE  \E f \in [0 .. Len(h) -> Turns] : PercolateDownRuns(f, h, q, x)
<1> DEFINE c == [h |-> h, at |-> x]
           turn == [s \in Turns |-> Down(s, q)]
           m == Len(h)
           Runs(f) == f = [n \in 0 .. m |-> IF n = 0 THEN c ELSE Down(f[n - 1], q)]
<1>1. m \in Nat /\ c \in Turns /\ turn \in [Turns -> Turns]
  <2>1. \A s \in Turns : Down(s, q) \in Turns
    BY DownTurn
  <2> QED
    BY <2>1 DEF Turns
<1>2. \A s \in Turns : turn[s] = Down(s, q)
  OBVIOUS
<1> HIDE DEF c, turn, m
<1>3. PICK f \in [0 .. m -> Turns] : Loops(f, m, c, turn)
  BY <1>1, Loop
<1>4. \A n \in 0 .. m : f[n] = IF n = 0 THEN c ELSE Down(f[n - 1], q)
  <2>1. f[0] = c /\ \A n \in 1 .. m : f[n] = turn[f[n - 1]]
    BY <1>3 DEF Loops
  <2>2. \A n \in 1 .. m : f[n - 1] \in Turns
    <3>1. \A n \in 1 .. m : n - 1 \in 0 .. m
      BY <1>1
    <3> QED
      BY <1>3, <3>1
  <2>3. \A n \in 0 .. m : n = 0 \/ n \in 1 .. m
    BY <1>1
  <2> QED
    BY <1>2, <2>1, <2>2, <2>3
<1>5. Runs(f)
  <2>1. f = [n \in 0 .. m |-> f[n]]
    BY <1>3
  <2> QED
    BY <1>4, <2>1
<1>6. PICK g : Runs(g) /\ PercolateDown(h, q, x) = g[m].h
  <2> DEFINE chosen == CHOOSE g : Runs(g)
  <2>1. PercolateDown(h, q, x) = chosen[m].h
    BY DEF PercolateDown, c, m
  <2>2. \E g : Runs(g)
    BY <1>5
  <2> HIDE DEF Runs
  <2>3. Runs(chosen)
    BY <2>2
  <2> HIDE DEF chosen
  <2> QED
    BY <2>1, <2>3
<1>7. g[0] = c /\ \A n \in 1 .. m : g[n] = Down(g[n - 1], q)
  <2>1. \A n \in 0 .. m : g[n] = IF n = 0 THEN c ELSE Down(g[n - 1], q)
    BY <1>6
  <2>2. 0 \in 0 .. m /\ \A n \in 1 .. m : n \in 0 .. m /\ n # 0
    BY <1>1
  <2> HIDE DEF Runs
  <2> QED
    BY <2>1, <2>2
<1>8. \A n \in 0 .. m : g[n] \in Turns
  <2> DEFINE T == {n \in Nat : g[n] \in Turns}
  <2>1. 0 \in T
    BY <1>1, <1>7
  <2>2. \A n \in 1 .. m : n - 1 \in T => n \in T
    <3> SUFFICES ASSUME NEW n \in 1 .. m, g[n - 1] \in Turns PROVE g[n] \in Turns
      BY <1>1
    <3>1. Down(g[n - 1], q) \in Turns
      BY DownTurn
    <3> QED
      BY <1>7, <3>1
  <2>3. 0 .. m \subseteq T
    <3> HIDE DEF T
    <3> QED
      BY <1>1, <2>1, <2>2, Induction
  <2> QED
    BY <2>3
<1> DEFINE e == [n \in 0 .. m |-> g[n]]
<1>9. /\ e \in [0 .. m -> Turns] /\ e[0] = c /\ e[m] = g[m]
      /\ \A n \in 1 .. m : e[n] = Down(e[n - 1], q)
  <2>1. 0 \in 0 .. m /\ m \in 0 .. m /\ \A n \in 1 .. m : n \in 0 .. m /\ n - 1 \in 0 .. m
    BY <1>1
  <2>2. \A n \in 0 .. m : e[n] = g[n]
    OBVIOUS
  <2>3. e \in [0 .. m -> Turns]
    BY <1>8
  <2> HIDE DEF e, Runs
  <2> QED
    BY <1>7, <2>1, <2>2, <2>3
<1> HIDE DEF e, Runs
<1>10. PercolateDownRuns(e, h, q, x)
  BY <1>6, <1>9 DEF PercolateDownRuns, c, m
<1> QED
  BY <1>9, <1>10 DEF m

\* percolate_down restores the order from a place whose children may come before it.
LEMMA PercolateDownRight ==
    ASSUME NEW q \in [Elements -> Int], NEW h \in Seq(Elements), NEW x \in 1 .. Len(h),
           OrderedAbove([h |-> h, at |-> x], q)
    PROVE  Rearranged(PercolateDown(h, q, x), h) /\ Ordered(PercolateDown(h, q, x), q)
<1> DEFINE m == Len(h)
<1>0. m \in Nat /\ x \in Nat /\ x >= 1 /\ Rearranged(h, h)
  BY DEF Rearranged
<1> PICK f \in [0 .. Len(h) -> Turns] : PercolateDownRuns(f, h, q, x)
  BY PercolateDownTurns
<1>1. /\ f \in [0 .. m -> Turns]
      /\ f[0] = [h |-> h, at |-> x]
      /\ \A n \in 1 .. m : f[n] = Down(f[n - 1], q)
      /\ PercolateDown(h, q, x) = f[m].h
  BY DEF PercolateDownRuns
<1> HIDE DEF m
<1> DEFINE T == {n \in Nat : /\ Rearranged(f[n].h, h)
                             /\ OrderedAbove(f[n], q)
                             /\ DownRests(f[n], q) \/ f[n].at >= x + n}
<1>2. 0 \in T
  <2>1. f[0].h = h /\ f[0].at = x
    BY <1>1
  <2> QED
    BY <1>0, <1>1, <2>1
<1>3. ASSUME NEW n \in 1 .. m, n - 1 \in T PROVE n \in T
  <2> PICK k : k = n - 1
    OBVIOUS
  <2> PICK s : s = f[k]
    OBVIOUS
  <2>0. n \in Nat /\ k \in 0 .. m
    BY <1>0
  <2>1. s \in Turns /\ f[n] = Down(s, q)
    BY <1>1, <2>0
  <2>2. Rearranged(s.h, h) /\ OrderedAbove(s, q) /\ (DownRests(s, q) \/ s.at >= x + k)
    BY <1>3
  <2>3. Rearranged(f[n].h, h) /\ OrderedAbove(f[n], q) /\ f[n] \in Turns
    <3>1. Rearranged(Down(s, q).h, s.h) /\ OrderedAbove(Down(s, q), q) /\ Down(s, q) \in Turns
      BY <2>1, <2>2, DownTurn
    <3> QED
      BY <2>1, <2>2, <3>1, RearrangedTrans
  <2>4. DownRests(f[n], q) \/ f[n].at >= x + n
    <3>1. CASE DownRests(s, q)
      <4>1. Down(s, q) = s
        BY <2>1, <3>1, DownTurn
      <4> QED
        BY <2>1, <3>1, <4>1
    <3>2. CASE ~DownRests(s, q)
      <4>1. Down(s, q).at > s.at
        BY <2>1, <3>2, DownTurn
      <4>2. s.at \in Nat /\ f[n].at \in Nat /\ f[n].at > s.at /\ s.at >= x + k
        BY <2>1, <2>2, <2>3, <3>2, <4>1 DEF Turns
      <4> QED
        BY <1>0, <2>0, <4>2
    <3> QED
      BY <3>1, <3>2
  <2> QED
    BY <2>0, <2>3, <2>4
<1>4. m \in T
  <2>1. \A n \in 1 .. m : n - 1 \in T => n \in T
    BY <1>3
  <2> HIDE DEF T
  <2>2. 0 .. m \subseteq T
    BY <1>0, <1>2, <2>1, Induction
  <2> QED
    BY <1>0, <2>2
<1> PICK s : s = f[m]
  OBVIOUS
<1>5. s \in Turns /\ Rearranged(s.h, h) /\ OrderedAbove(s, q) /\ (DownRests(s, q) \/ s.at >= x + m)
  BY <1>0, <1>1, <1>4
<1>6. DownRests(s, q)
  <2>1. s.at \in Nat /\ s.at <= m
    BY <1>0, <1>5 DEF Turns, Rearranged, m
  <2> QED
    BY <1>0, <1>5, <2>1
<1>7. Ordered(s.h, q)
  <2> SUFFICES ASSUME NEW y \in 2 .. Len(s.h) PROVE InOrderAt(s.h, q, y)
    BY DEF Ordered
  <2>1. CASE ParentOf(y) = s.at
    BY <1>6, <2>1 DEF DownRests
  <2>2. CASE ParentOf(y) # s.at
    BY <1>5, <2>2 DEF OrderedAbove
  <2> QED
    BY <2>1, <2>2
<1> QED
  BY <1>1, <1>5, <1>7

-----------------------------------------------------------------------------
(* The places elements carry.                                              *)

\* What every operation needs and keeps: types, a stride that grows the array,
\* and the order, here of all elements with their parents.
HeapInv == /\ PQueueTypeOK
           /\ step >= 1
           /\ Ordered(d, pri)

LEMMA HeapTypes ==
    ASSUME HeapInv
    PROVE  /\ d \in Seq(Elements) /\ Len(d) \in Nat /\ DOMAIN d = 1 .. Len(d)
           /\ \A x \in 1 .. Len(d) : d[x] \in Elements /\ pos[d[x]] = x
           /\ pri \in [Elements -> Int] /\ pri \in [Elements -> Priorities]
           /\ Distinct(d) /\ Content = Entries(d)
           /\ popped \in Elements \cup {NoElement}
<1>1. d \in Seq(Elements) /\ pri \in [Elements -> Priorities]
      /\ \A x \in DOMAIN d : pos[d[x]] = x
  BY DEF HeapInv, PQueueTypeOK
<1>2. pri \in [Elements -> Int]
  BY <1>1, PrioritiesAssumption
<1>3. Len(d) \in Nat /\ DOMAIN d = 1 .. Len(d) /\ \A x \in 1 .. Len(d) : d[x] \in Elements
  BY <1>1
<1>4. Distinct(d)
  BY <1>1 DEF Distinct
<1>5. Content = Entries(d)
  BY DEF Content, Entries
<1> QED
  BY <1>1, <1>2, <1>3, <1>4, <1>5 DEF HeapInv, PQueueTypeOK

\* set_pos for the places that change is enough.
LEMMA PlacesRight ==
    ASSUME HeapInv, NEW h \in Seq(Elements), Distinct(h), NEW x \in DOMAIN h
    PROVE  PosAfter(h)[h[x]] = x
<1>1. h[x] \in Elements
  OBVIOUS
<1>2. PosAfter(h)[h[x]] = NewPlace(h, h[x])
  BY <1>1 DEF PosAfter
<1>3. CASE x > Len(d) \/ d[x] # h[x]
  <2>1. NewPlace(h, h[x]) = CHOOSE y \in DOMAIN h : h[y] = h[x]
    BY <1>3 DEF NewPlace
  <2> DEFINE z == CHOOSE y \in DOMAIN h : h[y] = h[x]
  <2>2. z \in DOMAIN h /\ h[z] = h[x]
    OBVIOUS
  <2> HIDE DEF z
  <2>3. z = x
    BY <2>2 DEF Distinct
  <2> QED
    BY <1>2, <2>1, <2>3 DEF z
<1>4. CASE ~(x > Len(d)) /\ d[x] = h[x]
  <2>1. x \in 1 .. Len(d)
    BY <1>4, HeapTypes
  <2>2. pos[h[x]] = x
    BY <1>4, <2>1, HeapTypes
  <2>3. \A y \in DOMAIN h : h[y] = h[x] => y = x
    BY DEF Distinct
  <2>4. NewPlace(h, h[x]) = pos[h[x]]
    BY <1>4, <2>3 DEF NewPlace
  <2> QED
    BY <1>2, <2>2, <2>4
<1> QED
  BY <1>3, <1>4

\* What is left to show of an operation that has come to array h.
LEMMA Reached ==
    ASSUME HeapInv, NEW h \in Seq(Elements), Distinct(h), Ordered(h, pri'),
           d' = h, pos' = PosAfter(h), avail' \in Nat, Len(h) + 1 <= avail', UNCHANGED step,
           pri' \in [Elements -> Priorities], popped' \in Elements \cup {NoElement}
    PROVE  HeapInv' /\ Content' = Entries(h)
<1>1. \A x \in DOMAIN h : pos'[h[x]] = x
  BY PlacesRight
<1>2. step \in Nat /\ step >= 1
  BY DEF HeapInv, PQueueTypeOK
<1>3. PQueueTypeOK'
  BY <1>1, <1>2 DEF PQueueTypeOK, Size
<1>4. Content' = Entries(h)
  BY DEF Content, Entries
<1> QED
  BY <1>2, <1>3, <1>4 DEF HeapInv

-----------------------------------------------------------------------------
(* The order in the array before a sift.                                   *)

\* The first element comes before all others, or with them.
LEMMA RootLeast ==
    ASSUME HeapInv
    PROVE  \A x \in 1 .. Len(d) : pri[d[1]] <= pri[d[x]]
<1>0. Len(d) \in Nat /\ \A x \in 1 .. Len(d) : d[x] \in Elements /\ pri[d[x]] \in Int
  BY HeapTypes
<1> DEFINE m == Len(d)
           T == {n \in Nat : \A x \in 1 .. n : pri[d[1]] <= pri[d[x]]}
<1>1. 0 \in T
  OBVIOUS
<1>2. ASSUME NEW n \in 1 .. m, n - 1 \in T PROVE n \in T
  <2> PICK k : k = n - 1
    OBVIOUS
  <2>1. \A x \in 1 .. k : pri[d[1]] <= pri[d[x]]
    BY <1>2
  <2>2. n \in Nat /\ 1 \in 1 .. m
    BY <1>0
  <2>3. pri[d[1]] <= pri[d[n]]
    <3>1. CASE n = 1
      BY <1>0, <2>2, <3>1
    <3>2. CASE n # 1
      <4>1. n \in 2 .. Len(d) /\ n > 1
        BY <1>0, <3>2
      <4> PICK a : a = ParentOf(n)
        OBVIOUS
      <4>2. a \in 1 .. k /\ a \in 1 .. m
        BY <1>0, <2>2, <4>1, Halves
      <4>3. pri[d[a]] <= pri[d[n]]
        BY <4>1 DEF HeapInv, Ordered, InOrderAt
      <4>4. pri[d[1]] <= pri[d[a]]
        BY <2>1, <4>2
      <4>5. pri[d[1]] \in Int /\ pri[d[a]] \in Int /\ pri[d[n]] \in Int
        BY <1>0, <2>2, <4>2
      <4> QED
        BY <4>3, <4>4, <4>5
    <3> QED
      BY <3>1, <3>2
  <2>4. \A x \in 1 .. n : x \in 1 .. k \/ x = n
    BY <2>2
  <2> QED
    BY <2>1, <2>2, <2>3, <2>4
<1>3. m \in T
  <2>1. \A n \in 1 .. m : n - 1 \in T => n \in T
    BY <1>2
  <2> HIDE DEF T
  <2>2. 0 .. m \subseteq T
    BY <1>0, <1>1, <2>1, Induction
  <2> QED
    BY <1>0, <2>2
<1> QED
  BY <1>3

\* Another element at place x, or another priority of the one there, leaves the
\* order broken to one side only.
LEMMA OneSide ==
    ASSUME HeapInv, NEW q \in [Elements -> Int], NEW h \in Seq(Elements), Len(h) <= Len(d),
           NEW x \in 1 .. Len(h),
           \A y \in 1 .. Len(h) : y # x => h[y] = d[y] /\ q[h[y]] = pri[d[y]]
    PROVE  LET s == [h |-> h, at |-> x] IN
           /\ q[h[x]] <= pri[d[x]] => OrderedBelow(s, q)
           /\ pri[d[x]] <= q[h[x]] => OrderedAbove(s, q)
<1> DEFINE s == [h |-> h, at |-> x]
<1>0. /\ Len(h) \in Nat /\ x \in Nat /\ s.h = h /\ s.at = x
      /\ \A y \in 1 .. Len(h) : y \in 1 .. Len(d) /\ pri[d[y]] \in Int /\ q[h[y]] \in Int
  <2>1. Len(h) \in Nat /\ Len(d) \in Nat /\ \A y \in 1 .. Len(h) : h[y] \in Elements
    BY SMTT(30), HeapTypes
  <2>2. \A y \in 1 .. Len(h) : y \in 1 .. Len(d)
    BY <2>1
  <2>3. \A y \in 1 .. Len(d) : pri[d[y]] \in Int
    BY HeapTypes
  <2> QED
    BY <2>1, <2>2, <2>3
<1> HIDE DEF s
<1>1. \A y \in 2 .. Len(h) : /\ y \in 1 .. Len(h) /\ ParentOf(y) \in 1 .. Len(h) /\ ParentOf(y) # y
                             /\ pri[d[ParentOf(y)]] <= pri[d[y]]
  <2> SUFFICES ASSUME NEW y \in 2 .. Len(h)
               PROVE  /\ y \in 1 .. Len(h) /\ ParentOf(y) \in 1 .. Len(h) /\ ParentOf(y) # y
                      /\ pri[d[ParentOf(y)]] <= pri[d[y]]
    OBVIOUS
  <2>1. y \in Nat /\ y > 1 /\ y \in 1 .. Len(h) /\ y \in 2 .. Len(d)
    BY <1>0, HeapTypes
  <2>2. ParentOf(y) \in 1 .. Len(h) /\ ParentOf(y) # y
    BY <1>0, <2>1, Halves
  <2> QED
    BY <2>1, <2>2 DEF HeapInv, Ordered, InOrderAt
<1>2. \A y \in 2 .. Len(h) : y # x /\ ParentOf(y) # x => InOrderAt(h, q, y)
  BY <1>1 DEF InOrderAt
<1>3. Bridged(s, q)
  <2> SUFFICES ASSUME NEW y \in 2 .. Len(h), ParentOf(y) = x, x > 1
               PROVE  q[h[ParentOf(x)]] <= q[h[y]]
    BY <1>0 DEF Bridged
  <2>1. y # x /\ y \in 1 .. Len(h) /\ pri[d[x]] <= pri[d[y]]
    BY <1>1
  <2> PICK a : a = ParentOf(x)
    OBVIOUS
  <2>2. x \in 2 .. Len(h)
    BY <1>0
  <2>3. a \in 1 .. Len(h) /\ a # x /\ pri[d[a]] <= pri[d[x]]
    BY <1>1, <2>2
  <2>4. q[h[a]] = pri[d[a]] /\ q[h[y]] = pri[d[y]]
    BY <2>1, <2>3
  <2>5. pri[d[a]] \in Int /\ pri[d[x]] \in Int /\ pri[d[y]] \in Int
    BY <1>0, <2>1, <2>3
  <2> QED
    BY SMTT(30), <2>1, <2>3, <2>4, <2>5
<1>4. ASSUME q[h[x]] <= pri[d[x]] PROVE OrderedBelow(s, q)
  <2> SUFFICES ASSUME NEW y \in 2 .. Len(h), y # x, ParentOf(y) = x PROVE q[h[x]] <= q[h[y]]
    BY <1>0, <1>2, <1>3 DEF OrderedBelow, InOrderAt
  <2>1. y \in 1 .. Len(h) /\ pri[d[x]] <= pri[d[y]] /\ q[h[y]] = pri[d[y]]
    BY <1>1
  <2>2. q[h[x]] \in Int /\ pri[d[x]] \in Int /\ pri[d[y]] \in Int
    BY <1>0, <2>1
  <2> QED
    BY <1>4, <2>1, <2>2
<1>5. ASSUME pri[d[x]] <= q[h[x]] PROVE OrderedAbove(s, q)
  <2> SUFFICES ASSUME NEW y \in 2 .. Len(h), ParentOf(y) # x, y = x
               PROVE  q[h[ParentOf(y)]] <= q[h[y]]
    BY <1>0, <1>2, <1>3 DEF OrderedAbove, InOrderAt
  <2> PICK a : a = ParentOf(y)
    OBVIOUS
  <2>1. a \in 1 .. Len(h) /\ a # x /\ pri[d[a]] <= pri[d[x]] /\ q[h[a]] = pri[d[a]]
    BY <1>1
  <2>2. q[h[x]] \in Int /\ pri[d[x]] \in Int /\ pri[d[a]] \in Int
    BY <1>0, <2>1
  <2> QED
    BY <1>5, <2>1, <2>2
<1> QED
  BY <1>4, <1>5 DEF s

\* q->d[x] = q->d[--q->size] takes the element at x out.
LEMMA LastIntoFacts ==
    ASSUME HeapInv, NEW x \in 1 .. Len(d)
    PROVE  /\ LastInto(x) \in Seq(Elements) /\ Len(LastInto(x)) = Len(d) - 1
           /\ Distinct(LastInto(x))
           /\ Entries(LastInto(x)) = Entries(d) \ {d[x]}
           /\ \A y \in 1 .. Len(d) - 1 : LastInto(x)[y] = IF y = x THEN d[Len(d)] ELSE d[y]
<1> DEFINE h == LastInto(x)
           n == Len(d) - 1
<1>0. /\ Len(d) \in Nat /\ DOMAIN d = 1 .. Len(d) /\ n \in Nat
      /\ \A y \in 1 .. Len(d) : d[y] \in Elements
      /\ \A y \in 1 .. n : y \in 1 .. Len(d) /\ y # Len(d)
      /\ \A y \in 1 .. Len(d) : y \in 1 .. n \/ y = Len(d)
      /\ Len(d) \in 1 .. Len(d)
      /\ \A y, z \in 1 .. Len(d) : d[y] = d[z] => y = z
  <2>1. Len(d) \in Nat /\ DOMAIN d = 1 .. Len(d) /\ \A y \in 1 .. Len(d) : d[y] \in Elements
    BY HeapTypes
  <2>2. \A y, z \in 1 .. Len(d) : d[y] = d[z] => y = z
    BY HeapTypes DEF Distinct
  <2>3. n \in Nat /\ Len(d) \in 1 .. Len(d)
    BY <2>1
  <2>0. Len(d) \in Nat
    BY <2>1
  <2>4. \A y \in 1 .. n : y \in 1 .. Len(d) /\ y # Len(d)
    BY ONLY <2>0
  <2>5. \A y \in 1 .. Len(d) : y \in 1 .. n \/ y = Len(d)
    BY ONLY <2>0
  <2> HIDE DEF n
  <2> QED
    BY <2>1, <2>2, <2>3, <2>4, <2>5
<1>1. h = [y \in 1 .. n |-> IF y = x THEN d[Len(d)] ELSE d[y]]
  BY DEF LastInto
<1> HIDE DEF h, n
<1>2. h \in Seq(Elements) /\ Len(h) = n /\ DOMAIN h = 1 .. n
  <2>1. h \in [1 .. n -> Elements]
    BY <1>0, <1>1
  <2>2. n \in Nat
    BY <1>0
  <2> QED
    BY ONLY <2>1, <2>2
<1>3. \A y \in 1 .. n : h[y] = IF y = x THEN d[Len(d)] ELSE d[y]
  BY <1>1
<1>4. Distinct(h)
  <2> SUFFICES ASSUME NEW y \in 1 .. n, NEW z \in 1 .. n, h[y] = h[z] PROVE y = z
    BY <1>2 DEF Distinct
  <2> QED
    BY <1>0, <1>3
<1>5. Entries(h) = Entries(d) \ {d[x]}
  <2>1. ASSUME NEW y \in 1 .. n PROVE h[y] \in Entries(d) /\ h[y] # d[x]
    BY <1>0, <1>3 DEF Entries
  <2>2. ASSUME NEW y \in 1 .. Len(d), d[y] # d[x] PROVE d[y] \in Entries(h)
    <3>1. CASE y = Len(d)
      <4>1. x \in 1 .. n /\ h[x] = d[y]
        BY <1>0, <1>3, <2>2, <3>1
      <4> QED
        BY <1>2, <4>1 DEF Entries
    <3>2. CASE y # Len(d)
      <4>1. y \in 1 .. n /\ h[y] = d[y]
        BY <1>0, <1>3, <2>2, <3>2
      <4> QED
        BY <1>2, <4>1 DEF Entries
    <3> QED
      BY <3>1, <3>2
  <2>3. Entries(h) \subseteq Entries(d) \ {d[x]}
    BY <1>2, <2>1 DEF Entries
  <2>4. Entries(d) \ {d[x]} \subseteq Entries(h)
    BY <1>0, <2>2 DEF Entries
  <2> QED
    BY <2>3, <2>4
<1> QED
  BY <1>2, <1>3, <1>4, <1>5 DEF h, n

-----------------------------------------------------------------------------
(* The operations, with what each does to the elements in the queue.       *)

LEMMA InsertRight ==
    ASSUME HeapInv, NEW e \in Elements, Insert(e)
    PROVE  HeapInv' /\ Content' = Content \cup {e}
<1> DEFINE h == Append(d, e)
           g == BubbleUp(h, pri, Size)
<1>0. /\ d \in Seq(Elements) /\ Len(d) \in Nat /\ pri \in [Elements -> Int] /\ Distinct(d)
      /\ Content = Entries(d)
  BY HeapTypes
<1>1. /\ h \in Seq(Elements) /\ Len(h) = Len(d) + 1 /\ Distinct(h) /\ Entries(h) = Content \cup {e}
      /\ \A y \in 1 .. Len(d) : h[y] = d[y]
  <2>1. e \notin Entries(d)
    BY <1>0 DEF Insert
  <2>2. \A y \in 1 .. Len(d) : h[y] = d[y]
    BY <1>0
  <2> HIDE DEF h
  <2> QED
    BY <1>0, <2>1, <2>2, AppendEntries DEF h
<1> HIDE DEF h
<1>2. Size \in 1 .. Len(h)
  BY <1>0, <1>1 DEF Size
<1>3. OrderedBelow([h |-> h, at |-> Size], pri)
  <2>1. \A y \in 2 .. Len(h) : /\ y > 1 /\ y \in Nat /\ ParentOf(y) \in Nat
                               /\ 1 <= ParentOf(y) /\ ParentOf(y) < y /\ y <= Size
    BY <1>0, <1>1, Halves DEF Size
  <2>2. ASSUME NEW y \in 2 .. Len(h), y # Size PROVE InOrderAt(h, pri, y)
    <3>1. y \in 2 .. Len(d) /\ y \in 1 .. Len(d) /\ ParentOf(y) \in 1 .. Len(d)
      BY SMTT(30), <1>0, <1>1, <2>1, <2>2 DEF Size
    <3> QED
      BY <1>1, <3>1 DEF HeapInv, Ordered, InOrderAt
  <2>3. ASSUME NEW y \in 2 .. Len(h) PROVE ParentOf(y) # Size
    BY <1>0, <2>1 DEF Size
  <2> QED
    BY <2>2, <2>3 DEF OrderedBelow, Bridged
<1>4. Rearranged(g, h) /\ Ordered(g, pri)
  BY <1>0, <1>1, <1>2, <1>3, BubbleUpRight
<1> HIDE DEF g
<1>5. g \in Seq(Elements) /\ Distinct(g) /\ Len(g) = Len(h) /\ Entries(g) = Entries(h)
  BY <1>1, <1>4 DEF Rearranged
<1>6. avail' \in Nat /\ Len(g) + 1 <= avail'
  <2>1. Len(d) \in Nat /\ step \in Nat /\ step >= 1 /\ avail \in Nat /\ Size <= avail
    BY <1>0 DEF HeapInv, PQueueTypeOK
  <2>2. avail' = IF Size >= avail THEN Size + step ELSE avail
    BY DEF Insert, Grown
  <2>3. Len(g) = Len(d) + 1 /\ Size = Len(d) + 1
    BY <1>1, <1>5 DEF Size
  <2> QED
    BY ONLY <2>1, <2>2, <2>3
<1>7. /\ d' = g /\ pos' = PosAfter(g) /\ UNCHANGED step
      /\ pri' = pri /\ popped' = popped
  BY DEF Insert, g, h
<1>8. /\ pri' \in [Elements -> Priorities] /\ popped' \in Elements \cup {NoElement}
      /\ Ordered(g, pri')
  BY <1>4, <1>7, HeapTypes
<1>9. HeapInv' /\ Content' = Entries(g)
  BY <1>5, <1>6, <1>7, <1>8, Reached
<1> QED
  BY <1>1, <1>5, <1>9

\* An operation that sifts in array h, from place x, with priorities pri'. It makes
\* no difference which sift it is.
LEMMA SiftRight ==
    ASSUME HeapInv, NEW h \in Seq(Elements), Distinct(h), NEW x \in 1 .. Len(h),
           pri' \in [Elements -> Int],
           \/ /\ OrderedBelow([h |-> h, at |-> x], pri')
              /\ d' = BubbleUp(h, pri', x)
           \/ /\ OrderedAbove([h |-> h, at |-> x], pri')
              /\ d' = PercolateDown(h, pri', x),
           pos' = PosAfter(d'), avail' \in Nat, Len(h) + 1 <= avail', UNCHANGED step,
           pri' \in [Elements -> Priorities], popped' \in Elements \cup {NoElement}
    PROVE  HeapInv' /\ Content' = Entries(h)
<1> PICK g : g = d'
  OBVIOUS
<1> PICK q \in [Elements -> Int] : q = pri'
  OBVIOUS
<1>1. Rearranged(g, h) /\ Ordered(g, q)
  <2>1. CASE OrderedBelow([h |-> h, at |-> x], q) /\ g = BubbleUp(h, q, x)
    BY <2>1, BubbleUpRight
  <2>2. CASE OrderedAbove([h |-> h, at |-> x], q) /\ g = PercolateDown(h, q, x)
    BY <2>2, PercolateDownRight
  <2> QED
    BY <2>1, <2>2
<1>2. g \in Seq(Elements) /\ Distinct(g) /\ Len(g) = Len(h) /\ Entries(g) = Entries(h)
  BY <1>1 DEF Rearranged
<1>3. Ordered(g, pri') /\ d' = g /\ pos' = PosAfter(g) /\ avail' \in Nat /\ Len(g) + 1 <= avail'
  BY <1>1, <1>2
<1>4. HeapInv' /\ Content' = Entries(g)
  BY <1>2, <1>3, Reached
<1> QED
  BY <1>2, <1>4

LEMMA Allocated ==
    ASSUME HeapInv PROVE Len(d) \in Nat /\ avail \in Nat /\ Len(d) + 1 <= avail
  BY HeapTypes DEF HeapInv, PQueueTypeOK, Size

LEMMA PopRight ==
    ASSUME HeapInv, d # <<>>, Pop
    PROVE  /\ HeapInv' /\ Content' = Content \ {d[1]}
           /\ popped' = d[1] /\ d[1] \in Content /\ \A f \in Content : pri[d[1]] <= pri[f]
<1>0. /\ Len(d) \in Nat /\ DOMAIN d = 1 .. Len(d) /\ 1 \in 1 .. Len(d) /\ Len(d) \in 1 .. Len(d)
      /\ Content = Entries(d) /\ pri \in [Elements -> Int] /\ pri \in [Elements -> Priorities]
      /\ \A y \in 1 .. Len(d) : d[y] \in Elements /\ pri[d[y]] \in Int
  <2>1. Len(d) # 0
    BY HeapTypes
  <2> QED
    BY <2>1, HeapTypes
<1>1. /\ popped' = d[1] /\ pos' = PosAfter(d') /\ avail' = avail /\ step' = step /\ pri' = pri
      /\ d' = IF Len(d) = 1 THEN <<>> ELSE PercolateDown(LastInto(1), pri, 1)
  BY DEF Pop
<1>2. d[1] \in Content /\ \A f \in Content : pri[d[1]] <= pri[f]
  BY <1>0, RootLeast DEF Entries
<1> DEFINE h == LastInto(1)
<1>3. /\ h \in Seq(Elements) /\ Len(h) = Len(d) - 1 /\ Distinct(h)
      /\ Entries(h) = Entries(d) \ {d[1]}
      /\ \A y \in 1 .. Len(d) - 1 : h[y] = IF y = 1 THEN d[Len(d)] ELSE d[y]
  BY <1>0, LastIntoFacts
<1> HIDE DEF h
<1>4. /\ UNCHANGED step /\ avail' \in Nat /\ Len(h) + 1 <= avail' /\ pri' \in [Elements -> Int]
      /\ pri' \in [Elements -> Priorities] /\ popped' \in Elements \cup {NoElement}
  BY <1>0, <1>1, <1>3, Allocated
<1>5. HeapInv' /\ Content' = Entries(h)
  <2>1. CASE Len(d) = 1
    <3>1. h = <<>> /\ d' = h
      BY <1>1, <1>3, <2>1
    <3>2. Ordered(h, pri')
      BY <1>3, <2>1 DEF Ordered
    <3> QED
      BY <1>1, <1>3, <1>4, <3>1, <3>2, Reached
  <2>2. CASE Len(d) # 1
    <3>1. 1 \in 1 .. Len(h) /\ Len(h) <= Len(d)
      BY <1>0, <1>3, <2>2
    <3>2. \A y \in 1 .. Len(h) : y # 1 => h[y] = d[y] /\ pri[h[y]] = pri[d[y]]
      BY <1>3
    <3>3. pri[d[1]] <= pri[h[1]]
      <4>1. h[1] = d[Len(d)]
        BY <1>3, <3>1
      <4> QED
        BY <1>0, <4>1, RootLeast
    <3>4. OrderedAbove([h |-> h, at |-> 1], pri)
      BY <1>0, <1>3, <3>1, <3>2, <3>3, OneSide
    <3>5. d' = PercolateDown(h, pri', 1) /\ OrderedAbove([h |-> h, at |-> 1], pri')
      BY <1>1, <2>2, <3>4 DEF h
    <3> QED
      BY <1>1, <1>3, <1>4, <3>1, <3>5, SiftRight
  <2> QED
    BY <2>1, <2>2
<1> QED
  BY <1>0, <1>1, <1>2, <1>3, <1>5

\* The element at the place it carries.
LEMMA PlaceOf ==
    ASSUME HeapInv, NEW e \in Content
    PROVE  pos[e] \in 1 .. Len(d) /\ d[pos[e]] = e /\ e \in Elements
<1>1. PICK x \in 1 .. Len(d) : e = d[x]
  BY HeapTypes DEF Content
<1> QED
  BY <1>1, HeapTypes

LEMMA ChangeRight ==
    ASSUME HeapInv, NEW e \in Elements, NEW p \in Priorities, ChangePriority(e, p)
    PROVE  HeapInv' /\ Content' = Content
<1>0. /\ e \in Content /\ pri' = [pri EXCEPT ![e] = p]
      /\ d' = IF After(pri[e], p) THEN BubbleUp(d, pri', pos[e]) ELSE PercolateDown(d, pri', pos[e])
      /\ pos' = PosAfter(d') /\ avail' = avail /\ UNCHANGED step /\ popped' = popped
  BY DEF ChangePriority
<1> PICK x : x = pos[e]
  OBVIOUS
<1>1. x \in 1 .. Len(d) /\ d[x] = e
  BY <1>0, PlaceOf
<1>2. /\ d \in Seq(Elements) /\ Distinct(d) /\ Content = Entries(d)
      /\ \A y \in 1 .. Len(d) : d[y] \in Elements /\ (d[y] = e => y = x)
      /\ pri \in [Elements -> Int] /\ pri \in [Elements -> Priorities] /\ p \in Int
      /\ popped \in Elements \cup {NoElement} /\ Len(d) \in Nat /\ DOMAIN d = 1 .. Len(d)
  BY <1>1, HeapTypes, PrioritiesAssumption
<1>3. /\ pri' \in [Elements -> Int] /\ pri' \in [Elements -> Priorities] /\ pri'[d[x]] = p
      /\ \A y \in 1 .. Len(d) : y # x => pri'[d[y]] = pri[d[y]]
  BY <1>0, <1>1, <1>2
<1> PICK q : q = pri'
  OBVIOUS
<1>4. /\ p <= pri[e] => OrderedBelow([h |-> d, at |-> x], q)
      /\ pri[e] <= p => OrderedAbove([h |-> d, at |-> x], q)
  <2>1. Len(d) <= Len(d) /\ \A y \in 1 .. Len(d) : y # x => d[y] = d[y] /\ q[d[y]] = pri[d[y]]
    BY <1>2, <1>3
  <2> QED
    BY <1>1, <1>2, <1>3, <2>1, OneSide
<1>5. pri[e] > p \/ pri[e] <= p
  BY <1>2
<1>6. \/ /\ OrderedBelow([h |-> d, at |-> x], pri')
         /\ d' = BubbleUp(d, pri', x)
      \/ /\ OrderedAbove([h |-> d, at |-> x], pri')
         /\ d' = PercolateDown(d, pri', x)
  <2>1. CASE pri[e] > p
    BY <1>0, <1>2, <1>4, <2>1 DEF After
  <2>2. CASE ~(pri[e] > p)
    BY <1>0, <1>4, <1>5, <2>2 DEF After
  <2> QED
    BY <2>1, <2>2
<1>7. avail' \in Nat /\ Len(d) + 1 <= avail' /\ popped' \in Elements \cup {NoElement}
  BY <1>0, <1>2, Allocated
<1> QED
  BY <1>0, <1>1, <1>2, <1>3, <1>6, <1>7, SiftRight

LEMMA RemoveRight ==
    ASSUME HeapInv, NEW e \in Elements, RemoveElement(e)
    PROVE  HeapInv' /\ Content' = Content \ {e}
<1> PICK x : x = pos[e]
  OBVIOUS
<1> PICK last : last = d[Len(d)]
  OBVIOUS
<1>0. /\ e \in Content /\ pri' = pri /\ pos' = PosAfter(d') /\ avail' = avail /\ UNCHANGED step
      /\ popped' = popped
      /\ d' = IF e = last THEN LastInto(Len(d))
              ELSE IF After(pri[e], pri[last])
              THEN BubbleUp(LastInto(x), pri, x)
              ELSE PercolateDown(LastInto(x), pri, x)
  BY DEF RemoveElement
<1>1. x \in 1 .. Len(d) /\ d[x] = e
  BY <1>0, PlaceOf
<1>2. /\ Len(d) \in Nat /\ Len(d) \in 1 .. Len(d) /\ Content = Entries(d)
      /\ \A y \in 1 .. Len(d) : d[y] \in Elements /\ pri[d[y]] \in Int
      /\ pri \in [Elements -> Int] /\ pri \in [Elements -> Priorities]
      /\ popped \in Elements \cup {NoElement}
  BY <1>1, HeapTypes
<1>3. /\ avail' \in Nat /\ Len(d) - 1 + 1 <= avail' /\ popped' \in Elements \cup {NoElement}
      /\ pri' \in [Elements -> Int] /\ pri' \in [Elements -> Priorities]
  BY <1>0, <1>2, Allocated
<1>4. CASE e = last
  <2> DEFINE h == LastInto(Len(d))
  <2>1. /\ h \in Seq(Elements) /\ Len(h) = Len(d) - 1 /\ Distinct(h)
        /\ Entries(h) = Entries(d) \ {d[Len(d)]}
        /\ \A y \in 1 .. Len(d) - 1 : h[y] = IF y = Len(d) THEN d[Len(d)] ELSE d[y]
    BY <1>2, LastIntoFacts
  <2> HIDE DEF h
  <2>2. Ordered(h, pri)
    <3> SUFFICES ASSUME NEW y \in 2 .. Len(h) PROVE InOrderAt(h, pri, y)
      BY DEF Ordered
    <3>1. y \in Nat /\ y > 1 /\ y \in 2 .. Len(d) /\ y \in 1 .. Len(d) - 1 /\ y # Len(d)
      BY <1>2, <2>1
    <3>2. ParentOf(y) \in 1 .. Len(d) - 1 /\ ParentOf(y) # Len(d)
      BY <1>2, <3>1, Halves
    <3>3. h[y] = d[y] /\ h[ParentOf(y)] = d[ParentOf(y)]
      BY <2>1, <3>1, <3>2
    <3> QED
      BY <3>1, <3>3 DEF HeapInv, Ordered, InOrderAt
  <2>3. d' = h /\ Ordered(h, pri') /\ Len(h) + 1 <= avail'
    BY <1>0, <1>3, <1>4, <2>1, <2>2 DEF h
  <2>4. HeapInv' /\ Content' = Entries(h)
    BY <1>0, <1>3, <2>1, <2>3, Reached
  <2> QED
    BY <1>2, <1>4, <2>1, <2>4
<1>5. CASE e # last
  <2> DEFINE h == LastInto(x)
  <2>1. /\ h \in Seq(Elements) /\ Len(h) = Len(d) - 1 /\ Distinct(h)
        /\ Entries(h) = Entries(d) \ {d[x]}
        /\ \A y \in 1 .. Len(d) - 1 : h[y] = IF y = x THEN d[Len(d)] ELSE d[y]
    BY <1>1, LastIntoFacts
  <2>2. x # Len(d)
    BY <1>1, <1>5
  <2>3. d' = IF After(pri[e], pri[last]) THEN BubbleUp(h, pri, x) ELSE PercolateDown(h, pri, x)
    BY <1>0, <1>5
  <2> HIDE DEF h
  <2>4. x \in 1 .. Len(h) /\ x \in 1 .. Len(d) - 1 /\ Len(h) <= Len(d)
    BY <1>1, <1>2, <2>1, <2>2
  <2>5. h[x] = last /\ \A y \in 1 .. Len(h) : y # x => h[y] = d[y] /\ pri[h[y]] = pri[d[y]]
    BY <2>1, <2>4
  <2>6. /\ pri[last] <= pri[e] => OrderedBelow([h |-> h, at |-> x], pri)
        /\ pri[e] <= pri[last] => OrderedAbove([h |-> h, at |-> x], pri)
    BY <1>1, <1>2, <2>1, <2>4, <2>5, OneSide
  <2>7. pri[e] \in Int /\ pri[last] \in Int
    BY <1>1, <1>2
  <2>8. \/ /\ OrderedBelow([h |-> h, at |-> x], pri')
           /\ d' = BubbleUp(h, pri', x)
        \/ /\ OrderedAbove([h |-> h, at |-> x], pri')
           /\ d' = PercolateDown(h, pri', x)
    <3>1. CASE pri[e] > pri[last]
      BY <1>0, <2>3, <2>6, <2>7, <3>1 DEF After
    <3>2. CASE ~(pri[e] > pri[last])
      BY <1>0, <2>3, <2>6, <2>7, <3>2 DEF After
    <3> QED
      BY <3>1, <3>2
  <2>9. HeapInv' /\ Content' = Entries(h)
    BY <1>0, <1>3, <2>1, <2>4, <2>8, SiftRight
  <2> QED
    BY <1>1, <1>2, <2>1, <2>9
<1> QED
  BY <1>4, <1>5

-----------------------------------------------------------------------------
(* The invariant, and what it gives.                                       *)

LEMMA HeapInit == PQueueInit => HeapInv /\ Content = {}
<1> SUFFICES ASSUME PQueueInit PROVE HeapInv /\ Content = {}
  OBVIOUS
<1>1. PICK n \in InitialSizes : avail = n + 1 /\ step = n + 1
  BY DEF PQueueInit
<1>2. n \in Nat
  BY <1>1, InitialSizesAssumption
<1>3. /\ d = <<>> /\ Len(d) = 0 /\ DOMAIN d = {} /\ pri \in [Elements -> Priorities]
      /\ popped = NoElement
  BY DEF PQueueInit
<1>4. PQueueTypeOK
  BY <1>1, <1>2, <1>3 DEF PQueueTypeOK, Size
<1>5. Ordered(d, pri)
  BY <1>3 DEF Ordered
<1> QED
  BY <1>1, <1>2, <1>3, <1>4, <1>5 DEF HeapInv, Content

LEMMA HeapNext == HeapInv /\ [PQueueNext]_pqueueVars => HeapInv'
<1> SUFFICES ASSUME HeapInv, [PQueueNext]_pqueueVars PROVE HeapInv'
  OBVIOUS
<1>1. ASSUME NEW e \in Elements, Insert(e) PROVE HeapInv'
  BY <1>1, InsertRight
<1>2. ASSUME NEW e \in Elements, RemoveElement(e) PROVE HeapInv'
  BY <1>2, RemoveRight
<1>3. ASSUME NEW e \in Elements, NEW p \in Priorities, ChangePriority(e, p) PROVE HeapInv'
  BY <1>3, ChangeRight
<1>4. CASE Pop /\ d # <<>>
  BY <1>4, PopRight
<1>5. CASE Pop /\ d = <<>>
  <2>1. UNCHANGED <<d, avail, step, pri, pos>> /\ popped' = NoElement
    BY <1>5 DEF Pop
  <2> QED
    BY <2>1 DEF HeapInv, PQueueTypeOK, Size, Ordered, InOrderAt
<1>6. CASE UNCHANGED pqueueVars
  BY <1>6 DEF pqueueVars, HeapInv, PQueueTypeOK, Size, Ordered, InOrderAt
<1> QED
  BY <1>1, <1>2, <1>3, <1>4, <1>5, <1>6 DEF PQueueNext

\* What a function has to satisfy to be subtree_is_valid, in the form TLA+ gives it.
TellsValid(f) == f = [x \in DOMAIN d |->
    \A c \in {LeftOf(x), LeftOf(x) + 1} \cap DOMAIN d :
        ~After(pri[d[x]], pri[d[c]]) /\ f[c]]

\* Where every element comes after its parent, subtree_is_valid says so.
LEMMA ValidWhenOrdered == HeapInv => IsValid
<1> SUFFICES ASSUME HeapInv, d # <<>> PROVE SubtreeIsValid[1]
  BY DEF IsValid
<1> DEFINE m == Len(d)
<1>0. /\ m \in Nat /\ DOMAIN d = 1 .. m /\ 1 \in 1 .. m
      /\ \A x \in 1 .. m : d[x] \in Elements /\ pri[d[x]] \in Int
  <2>1. Len(d) # 0
    BY HeapTypes
  <2> QED
    BY <2>1, HeapTypes
<1>1. ASSUME NEW x \in 1 .. m, NEW c \in {LeftOf(x), LeftOf(x) + 1} \cap DOMAIN d
      PROVE  c \in 1 .. m /\ c > x /\ ~After(pri[d[x]], pri[d[c]])
  <2>1. x \in Nat /\ x >= 1 /\ c \in Nat /\ c \in 2 .. m /\ c > x /\ (c = 2 * x \/ c = 2 * x + 1)
    BY <1>0 DEF LeftOf
  <2>2. ParentOf(c) = x
    BY <2>1, Halves
  <2>3. pri[d[x]] <= pri[d[c]]
    BY <2>1, <2>2 DEF HeapInv, Ordered, InOrderAt
  <2> QED
    BY <1>0, <2>1, <2>3 DEF After
<1>2. TellsValid(SubtreeIsValid)
  <2> DEFINE g == [x \in DOMAIN d |-> TRUE]
  <2>1. TellsValid(g)
    <3>1. ASSUME NEW x \in DOMAIN d
          PROVE  \A c \in {LeftOf(x), LeftOf(x) + 1} \cap DOMAIN d :
                     ~After(pri[d[x]], pri[d[c]]) /\ g[c]
      BY <1>0, <1>1
    <3> QED
      BY <3>1 DEF TellsValid
  <2>2. \E f : TellsValid(f)
    BY <2>1
  <2>3. SubtreeIsValid = CHOOSE f : TellsValid(f)
    BY DEF SubtreeIsValid, TellsValid
  <2> HIDE DEF TellsValid
  <2> QED
    BY <2>2, <2>3
<1>3. \A x \in 1 .. m : SubtreeIsValid[x] =
          \A c \in {LeftOf(x), LeftOf(x) + 1} \cap DOMAIN d :
              ~After(pri[d[x]], pri[d[c]]) /\ SubtreeIsValid[c]
  BY <1>0, <1>2 DEF TellsValid
<1> HIDE DEF m
<1>4. \A x \in 1 .. m :
          (\A c \in 1 .. m : c > x => SubtreeIsValid[c]) => SubtreeIsValid[x]
  BY <1>1, <1>3
\* From the last place to the first.
<1> DEFINE T == {n \in Nat : \A x \in 1 .. m : x > m - n => SubtreeIsValid[x]}
<1>5. 0 \in T
  BY <1>0
<1>6. ASSUME NEW n \in 1 .. m, n - 1 \in T PROVE n \in T
  <2> SUFFICES ASSUME NEW x \in 1 .. m, x > m - n PROVE SubtreeIsValid[x]
    BY <1>0
  <2>1. \A c \in 1 .. m : c > x => c > m - (n - 1)
    BY <1>0
  <2>2. \A c \in 1 .. m : c > x => SubtreeIsValid[c]
    BY <1>6, <2>1
  <2> QED
    BY <1>4, <2>2
<1>7. m \in T
  <2>1. \A n \in 1 .. m : n - 1 \in T => n \in T
    BY <1>6
  <2> HIDE DEF T
  <2>2. 0 .. m \subseteq T
    BY <1>0, <1>5, <2>1, Induction
  <2> QED
    BY <1>0, <2>2
<1> QED
  BY <1>0, <1>7

\* pqueue_is_valid after any sequence of pqueue_insert, pqueue_pop,
\* pqueue_change_priority and pqueue_remove: no element comes before its parent,
\* every element is at the place it carries, and the array fits its allocation.
THEOREM HeapStaysRight == PQueueSpec => []HeapRight
<1>1. PQueueInit => HeapInv
  BY HeapInit
<1>2. HeapInv /\ [PQueueNext]_pqueueVars => HeapInv'
  BY HeapNext
<1>3. HeapInv => HeapRight
  BY ValidWhenOrdered DEF HeapInv, HeapRight
<1> QED
  BY <1>1, <1>2, <1>3, PTL DEF PQueueSpec

\* Every operation of the heap does what the one of the priority queue does:
\* pqueue_pop gives an element of the smallest distance, and pqueue_insert,
\* pqueue_remove and pqueue_change_priority neither lose nor double another.
THEOREM ImplementsPriorityQueue == PQueueSpec => RefinesPriorityQueue
<1>1. PQueueInit => HeapInv /\ Queue!Init
  <2>1. PQueueInit => pri \in [Elements -> Priorities] /\ popped = NoElement
    BY DEF PQueueInit
  <2>2. PQueueInit => HeapInv /\ Content = {}
    BY HeapInit
  <2> QED
    BY <2>1, <2>2 DEF Queue!Init, NoElement, Queue!NoElement
<1>2. HeapInv /\ [PQueueNext]_pqueueVars => HeapInv'
  BY HeapNext
<1>3. HeapInv /\ [PQueueNext]_pqueueVars => [Queue!Next]_<<Content, pri, popped>>
  <2> SUFFICES ASSUME HeapInv, [PQueueNext]_pqueueVars
               PROVE  Queue!Next \/ (Content' = Content /\ pri' = pri /\ popped' = popped)
    OBVIOUS
  <2>1. ASSUME NEW e \in Elements, Insert(e) PROVE Queue!Insert(e)
    BY <2>1, InsertRight DEF Insert, Queue!Insert
  <2>2. ASSUME NEW e \in Elements, RemoveElement(e) PROVE Queue!Remove(e)
    BY <2>2, RemoveRight DEF RemoveElement, Queue!Remove
  <2>3. ASSUME NEW e \in Elements, NEW p \in Priorities, ChangePriority(e, p)
        PROVE  Queue!ChangePriority(e, p)
    BY <2>3, ChangeRight DEF ChangePriority, Queue!ChangePriority
  <2>4. CASE Pop /\ d # <<>>
    <3>1. pri' = pri
      BY <2>4 DEF Pop
    <3>2. Queue!Pop
      BY <2>4, <3>1, PopRight DEF Queue!Pop
    <3> QED
      BY <3>2 DEF Queue!Next
  <2>5. CASE Pop /\ d = <<>>
    <3>1. /\ DOMAIN d = {} /\ UNCHANGED <<d, pri>> /\ popped' = NoElement
      BY <2>5 DEF Pop
    <3>2. Content = {} /\ Content' = {}
      BY <3>1 DEF Content
    <3>3. Queue!Pop
      BY <3>1, <3>2 DEF Queue!Pop, NoElement, Queue!NoElement
    <3> QED
      BY <3>3 DEF Queue!Next
  <2>6. CASE UNCHANGED pqueueVars
    BY <2>6 DEF pqueueVars, Content
  <2> QED
    BY <2>1, <2>2, <2>3, <2>4, <2>5, <2>6 DEF PQueueNext, Queue!Next
<1> QED
  BY <1>1, <1>2, <1>3, PTL DEF PQueueSpec, RefinesPriorityQueue, Queue!Spec

-----------------------------------------------------------------------------
(* What a round adds to the candidates.                                    *)

LEMMA SameToSet == \A b : ToSet(b) = Entries(b)
  BY DEF ToSet, Entries

\* One point of the leaf.
Looked(points, b, n) ==
    IF points[n] \in ToSet(b) \/ Len(b) = MaxCandidateSize THEN b ELSE Append(b, points[n])

\* The candidates after the first m points of a leaf.
Gathered(ns, points, m, b) ==
    /\ b \in Seq(Dataset)
    /\ Len(b) <= MaxCandidateSize
    /\ Distinct(b)
    /\ ToSet(ns) \subseteq ToSet(b)
    /\ ToSet(b) \subseteq ToSet(ns) \cup {points[n] : n \in 1 .. m}
    /\ Len(b) = MaxCandidateSize \/ ToSet(b) = ToSet(ns) \cup {points[n] : n \in 1 .. m}

LEMMA LookedGathers ==
    ASSUME NEW ns, NEW points \in Seq(Dataset), NEW m \in 1 .. Len(points),
           NEW b, Gathered(ns, points, m - 1, b)
    PROVE  Gathered(ns, points, m, Looked(points, b, m))
<1>1. points[m] \in Dataset /\ b \in Seq(Dataset) /\ Len(b) \in Nat /\ Len(b) <= MaxCandidateSize
  BY DEF Gathered
<1>2. {points[n] : n \in 1 .. m} = {points[n] : n \in 1 .. m - 1} \cup {points[m]}
  <2>1. 1 .. m = (1 .. m - 1) \cup {m}
    OBVIOUS
  <2> QED
    BY <2>1
<1>3. CASE points[m] \in ToSet(b) \/ Len(b) = MaxCandidateSize
  <2>1. Looked(points, b, m) = b
    BY <1>3 DEF Looked
  <2> QED
    BY <1>2, <1>3, <2>1 DEF Gathered
<1>4. CASE points[m] \notin ToSet(b) /\ Len(b) # MaxCandidateSize
  <2> DEFINE c == Append(b, points[m])
  <2>1. Looked(points, b, m) = c
    BY <1>4 DEF Looked
  <2>2. /\ c \in Seq(Dataset) /\ Len(c) = Len(b) + 1
        /\ ToSet(c) = ToSet(b) \cup {points[m]} /\ Distinct(c)
    BY <1>1, <1>4, AppendEntries, SameToSet DEF Gathered
  <2> HIDE DEF c
  <2>3. Len(c) <= MaxCandidateSize
    BY <1>1, <1>4, <2>2, MaxCandidateSizeAssumption
  <2> QED
    BY <1>2, <1>4, <2>1, <2>2, <2>3 DEF Gathered
<1> QED
  BY <1>3, <1>4

\* The recursion of Added has a solution.
LEMMA AddedExists ==
    ASSUME NEW ns \in Seq(Dataset), NEW points \in Seq(Dataset)
    PROVE  \E f : f = [n \in 0 .. Len(points) |->
                          IF n = 0 THEN ns
                          ELSE IF points[n] \in ToSet(f[n - 1]) \/ Len(f[n - 1]) = MaxCandidateSize
                               THEN f[n - 1]
                               ELSE Append(f[n - 1], points[n])]
<1> DEFINE m == Len(points)
           S == Seq(Dataset)
           look == [n \in 1 .. m |-> [b \in S |-> Looked(points, b, n)]]
<1>1. m \in Nat /\ ns \in S
  OBVIOUS
<1>2. look \in [1 .. m -> [S -> S]]
  <2>1. ASSUME NEW n \in 1 .. m, NEW b \in S PROVE Looked(points, b, n) \in S
    BY DEF Looked
  <2> QED
    BY <2>1
<1>3. \A n \in 1 .. m : \A b \in S : look[n][b] = Looked(points, b, n)
  OBVIOUS
<1> HIDE DEF look
<1>4. PICK g \in [0 .. m -> S] : Iterates(g, m, ns, look)
  <2> HIDE DEF m, S
  <2> QED
    BY <1>1, <1>2, Recursion
<1>5. g[0] = ns /\ \A n \in 1 .. m : g[n] = look[n][g[n - 1]]
  BY <1>4 DEF Iterates
<1>6. \A n \in 1 .. m : g[n] = Looked(points, g[n - 1], n)
  <2>1. \A n \in 1 .. m : g[n - 1] \in S
    BY <1>4
  <2> QED
    BY <1>3, <1>5, <2>1
<1>7. ASSUME NEW n \in 0 .. m
      PROVE  g[n] = IF n = 0 THEN ns
                    ELSE IF points[n] \in ToSet(g[n - 1]) \/ Len(g[n - 1]) = MaxCandidateSize
                         THEN g[n - 1]
                         ELSE Append(g[n - 1], points[n])
  <2>1. CASE n = 0
    BY <1>5, <2>1
  <2>2. CASE n # 0
    <3>1. n \in 1 .. m
      BY <2>2
    <3>2. g[n] = Looked(points, g[n - 1], n)
      BY <1>6, <3>1
    <3> QED
      BY <2>2, <3>2 DEF Looked
  <2> QED
    BY <2>1, <2>2
<1>8. g = [n \in 0 .. m |-> g[n]]
  BY <1>4
<1>9. g = [n \in 0 .. m |-> IF n = 0 THEN ns
                            ELSE IF points[n] \in ToSet(g[n - 1]) \/ Len(g[n - 1]) = MaxCandidateSize
                                 THEN g[n - 1]
                                 ELSE Append(g[n - 1], points[n])]
  BY <1>7, <1>8
<1> QED
  BY <1>9

\* A round keeps what was gathered, adds only points of the leaf, each once, and
\* leaves one out only at the limit.
LEMMA AddedFacts ==
    ASSUME NEW ns \in Seq(Dataset), Distinct(ns), Len(ns) <= MaxCandidateSize,
           NEW points \in Seq(Dataset)
    PROVE  LET b == Added(ns, points) IN
           /\ b \in Seq(Dataset)
           /\ Len(b) <= MaxCandidateSize
           /\ Distinct(b)
           /\ ToSet(ns) \subseteq ToSet(b)
           /\ ToSet(b) \subseteq ToSet(ns) \cup ToSet(points)
           /\ Len(b) = MaxCandidateSize \/ ToSet(b) = ToSet(ns) \cup ToSet(points)
<1> DEFINE m == Len(points)
           Fits(f) == f = [n \in 0 .. m |->
                          IF n = 0 THEN ns
                          ELSE IF points[n] \in ToSet(f[n - 1]) \/ Len(f[n - 1]) = MaxCandidateSize
                               THEN f[n - 1]
                               ELSE Append(f[n - 1], points[n])]
<1>1. PICK f : Fits(f) /\ f[m] = Added(ns, points)
  <2>1. \E g : Fits(g)
    BY AddedExists
  <2>2. Fits(CHOOSE g : Fits(g))
    <3> HIDE DEF Fits
    <3> QED
      BY <2>1
  <2>3. Added(ns, points) = (CHOOSE g : Fits(g))[m]
    BY DEF Added
  <2> HIDE DEF Fits
  <2> QED
    BY <2>2, <2>3
<1>2. f[0] = ns /\ \A n \in 1 .. m : f[n] = Looked(points, f[n - 1], n)
  <2>1. ASSUME NEW g, NEW h,
               g = [n \in 0 .. m |->
                          IF n = 0 THEN ns
                          ELSE IF points[n] \in ToSet(h[n - 1]) \/ Len(h[n - 1]) = MaxCandidateSize
                               THEN h[n - 1]
                               ELSE Append(h[n - 1], points[n])]
        PROVE  g[0] = ns /\ \A n \in 1 .. m : g[n] = Looked(points, h[n - 1], n)
    <3>1. 0 \in 0 .. m /\ \A n \in 1 .. m : n \in 0 .. m /\ n # 0
      OBVIOUS
    <3>2. g[0] = ns
      BY <2>1, <3>1
    <3>3. ASSUME NEW n \in 1 .. m PROVE g[n] = Looked(points, h[n - 1], n)
      BY <2>1, <3>1 DEF Looked
    <3> QED
      BY <3>2, <3>3
  <2> QED
    BY <1>1, <2>1
<1> HIDE DEF Fits
<1> DEFINE T == {n \in 0 .. m : Gathered(ns, points, n, f[n])}
<1>3. 0 \in T
  <2>1. {points[n] : n \in 1 .. 0} = {} /\ 0 \in 0 .. m
    OBVIOUS
  <2>2. Gathered(ns, points, 0, ns)
    BY <2>1 DEF Gathered
  <2> QED
    BY <1>2, <2>1, <2>2
<1>4. ASSUME NEW n \in 1 .. m, n - 1 \in T PROVE n \in T
  BY <1>2, <1>4, LookedGathers
<1>5. m \in T
  <2>1. m \in Nat
    OBVIOUS
  <2> HIDE DEF T
  <2>2. \A n \in 1 .. m : n - 1 \in T => n \in T
    BY <1>4
  <2>3. 0 .. m \subseteq T
    BY <1>3, <2>1, <2>2, Induction
  <2> QED
    BY <2>1, <2>3
<1>6. Gathered(ns, points, m, f[m])
  BY <1>5
<1>7. {points[n] : n \in 1 .. m} = ToSet(points)
  BY DEF ToSet
<1> QED
  BY <1>1, <1>6, <1>7 DEF Gathered
-----------------------------------------------------------------------------
(* The nearest head.                                                       *)

LEMMA MinFacts ==
    ASSUME NEW T, T \subseteq Nat, T # {}
    PROVE  Min(T) \in T /\ \A y \in T : Min(T) <= y
<1>1. \E x \in T : \A y \in T : x <= y
  BY LeastElement
<1> QED
  BY <1>1 DEF Min

\* Of a non-empty set of things with a measure some have the least.
LEMMA LeastExists ==
    ASSUME NEW T, T # {}, NEW f, \A x \in T : f[x] \in Nat
    PROVE  \E x \in T : \A y \in T : f[x] <= f[y]
<1> DEFINE V == {f[x] : x \in T}
<1>1. V \subseteq Nat /\ V # {}
  OBVIOUS
<1>2. PICK v \in V : \A w \in V : v <= w
  <2> HIDE DEF V
  <2> QED
    BY <1>1, LeastElement
<1>3. PICK x \in T : v = f[x]
  BY <1>2
<1> QED
  BY <1>2, <1>3

LEMMA IndexFacts == /\ Queues \subseteq Nat /\ 0 \in Queues
                    /\ Indexes \subseteq Nat /\ Indexes # {}
                    /\ Distances \subseteq Nat
<1>1. Queues \subseteq Nat /\ 0 \in Queues
  BY NPqueueAssumption DEF Queues
<1>2. Indexes \subseteq Nat /\ 1 \in Indexes
  BY LSizeAssumption DEF Indexes
<1> QED
  BY <1>1, <1>2, DistancesAssumption

LEMMA FltMaxFacts == FltMax \in Nat /\ \A x \in Distances : x < FltMax
<1>1. \E x \in Distances : \A y \in Distances : y <= x
  BY DistancesAssumption, FiniteGreatest
<1>2. Max(Distances) \in Distances /\ \A y \in Distances : y <= Max(Distances)
  <2>1. \E x \in Distances : \A y \in Distances : x >= y
    BY <1>1, IndexFacts
  <2> QED
    BY <2>1, IndexFacts DEF Max
<1>3. Max(Distances) \in Nat /\ \A x \in Distances : x \in Nat /\ x <= Max(Distances)
  BY <1>2, IndexFacts
<1>4. FltMax = Max(Distances) + 1
  BY DEF FltMax
<1> QED
  BY <1>3, <1>4

\* What BestQueue and BestDistance find in one tree.
LEMMA BestFacts ==
    ASSUME NEW res, NEW empty,
           \A k \in Open(empty) : dist[res[k]] \in Distances
    PROVE  /\ BestQueue(res, empty) \in Queues
           /\ BestDistance(res, empty) \in Nat
           /\ Open(empty) = {} => BestDistance(res, empty) = FltMax
           /\ Open(empty) # {} =>
                  /\ BestQueue(res, empty) \in Open(empty)
                  /\ BestDistance(res, empty) = dist[res[BestQueue(res, empty)]]
                  /\ BestDistance(res, empty) < FltMax
                  /\ \A k \in Open(empty) : BestDistance(res, empty) <= dist[res[k]]
<1> DEFINE far == [k \in Open(empty) |-> dist[res[k]]]
           T == {j \in Open(empty) : \A k \in Open(empty) : dist[res[j]] <= dist[res[k]]}
<1>0. /\ Queues \subseteq Nat /\ 0 \in Queues
      /\ Open(empty) \subseteq Queues
      /\ Distances \subseteq Nat
  BY IndexFacts DEF Open
<1>1. FltMax \in Nat /\ \A x \in Distances : x < FltMax
  BY FltMaxFacts
<1>2. CASE Open(empty) = {}
  BY <1>0, <1>1, <1>2 DEF BestQueue, BestDistance
<1>3. CASE Open(empty) # {}
  <2>1. T # {}
    <3>1. \A k \in Open(empty) : far[k] = dist[res[k]] /\ far[k] \in Nat
      BY <1>0
    <3> HIDE DEF far
    <3>2. \E x \in Open(empty) : \A y \in Open(empty) : far[x] <= far[y]
      BY <1>3, <3>1, LeastExists
    <3> QED
      BY <3>1, <3>2
  <2>2. T \subseteq Nat /\ T \subseteq Open(empty)
    BY <1>0
  <2>3. Min(T) \in T
    <3> HIDE DEF T
    <3> QED
      BY <2>1, <2>2, MinFacts
  <2>4. BestQueue(res, empty) = Min(T)
    BY <1>3 DEF BestQueue
  <2>5. BestDistance(res, empty) = dist[res[BestQueue(res, empty)]]
    BY <1>3 DEF BestDistance
  <2> QED
    BY <1>0, <1>1, <1>3, <2>3, <2>4, <2>5
<1> QED
  BY <1>2, <1>3

-----------------------------------------------------------------------------
(* The inductive invariant.                                                *)

Types ==
    /\ pc \in {"prime", "round", "done"}
    /\ DOMAIN dist \subseteq Leaves
    /\ dist \in [DOMAIN dist -> Distances]
    /\ queue \in [Indexes -> [Queues -> SUBSET DOMAIN dist]]
    /\ result \in [Indexes -> [Queues -> DOMAIN dist \cup {NoLeaf}]]
    /\ queue_is_empty \in [Indexes -> [Queues -> BOOLEAN]]
    /\ mindist \in [Indexes -> Nat]
    /\ num_queue \in [Indexes -> Queues]
    /\ visited \subseteq DOMAIN dist

\* The leaves a queue and its head stand for.
Holds(i, j) == queue[i][j] \cup ({result[i][j]} \ {NoLeaf})

\* No leaf is in two places; until the step is over the leaves not yet used are in
\* one, and the used ones are in no queue.
Places ==
    /\ \A i, a \in Indexes : \A j, b \in Queues : \A l \in Holds(i, j) \cap Holds(a, b) : i = a /\ j = b
    /\ \A i \in Indexes : \A j \in Queues : result[i][j] \notin queue[i][j]
    /\ \A i \in Indexes : \A j \in Queues : queue[i][j] \cap visited = {}
    /\ pc # "done" =>
           \A l \in DOMAIN dist :
               l \notin visited <=> \E i \in Indexes : \E j \in Queues : l \in Holds(i, j)

\* At first there are no heads; then a queue without one is empty, and a head is as
\* near as all behind it.
HeadsRight ==
    /\ pc = "prime" => /\ visited = {}
                       /\ \A i \in Indexes :
                              /\ mindist[i] = FltMax
                              /\ \A j \in Queues : ~queue_is_empty[i][j] /\ result[i][j] = NoLeaf
    /\ pc # "prime" =>
           \A i \in Indexes :
               /\ num_queue[i] = BestQueue(result[i], queue_is_empty[i])
               /\ mindist[i] = BestDistance(result[i], queue_is_empty[i])
               /\ \A j \in Queues :
                      /\ queue_is_empty[i][j] <=> result[i][j] = NoLeaf
                      /\ queue_is_empty[i][j] => queue[i][j] = {}
                      /\ ~queue_is_empty[i][j] =>
                             \A m \in queue[i][j] : dist[result[i][j]] <= dist[m]

\* The candidates are points of leaves, each once, and fewer than the limit as long
\* as the loop goes on.
NodesRight ==
    /\ nodes \in Seq(Dataset)
    /\ Distinct(nodes)
    /\ Len(nodes) <= MaxCandidateSize
    /\ ToSet(nodes) \subseteq UNION {ToSet(PointsOf(l)) : l \in Leaves}
    /\ pc # "done" => Len(nodes) < MaxCandidateSize

MergeInv == Types /\ Places /\ HeadsRight /\ NodesRight

-----------------------------------------------------------------------------
(* The first states, and the first heads.                                  *)

LEMMA MergeInit == Init => MergeInv
<1> SUFFICES ASSUME Init PROVE MergeInv
  OBVIOUS
<1>1. PICK found \in SUBSET Leaves : dist \in [found -> Distances]
  BY DEF Init
<1>2. DOMAIN dist = found
  BY <1>1
<1>3. PICK at \in [DOMAIN dist -> Queues] :
          queue = [i \in Indexes |-> [j \in Queues |-> {l \in DOMAIN dist : TreeOf(l) = i /\ at[l] = j}]]
  BY DEF Init
<1>4. /\ pc = "prime"
      /\ result = [i \in Indexes |-> [j \in Queues |-> NoLeaf]]
      /\ queue_is_empty = [i \in Indexes |-> [j \in Queues |-> FALSE]]
      /\ mindist = [i \in Indexes |-> FltMax]
      /\ num_queue = [i \in Indexes |-> 0]
      /\ nodes = <<>>
      /\ visited = {}
  BY DEF Init
<1>5. \A i \in Indexes : \A j \in Queues : queue[i][j] = {l \in DOMAIN dist : TreeOf(l) = i /\ at[l] = j}
  BY <1>3
<1>6. \A i \in Indexes : \A j \in Queues : result[i][j] = NoLeaf /\ ~queue_is_empty[i][j]
  BY <1>4
<1>7. Types
  <2>1. queue \in [Indexes -> [Queues -> SUBSET DOMAIN dist]]
    BY <1>3
  <2>2. /\ result \in [Indexes -> [Queues -> DOMAIN dist \cup {NoLeaf}]]
        /\ queue_is_empty \in [Indexes -> [Queues -> BOOLEAN]]
        /\ mindist \in [Indexes -> Nat]
        /\ num_queue \in [Indexes -> Queues]
    BY <1>4, IndexFacts, FltMaxFacts
  <2> QED
    BY <1>1, <1>2, <1>4, <2>1, <2>2 DEF Types
<1>8. Places
  <2>1. \A i \in Indexes : \A j \in Queues : Holds(i, j) = queue[i][j]
    BY <1>6 DEF Holds
  <2>2. \A i \in Indexes : \A j \in Queues : NoLeaf \notin queue[i][j]
    BY <1>1, <1>2, <1>5, LeavesAssumption
  <2>3. \A l \in DOMAIN dist : TreeOf(l) \in Indexes /\ at[l] \in Queues
    BY <1>1, <1>2, <1>3, LeavesAssumption
  <2>4. ASSUME NEW l \in DOMAIN dist
        PROVE  \E i \in Indexes : \E j \in Queues : l \in Holds(i, j)
    BY <1>5, <2>1, <2>3
  <2>5. ASSUME NEW i \in Indexes, NEW a \in Indexes, NEW j \in Queues, NEW b \in Queues,
               NEW l \in Holds(i, j) \cap Holds(a, b)
        PROVE  i = a /\ j = b
    BY <1>5, <2>1
  <2> QED
    BY <1>4, <1>6, <2>2, <2>4, <2>5 DEF Places
<1>9. HeadsRight
  BY <1>4, <1>6 DEF HeadsRight
<1>10. NodesRight
  <2>1. <<>> \in Seq(Dataset) /\ Len(<<>>) = 0 /\ ToSet(<<>>) = {} /\ Distinct(<<>>)
    BY DEF ToSet, Distinct
  <2> QED
    BY <1>4, <2>1, MaxCandidateSizeAssumption DEF NodesRight
<1> QED
  BY <1>7, <1>8, <1>9, <1>10 DEF MergeInv

\* What pqueue_pop returns and leaves.
LEMMA HeadFacts ==
    ASSUME Types, NEW q, q \subseteq DOMAIN dist, NEW head \in Heads(q)
    PROVE  /\ head = NoLeaf <=> q = {}
           /\ head # NoLeaf => head \in q /\ \A m \in q : dist[head] <= dist[m]
           /\ head \in DOMAIN dist \cup {NoLeaf}
           /\ Rest(q, head) \subseteq q
           /\ head \notin Rest(q, head)
           /\ Rest(q, head) \cup ({head} \ {NoLeaf}) = q
<1>1. NoLeaf \notin q
  BY LeavesAssumption DEF Types
<1>2. q = {} => head = NoLeaf
  BY DEF Heads
<1>3. q # {} => head \in q /\ \A m \in q : dist[head] <= dist[m]
  BY DEF Heads
<1> QED
  BY <1>1, <1>2, <1>3 DEF Rest

LEMMA PrimeKeeps == ASSUME MergeInv, Prime PROVE MergeInv'
<1>0. /\ Types /\ Places /\ HeadsRight /\ NodesRight
      /\ pc = "prime" /\ pc' = "round" /\ dist' = dist /\ nodes' = nodes /\ visited' = visited
      /\ visited = {}
  BY DEF MergeInv, Prime, HeadsRight
<1>1. /\ result' \in [Indexes -> [Queues -> DOMAIN dist \cup {NoLeaf}]]
      /\ \A i \in Indexes : \A j \in Queues : result'[i][j] \in Heads(queue[i][j])
  BY DEF Prime
<1>2. /\ queue' = [i \in Indexes |-> [j \in Queues |-> Rest(queue[i][j], result'[i][j])]]
      /\ queue_is_empty' = [i \in Indexes |-> [j \in Queues |-> result'[i][j] = NoLeaf]]
      /\ num_queue' = [i \in Indexes |-> BestQueue(result'[i], queue_is_empty'[i])]
      /\ mindist' = [i \in Indexes |-> BestDistance(result'[i], queue_is_empty'[i])]
  BY DEF Prime
<1>3. ASSUME NEW i \in Indexes, NEW j \in Queues
      PROVE  /\ queue[i][j] \subseteq DOMAIN dist
             /\ queue'[i][j] = Rest(queue[i][j], result'[i][j])
             /\ queue_is_empty'[i][j] <=> result'[i][j] = NoLeaf
             /\ result'[i][j] = NoLeaf <=> queue[i][j] = {}
             /\ result'[i][j] # NoLeaf =>
                    /\ result'[i][j] \in queue[i][j]
                    /\ \A m \in queue[i][j] : dist[result'[i][j]] <= dist[m]
             /\ queue'[i][j] \subseteq queue[i][j]
             /\ result'[i][j] \notin queue'[i][j]
             /\ Holds(i, j)' = queue[i][j]
             /\ Holds(i, j) = queue[i][j]
  <2>1. queue[i][j] \subseteq DOMAIN dist /\ result'[i][j] \in Heads(queue[i][j])
    BY <1>0, <1>1 DEF Types
  <2>2. queue'[i][j] = Rest(queue[i][j], result'[i][j]) /\ (queue_is_empty'[i][j] <=> result'[i][j] = NoLeaf)
    BY <1>2
  <2>3. Holds(i, j) = queue[i][j]
    BY <1>0 DEF HeadsRight, Holds
  <2> QED
    BY <1>0, <2>1, <2>2, <2>3, HeadFacts DEF Holds
<1>4. ASSUME NEW i \in Indexes
      PROVE  /\ \A k \in Open(queue_is_empty'[i]) : dist[result'[i][k]] \in Distances
             /\ num_queue'[i] = BestQueue(result'[i], queue_is_empty'[i])
             /\ mindist'[i] = BestDistance(result'[i], queue_is_empty'[i])
             /\ num_queue'[i] \in Queues /\ mindist'[i] \in Nat
  <2>1. ASSUME NEW k \in Open(queue_is_empty'[i]) PROVE dist[result'[i][k]] \in Distances
    <3>1. k \in Queues /\ ~queue_is_empty'[i][k]
      BY DEF Open
    <3>2. result'[i][k] \in DOMAIN dist
      BY <1>3, <3>1
    <3> QED
      BY <1>0, <3>2 DEF Types
  <2>2. /\ num_queue'[i] = BestQueue(result'[i], queue_is_empty'[i])
        /\ mindist'[i] = BestDistance(result'[i], queue_is_empty'[i])
    BY <1>2
  <2> QED
    BY <2>1, <2>2, BestFacts
<1>5. Types'
  <2>1. queue' \in [Indexes -> [Queues -> SUBSET DOMAIN dist]]
    BY <1>2, <1>3
  <2>2. queue_is_empty' \in [Indexes -> [Queues -> BOOLEAN]]
    BY <1>2
  <2>3. num_queue' \in [Indexes -> Queues] /\ mindist' \in [Indexes -> Nat]
    BY <1>2, <1>4
  <2> QED
    BY <1>0, <1>1, <2>1, <2>2, <2>3 DEF Types
<1>6. Places'
  <2>1. \A i, a \in Indexes : \A j, b \in Queues : \A l \in Holds(i, j)' \cap Holds(a, b)' : i = a /\ j = b
    BY <1>0, <1>3 DEF Places
  <2>2. \A i \in Indexes : \A j \in Queues :
            result'[i][j] \notin queue'[i][j] /\ queue'[i][j] \cap visited' = {}
    BY <1>0, <1>3
  <2>3. ASSUME NEW l \in DOMAIN dist
        PROVE  l \notin visited <=> \E i \in Indexes : \E j \in Queues : l \in Holds(i, j)'
    BY <1>0, <1>3 DEF Places
  <2> QED
    BY <1>0, <2>1, <2>2, <2>3 DEF Places
<1>7. HeadsRight'
  <2>1. ASSUME NEW i \in Indexes, NEW j \in Queues
        PROVE  /\ queue_is_empty'[i][j] <=> result'[i][j] = NoLeaf
               /\ queue_is_empty'[i][j] => queue'[i][j] = {}
               /\ ~queue_is_empty'[i][j] => \A m \in queue'[i][j] : dist[result'[i][j]] <= dist[m]
    BY <1>3
  <2>2. ASSUME NEW i \in Indexes
        PROVE  /\ num_queue'[i] = BestQueue(result[i], queue_is_empty[i])'
               /\ mindist'[i] = BestDistance(result[i], queue_is_empty[i])'
    BY <1>0, <1>4 DEF BestQueue, BestDistance
  <2> QED
    BY <1>0, <2>1, <2>2 DEF HeadsRight
<1>8. NodesRight'
  BY <1>0 DEF NodesRight
<1> QED
  BY <1>5, <1>6, <1>7, <1>8 DEF MergeInv

-----------------------------------------------------------------------------
(* The rounds.                                                             *)

\* What is known of each tree while the loop runs.
LEMMA TreeFacts ==
    ASSUME MergeInv, pc # "prime", NEW i \in Indexes
    PROVE  /\ mindist[i] \in Nat
           /\ i \in OpenTrees <=> Open(queue_is_empty[i]) # {}
           /\ i \in OpenTrees =>
                  /\ num_queue[i] \in Queues
                  /\ ~queue_is_empty[i][num_queue[i]]
                  /\ mindist[i] = dist[result[i][num_queue[i]]]
           /\ \A j \in Queues : ~queue_is_empty[i][j] =>
                  /\ i \in OpenTrees
                  /\ \A l \in Holds(i, j) : mindist[i] <= dist[l]
           /\ \A j \in Queues : queue_is_empty[i][j] <=> Holds(i, j) = {}
<1>0. Types /\ Places /\ HeadsRight
  BY DEF MergeInv
<1>1. ASSUME NEW j \in Queues
      PROVE  /\ queue[i][j] \subseteq DOMAIN dist
             /\ result[i][j] \in DOMAIN dist \cup {NoLeaf}
             /\ queue_is_empty[i][j] <=> result[i][j] = NoLeaf
             /\ queue_is_empty[i][j] => queue[i][j] = {}
             /\ ~queue_is_empty[i][j] => \A m \in queue[i][j] : dist[result[i][j]] <= dist[m]
  BY <1>0 DEF Types, HeadsRight
<1>2. \A l \in DOMAIN dist : dist[l] \in Distances /\ dist[l] \in Nat
  BY <1>0, IndexFacts DEF Types
<1>3. \A k \in Open(queue_is_empty[i]) : dist[result[i][k]] \in Distances
  BY <1>1, <1>2 DEF Open
<1>4. num_queue[i] = BestQueue(result[i], queue_is_empty[i])
      /\ mindist[i] = BestDistance(result[i], queue_is_empty[i])
  BY <1>0 DEF HeadsRight
<1>5. /\ mindist[i] \in Nat /\ num_queue[i] \in Queues
      /\ Open(queue_is_empty[i]) # {} =>
             /\ num_queue[i] \in Open(queue_is_empty[i])
             /\ mindist[i] = dist[result[i][num_queue[i]]]
             /\ mindist[i] < FltMax
             /\ \A k \in Open(queue_is_empty[i]) : mindist[i] <= dist[result[i][k]]
  BY <1>3, <1>4, BestFacts
<1>6. i \in OpenTrees <=> Open(queue_is_empty[i]) # {}
  BY <1>5 DEF OpenTrees
<1>7. ASSUME NEW j \in Queues, ~queue_is_empty[i][j]
      PROVE  i \in OpenTrees /\ \A l \in Holds(i, j) : mindist[i] <= dist[l]
  <2>1. j \in Open(queue_is_empty[i])
    BY <1>7 DEF Open
  <2>2. i \in OpenTrees /\ mindist[i] <= dist[result[i][j]]
    BY <1>5, <1>6, <2>1
  <2>3. ASSUME NEW l \in Holds(i, j) PROVE mindist[i] <= dist[l]
    <3>1. l = result[i][j] \/ l \in queue[i][j]
      BY DEF Holds
    <3>2. dist[result[i][j]] \in Nat /\ mindist[i] \in Nat
      BY <1>1, <1>2, <1>5, <1>7
    <3>3. l \in queue[i][j] => dist[result[i][j]] <= dist[l] /\ dist[l] \in Nat
      BY <1>1, <1>2, <1>7
    <3> QED
      BY <2>2, <3>1, <3>2, <3>3
  <2> QED
    BY <2>2, <2>3
<1>8. \A j \in Queues : queue_is_empty[i][j] <=> Holds(i, j) = {}
  BY <1>1 DEF Holds
<1>9. i \in OpenTrees => ~queue_is_empty[i][num_queue[i]]
  BY <1>5, <1>6 DEF Open
<1> QED
  BY <1>5, <1>6, <1>7, <1>8, <1>9

\* The head a round uses is new and as near as any leaf not yet used.
LEMMA NearestHead ==
    ASSUME MergeInv, pc = "round", OpenTrees # {},
           NEW i, i = NearestTree, NEW j, j = num_queue[i], NEW leaf, leaf = result[i][j]
    PROVE  /\ i \in Indexes /\ j \in Queues
           /\ leaf \in DOMAIN dist \ visited
           /\ leaf # NoLeaf
           /\ \A m \in DOMAIN dist \ visited : dist[leaf] <= dist[m]
<1>0. Types /\ Places /\ HeadsRight
  BY DEF MergeInv
<1>1. OpenTrees \subseteq Indexes
  BY DEF OpenTrees
<1>2. i \in OpenTrees /\ \A m \in OpenTrees : mindist[i] <= mindist[m]
  <2> DEFINE T == {k \in OpenTrees : \A m \in OpenTrees : mindist[k] <= mindist[m]}
  <2>1. \A k \in OpenTrees : mindist[k] \in Nat
    BY <1>1, TreeFacts
  <2>2. \E k \in OpenTrees : \A m \in OpenTrees : mindist[k] <= mindist[m]
    BY <2>1, LeastExists
  <2>3. T # {} /\ T \subseteq Nat
    BY <1>1, <2>2, IndexFacts
  <2>4. i = Min(T)
    BY DEF NearestTree
  <2>5. i \in T
    <3> HIDE DEF T
    <3> QED
      BY <2>3, <2>4, MinFacts
  <2> QED
    BY <2>5
<1>3. i \in Indexes /\ j \in Queues /\ ~queue_is_empty[i][j] /\ mindist[i] = dist[leaf]
  BY <1>1, <1>2, TreeFacts
<1>4. leaf # NoLeaf /\ leaf \in DOMAIN dist
  BY <1>0, <1>3 DEF Types, HeadsRight
<1>5. leaf \in Holds(i, j)
  BY <1>4 DEF Holds
<1>6. leaf \notin visited
  BY <1>0, <1>3, <1>4, <1>5 DEF Places
<1>7. ASSUME NEW m \in DOMAIN dist \ visited PROVE dist[leaf] <= dist[m]
  <2>1. PICK a \in Indexes, b \in Queues : m \in Holds(a, b)
    BY <1>0 DEF Places
  <2>2. ~queue_is_empty[a][b]
    BY <2>1, TreeFacts
  <2>3. a \in OpenTrees /\ mindist[a] <= dist[m] /\ mindist[a] \in Nat /\ mindist[i] \in Nat
    BY <1>3, <2>1, <2>2, TreeFacts
  <2>4. mindist[i] <= mindist[a]
    BY <1>2, <2>3
  <2>5. dist[m] \in Nat
    BY <1>0, IndexFacts DEF Types
  <2> QED
    BY <1>3, <2>3, <2>4, <2>5
<1> QED
  BY <1>3, <1>4, <1>6, <1>7

\* The points a round gathers.
LEMMA RoundGathers ==
    ASSUME MergeInv, pc = "round", NEW leaf \in DOMAIN dist, nodes' = Added(nodes, PointsOf(leaf))
    PROVE  /\ nodes' \in Seq(Dataset)
           /\ Distinct(nodes')
           /\ Len(nodes') <= MaxCandidateSize
           /\ ToSet(nodes) \subseteq ToSet(nodes')
           /\ ToSet(nodes') \subseteq ToSet(nodes) \cup ToSet(PointsOf(leaf))
           /\ Len(nodes') = MaxCandidateSize \/ ToSet(nodes') = ToSet(nodes) \cup ToSet(PointsOf(leaf))
<1>1. PointsOf(leaf) \in Seq(Dataset)
  BY LeavesAssumption DEF MergeInv, Types
<1>2. nodes \in Seq(Dataset) /\ Distinct(nodes) /\ Len(nodes) <= MaxCandidateSize
  BY DEF MergeInv, NodesRight
<1> QED
  BY <1>1, <1>2, AddedFacts

LEMMA RoundNodes ==
    ASSUME MergeInv, pc = "round", NEW leaf \in DOMAIN dist, nodes' = Added(nodes, PointsOf(leaf)),
           pc' # "done" => Len(nodes') < MaxCandidateSize
    PROVE  NodesRight'
<1>1. leaf \in Leaves
  BY DEF MergeInv, Types
<1>2. ToSet(nodes) \subseteq UNION {ToSet(PointsOf(l)) : l \in Leaves}
  BY DEF MergeInv, NodesRight
<1>3. ToSet(PointsOf(leaf)) \subseteq UNION {ToSet(PointsOf(l)) : l \in Leaves}
  BY <1>1
<1>4. /\ nodes' \in Seq(Dataset) /\ Distinct(nodes') /\ Len(nodes') <= MaxCandidateSize
      /\ ToSet(nodes') \subseteq ToSet(nodes) \cup ToSet(PointsOf(leaf))
  BY RoundGathers
<1>5. ToSet(nodes') \subseteq UNION {ToSet(PointsOf(l)) : l \in Leaves}
  <2> DEFINE all == UNION {ToSet(PointsOf(l)) : l \in Leaves}
  <2> HIDE DEF all
  <2>1. ToSet(nodes) \subseteq all /\ ToSet(PointsOf(leaf)) \subseteq all
    BY <1>2, <1>3 DEF all
  <2>2. ToSet(nodes') \subseteq all
    BY <1>4, <2>1
  <2> QED
    BY <2>2 DEF all
<1> QED
  BY <1>4, <1>5 DEF NodesRight

\* With the distances unchanged, the nearest head of the next state is that of the
\* next heads.
LEMMA BestPrimed ==
    ASSUME dist' = dist, NEW a
    PROVE  /\ BestQueue(result[a], queue_is_empty[a])' = BestQueue(result'[a], queue_is_empty'[a])
           /\ BestDistance(result[a], queue_is_empty[a])' = BestDistance(result'[a], queue_is_empty'[a])
  BY DEF BestQueue, BestDistance

\* The heads stay right as long as they are left alone.
LEMMA HeadsKept ==
    ASSUME HeadsRight, UNCHANGED heads, dist' = dist,
           pc = "prime" <=> pc' = "prime", pc = "prime" => visited' = visited
    PROVE  HeadsRight'
<1>0. /\ queue' = queue /\ result' = result /\ queue_is_empty' = queue_is_empty
      /\ mindist' = mindist /\ num_queue' = num_queue
  BY DEF heads
<1>1. ASSUME pc = "prime" PROVE HeadsRight'
  BY <1>0, <1>1 DEF HeadsRight
<1>2. ASSUME pc # "prime", NEW i \in Indexes
      PROVE  /\ num_queue'[i] = BestQueue(result[i], queue_is_empty[i])'
             /\ mindist'[i] = BestDistance(result[i], queue_is_empty[i])'
  BY <1>0, <1>2, BestPrimed DEF HeadsRight
<1>3. ASSUME pc # "prime" PROVE HeadsRight'
  BY <1>0, <1>2, <1>3 DEF HeadsRight
<1> QED
  BY <1>1, <1>3

\* At the limit the heads stay.
LEMMA LimitKeeps ==
    ASSUME MergeInv, NEW i, NEW j, NEW leaf,
           i \in Indexes, j \in Queues, leaf = result[i][j], leaf # NoLeaf, leaf \in DOMAIN dist,
           pc = "round", pc' = "done", visited' = visited \cup {leaf}, dist' = dist, UNCHANGED heads
    PROVE  Types' /\ Places' /\ HeadsRight'
<1>0. /\ Types /\ Places /\ HeadsRight
      /\ queue' = queue /\ result' = result /\ queue_is_empty' = queue_is_empty
      /\ mindist' = mindist /\ num_queue' = num_queue
  BY DEF MergeInv, heads
<1>1. Types'
  BY <1>0 DEF Types
<1>2. \A a \in Indexes : \A b \in Queues : Holds(a, b)' = Holds(a, b)
  BY <1>0 DEF Holds
<1>3. ASSUME NEW a \in Indexes, NEW b \in Queues PROVE queue[a][b] \cap visited' = {}
  <2>1. leaf \in Holds(i, j) /\ queue[a][b] \subseteq Holds(a, b)
    BY DEF Holds
  <2>2. leaf \notin queue[a][b]
    BY <1>0, <2>1 DEF Places
  <2> QED
    BY <1>0, <2>2 DEF Places
<1>4. Places'
  BY <1>0, <1>2, <1>3 DEF Places
<1>5. HeadsRight'
  BY <1>0, HeadsKept DEF heads
<1> QED
  BY <1>1, <1>4, <1>5

\* Else the next leaf of the same queue becomes its head.
LEMMA NextHead ==
    ASSUME MergeInv, NEW i \in Indexes, NEW j \in Queues, NEW leaf, NEW head \in Heads(queue[i][j]),
           leaf = result[i][j], leaf \in DOMAIN dist \ visited,
           pc = "round", pc' = pc, visited' = visited \cup {leaf}, dist' = dist,
           result' = [result EXCEPT ![i][j] = head],
           queue' = [queue EXCEPT ![i][j] = Rest(@, head)],
           queue_is_empty' = [queue_is_empty EXCEPT ![i][j] = (head = NoLeaf)],
           num_queue' = [num_queue EXCEPT ![i] = BestQueue(result'[i], queue_is_empty'[i])],
           mindist' = [mindist EXCEPT ![i] = BestDistance(result'[i], queue_is_empty'[i])]
    PROVE  Types' /\ Places' /\ HeadsRight'
<1>0. Types /\ Places /\ HeadsRight
  BY DEF MergeInv
<1>1. /\ queue[i][j] \subseteq DOMAIN dist
      /\ head = NoLeaf <=> queue[i][j] = {}
      /\ head # NoLeaf => head \in queue[i][j] /\ \A m \in queue[i][j] : dist[head] <= dist[m]
      /\ head \in DOMAIN dist \cup {NoLeaf}
      /\ Rest(queue[i][j], head) \subseteq queue[i][j]
      /\ head \notin Rest(queue[i][j], head)
      /\ Rest(queue[i][j], head) \cup ({head} \ {NoLeaf}) = queue[i][j]
  <2>1. queue[i][j] \subseteq DOMAIN dist
    BY <1>0 DEF Types
  <2> QED
    BY <1>0, <2>1, HeadFacts
<1>2. /\ result'[i][j] = head
      /\ queue'[i][j] = Rest(queue[i][j], head)
      /\ queue_is_empty'[i][j] <=> head = NoLeaf
      /\ \A a \in Indexes : \A b \in Queues : a # i \/ b # j =>
             /\ result'[a][b] = result[a][b]
             /\ queue'[a][b] = queue[a][b]
             /\ queue_is_empty'[a][b] = queue_is_empty[a][b]
  BY <1>0 DEF Types
<1>3. /\ Holds(i, j)' = queue[i][j]
      /\ \A a \in Indexes : \A b \in Queues : a # i \/ b # j => Holds(a, b)' = Holds(a, b)
      /\ leaf # NoLeaf
      /\ Holds(i, j) = queue[i][j] \cup {leaf}
      /\ leaf \notin queue[i][j]
  <2>1. leaf # NoLeaf
    BY <1>0, LeavesAssumption DEF Types
  <2> QED
    BY <1>0, <1>1, <1>2, <2>1 DEF Holds, Places
<1>4. ASSUME NEW a \in Indexes, NEW k \in Open(queue_is_empty'[a])
      PROVE  dist[result'[a][k]] \in Distances
  <2>1. k \in Queues /\ ~queue_is_empty'[a][k]
    BY DEF Open
  <2>2. result'[a][k] \in DOMAIN dist
    BY <1>0, <1>1, <1>2, <2>1 DEF Types, HeadsRight
  <2> QED
    BY <1>0, <2>2 DEF Types
<1>5. Types'
  <2>1. result' \in [Indexes -> [Queues -> DOMAIN dist \cup {NoLeaf}]]
    BY <1>0, <1>1 DEF Types
  <2>2. queue' \in [Indexes -> [Queues -> SUBSET DOMAIN dist]]
    BY <1>0, <1>1 DEF Types
  <2>3. queue_is_empty' \in [Indexes -> [Queues -> BOOLEAN]]
    <3>1. (head = NoLeaf) \in BOOLEAN
      OBVIOUS
    <3> QED
      BY <1>0, <3>1 DEF Types
  <2>4. BestQueue(result'[i], queue_is_empty'[i]) \in Queues
        /\ BestDistance(result'[i], queue_is_empty'[i]) \in Nat
    BY <1>4, BestFacts
  <2>5. num_queue' \in [Indexes -> Queues] /\ mindist' \in [Indexes -> Nat]
    BY <1>0, <2>4 DEF Types
  <2>6. visited' \subseteq DOMAIN dist'
    BY <1>0 DEF Types
  <2> QED
    BY <1>0, <2>1, <2>2, <2>3, <2>5, <2>6 DEF Types
<1>6. Places'
  <2>1. ASSUME NEW a \in Indexes, NEW b \in Queues PROVE Holds(a, b)' \subseteq Holds(a, b)
    BY <1>3
  <2>2. \A a, c \in Indexes : \A b, f \in Queues : \A l \in Holds(a, b)' \cap Holds(c, f)' : a = c /\ b = f
    BY <1>0, <2>1 DEF Places
  <2>3. \A a \in Indexes : \A b \in Queues : result'[a][b] \notin queue'[a][b]
    BY <1>0, <1>1, <1>2 DEF Places
  <2>4. ASSUME NEW a \in Indexes, NEW b \in Queues PROVE queue'[a][b] \cap visited' = {}
    <3>1. queue'[a][b] \subseteq queue[a][b]
      BY <1>1, <1>2
    <3>2. leaf \in Holds(i, j) /\ queue[a][b] \subseteq Holds(a, b)
      BY <1>3 DEF Holds
    <3>3. leaf \notin queue[a][b]
      BY <1>0, <1>3, <3>2 DEF Places
    <3> QED
      BY <1>0, <3>1, <3>3 DEF Places
  <2>5. ASSUME NEW l \in DOMAIN dist
        PROVE  l \notin visited' <=> \E a \in Indexes : \E b \in Queues : l \in Holds(a, b)'
    <3>1. l \notin visited <=> \E a \in Indexes : \E b \in Queues : l \in Holds(a, b)
      BY <1>0 DEF Places
    <3>2. CASE l = leaf
      <4>1. \A a \in Indexes : \A b \in Queues : leaf \in Holds(a, b) => a = i /\ b = j
        BY <1>0, <1>3 DEF Places
      <4> QED
        BY <1>3, <2>1, <3>2, <4>1
    <3>3. CASE l # leaf
      <4>1. \A a \in Indexes : \A b \in Queues : l \in Holds(a, b)' <=> l \in Holds(a, b)
        BY <1>3, <3>3
      <4> QED
        BY <3>1, <3>3, <4>1
    <3> QED
      BY <3>2, <3>3
  <2> QED
    BY <2>2, <2>3, <2>4, <2>5 DEF Places
<1>7. HeadsRight'
  <2>1. ASSUME NEW a \in Indexes, NEW b \in Queues
        PROVE  /\ queue_is_empty'[a][b] <=> result'[a][b] = NoLeaf
               /\ queue_is_empty'[a][b] => queue'[a][b] = {}
               /\ ~queue_is_empty'[a][b] => \A m \in queue'[a][b] : dist[result'[a][b]] <= dist[m]
    <3>1. CASE a = i /\ b = j
      BY <1>1, <1>2, <3>1
    <3>2. CASE a # i \/ b # j
      BY <1>0, <1>2, <3>2 DEF HeadsRight
    <3> QED
      BY <3>1, <3>2
  <2>2. ASSUME NEW a \in Indexes
        PROVE  /\ num_queue'[a] = BestQueue(result[a], queue_is_empty[a])'
               /\ mindist'[a] = BestDistance(result[a], queue_is_empty[a])'
    <3>1. /\ num_queue'[a] = BestQueue(result'[a], queue_is_empty'[a])
          /\ mindist'[a] = BestDistance(result'[a], queue_is_empty'[a])
      <4>1. CASE a = i
        BY <1>0, <4>1 DEF Types
      <4>2. CASE a # i
        <5>1. result'[a] = result[a] /\ queue_is_empty'[a] = queue_is_empty[a]
          BY <1>0, <4>2 DEF Types
        <5>2. num_queue'[a] = num_queue[a] /\ mindist'[a] = mindist[a]
          BY <1>0, <4>2 DEF Types
        <5> QED
          BY <1>0, <5>1, <5>2 DEF HeadsRight
      <4> QED
        BY <4>1, <4>2
    <3> QED
      BY <3>1, BestPrimed
  <2>3. \A a \in Indexes : \A b \in Queues :
            ~queue_is_empty'[a][b] => \A m \in queue'[a][b] : dist'[result'[a][b]] <= dist'[m]
    BY <2>1
  <2>4. pc' = "round"
    OBVIOUS
  <2> QED
    BY ONLY <2>1, <2>2, <2>3, <2>4 DEF HeadsRight
<1> QED
  BY <1>5, <1>6, <1>7

LEMMA RoundKeeps == ASSUME MergeInv, Round PROVE MergeInv'
<1> PICK i : i = NearestTree
  OBVIOUS
<1> PICK j : j = num_queue[i]
  OBVIOUS
<1> PICK leaf : leaf = result[i][j]
  OBVIOUS
<1>0. /\ pc = "round" /\ OpenTrees # {} /\ dist' = dist
      /\ nodes' = Added(nodes, PointsOf(leaf))
      /\ visited' = visited \cup {leaf}
      /\ \/ Len(nodes') = MaxCandidateSize /\ pc' = "done" /\ UNCHANGED heads
         \/ /\ Len(nodes') < MaxCandidateSize /\ pc' = pc
            /\ \E head \in Heads(queue[i][j]) :
                   /\ result' = [result EXCEPT ![i][j] = head]
                   /\ queue' = [queue EXCEPT ![i][j] = Rest(@, head)]
                   /\ queue_is_empty' = [queue_is_empty EXCEPT ![i][j] = (head = NoLeaf)]
            /\ num_queue' = [num_queue EXCEPT ![i] = BestQueue(result'[i], queue_is_empty'[i])]
            /\ mindist' = [mindist EXCEPT ![i] = BestDistance(result'[i], queue_is_empty'[i])]
  BY DEF Round
<1>1. i \in Indexes /\ j \in Queues /\ leaf \in DOMAIN dist \ visited /\ leaf # NoLeaf
  BY <1>0, NearestHead
<1>2. pc' # "done" => Len(nodes') < MaxCandidateSize
  BY <1>0
<1>3. NodesRight'
  BY <1>0, <1>1, <1>2, RoundNodes
<1>4. CASE Len(nodes') = MaxCandidateSize /\ pc' = "done" /\ UNCHANGED heads
  <2>1. Types' /\ Places' /\ HeadsRight'
    BY <1>0, <1>1, <1>4, LimitKeeps
  <2> QED
    BY <1>3, <2>1 DEF MergeInv
<1>5. ASSUME NEW head \in Heads(queue[i][j]),
             result' = [result EXCEPT ![i][j] = head],
             queue' = [queue EXCEPT ![i][j] = Rest(@, head)],
             queue_is_empty' = [queue_is_empty EXCEPT ![i][j] = (head = NoLeaf)],
             num_queue' = [num_queue EXCEPT ![i] = BestQueue(result'[i], queue_is_empty'[i])],
             mindist' = [mindist EXCEPT ![i] = BestDistance(result'[i], queue_is_empty'[i])],
             pc' = pc
      PROVE  MergeInv'
  <2>1. Types' /\ Places' /\ HeadsRight'
    BY <1>0, <1>1, <1>5, NextHead
  <2> QED
    BY <1>3, <2>1 DEF MergeInv
<1> QED
  BY <1>0, <1>4, <1>5

\* The loop ends without the limit only when every leaf has been used.
LEMMA ExhaustedFacts == ASSUME MergeInv, Exhausted PROVE MergeInv' /\ visited = DOMAIN dist
<1>0. /\ Types /\ Places /\ HeadsRight /\ NodesRight
      /\ pc = "round" /\ OpenTrees = {} /\ pc' = "done"
      /\ dist' = dist /\ nodes' = nodes /\ visited' = visited
      /\ queue' = queue /\ result' = result /\ queue_is_empty' = queue_is_empty
      /\ mindist' = mindist /\ num_queue' = num_queue
  BY DEF MergeInv, Exhausted, heads
<1>1. visited = DOMAIN dist
  <2>1. \A i \in Indexes : \A j \in Queues : Holds(i, j) = {}
    BY <1>0, TreeFacts
  <2>2. \A l \in DOMAIN dist : l \in visited
    BY <1>0, <2>1 DEF Places
  <2> QED
    BY <1>0, <2>2 DEF Types
<1>2. Types'
  BY <1>0 DEF Types
<1>3. \A a \in Indexes : \A b \in Queues : Holds(a, b)' = Holds(a, b)
  BY <1>0 DEF Holds
<1>4. Places'
  BY <1>0, <1>3 DEF Places
<1>5. HeadsRight'
  BY <1>0, HeadsKept DEF heads
<1>6. NodesRight'
  BY <1>0 DEF NodesRight
<1> QED
  BY <1>1, <1>2, <1>4, <1>5, <1>6 DEF MergeInv

LEMMA MergeNext == MergeInv /\ [Next]_vars => MergeInv'
<1> SUFFICES ASSUME MergeInv, [Next]_vars PROVE MergeInv'
  OBVIOUS
<1>1. CASE Prime
  BY <1>1, PrimeKeeps
<1>2. CASE Round
  BY <1>2, RoundKeeps
<1>3. CASE Exhausted
  BY <1>3, ExhaustedFacts
<1>4. CASE UNCHANGED vars
  <2>0. /\ Types /\ Places /\ HeadsRight /\ NodesRight
        /\ pc' = pc /\ dist' = dist /\ nodes' = nodes /\ visited' = visited
        /\ queue' = queue /\ result' = result /\ queue_is_empty' = queue_is_empty
        /\ mindist' = mindist /\ num_queue' = num_queue
    BY <1>4 DEF MergeInv, vars, heads
  <2>1. \A a \in Indexes : \A b \in Queues : Holds(a, b)' = Holds(a, b)
    BY <2>0 DEF Holds
  <2>2. Types' /\ NodesRight'
    BY <2>0 DEF Types, NodesRight
  <2>3. Places'
    BY <2>0, <2>1 DEF Places
  <2>4. HeadsRight'
    BY <2>0, HeadsKept DEF heads
  <2> QED
    BY <2>2, <2>3, <2>4 DEF MergeInv
<1> QED
  BY <1>1, <1>2, <1>3, <1>4 DEF Next, Done

LEMMA MergeAlways == Spec => []MergeInv
  BY MergeInit, MergeNext, PTL DEF Spec

-----------------------------------------------------------------------------
(* The theorems.                                                           *)

LEMMA InvTypeOK == ASSUME MergeInv PROVE TypeOK
<1>0. Types /\ Places /\ HeadsRight /\ NodesRight
  BY DEF MergeInv
<1>1. nodes \in Seq(UNION {ToSet(PointsOf(l)) : l \in Leaves})
  <2>1. \A n \in DOMAIN nodes : nodes[n] \in ToSet(nodes)
    BY DEF ToSet
  <2>2. \A n \in 1 .. Len(nodes) : nodes[n] \in UNION {ToSet(PointsOf(l)) : l \in Leaves}
    BY <1>0, <2>1 DEF NodesRight
  <2> DEFINE all == UNION {ToSet(PointsOf(l)) : l \in Leaves}
  <2> HIDE DEF all
  <2>3. \A n \in 1 .. Len(nodes) : nodes[n] \in all
    BY <2>2 DEF all
  <2>4. nodes \in Seq(Dataset)
    BY <1>0 DEF NodesRight
  <2>5. nodes \in Seq(all)
    BY <2>3, <2>4
  <2> QED
    BY <2>5 DEF all
<1>2. ASSUME NEW i \in Indexes
      PROVE  /\ num_queue[i] \in Queues
             /\ mindist[i] < FltMax => result[i][num_queue[i]] # NoLeaf
             /\ \A j \in Queues :
                    /\ queue[i][j] \cap (visited \cup {result[i][j]}) = {}
                    /\ queue_is_empty[i][j] => queue[i][j] = {}
  <2>1. num_queue[i] \in Queues
    BY <1>0 DEF Types
  <2>2. mindist[i] < FltMax => result[i][num_queue[i]] # NoLeaf
    <3>1. CASE pc = "prime"
      BY <1>0, <3>1, FltMaxFacts DEF HeadsRight
    <3>2. CASE pc # "prime"
      <4>1. ASSUME mindist[i] < FltMax PROVE Open(queue_is_empty[i]) # {}
        <5>1. mindist[i] = BestDistance(result[i], queue_is_empty[i])
          BY <1>0, <3>2 DEF HeadsRight
        <5> QED
          BY <4>1, <5>1, FltMaxFacts DEF BestDistance
      <4> QED
        BY <1>0, <2>1, <3>2, <4>1, TreeFacts DEF HeadsRight
    <3> QED
      BY <3>1, <3>2
  <2>3. ASSUME NEW j \in Queues
        PROVE  /\ queue[i][j] \cap (visited \cup {result[i][j]}) = {}
               /\ queue_is_empty[i][j] => queue[i][j] = {}
    BY <1>0 DEF Places, HeadsRight
  <2> QED
    BY <2>1, <2>2, <2>3
<1> QED
  BY <1>0, <1>1, <1>2 DEF TypeOK, Types

\* While a tree has a leaf left, num_queue names a queue of it with a head, which
\* the round dereferences, and a leaf is never both used and still queued.
THEOREM TypeCorrect == Spec => []TypeOK
<1>1. MergeInv => TypeOK
  BY InvTypeOK
<1> QED
  BY <1>1, MergeAlways, PTL

\* Both modules count with the Cardinality of FiniteSets.
LEMMA SameCardinality == ASSUME NEW S PROVE Nearest!Cardinality(S) = Cardinality(S)
  BY DEF Nearest!Cardinality, Cardinality

LEMMA StepImplements ==
    MergeInv /\ [Next]_vars => [Nearest!Next]_(Nearest!vars)
<1> SUFFICES ASSUME MergeInv, [Next]_vars PROVE [Nearest!Next]_(Nearest!vars)
  OBVIOUS
<1>1. CASE Prime
  <2>1. dist' = dist /\ visited' = visited /\ nodes' = nodes /\ pc # "done" /\ pc' # "done"
    BY <1>1 DEF Prime
  <2> QED
    BY <2>1 DEF Nearest!vars
<1>2. CASE Exhausted
  <2>1. /\ dist' = dist /\ visited' = visited /\ nodes' = nodes /\ pc # "done" /\ pc' = "done"
        /\ visited = DOMAIN dist
    BY <1>2, ExhaustedFacts DEF Exhausted
  <2> QED
    BY <2>1 DEF Nearest!Next, Nearest!Finish
<1>3. CASE Round
  <2> PICK leaf : leaf = result[NearestTree][num_queue[NearestTree]]
    OBVIOUS
  <2>1. /\ pc = "round" /\ OpenTrees # {} /\ dist' = dist
        /\ nodes' = Added(nodes, PointsOf(leaf))
        /\ visited' = visited \cup {leaf}
        /\ \/ Len(nodes') = MaxCandidateSize /\ pc' = "done"
           \/ Len(nodes') < MaxCandidateSize /\ pc' = pc
    BY <1>3 DEF Round
  <2>2. leaf \in DOMAIN dist \ visited /\ \A m \in DOMAIN dist \ visited : dist[leaf] <= dist[m]
    BY <2>1, NearestHead
  <2>3. /\ nodes' \in Seq(Dataset) /\ Distinct(nodes') /\ Len(nodes') <= MaxCandidateSize
        /\ ToSet(nodes) \subseteq ToSet(nodes')
        /\ ToSet(nodes') \subseteq ToSet(nodes) \cup ToSet(PointsOf(leaf))
        /\ Len(nodes') = MaxCandidateSize \/ ToSet(nodes') = ToSet(nodes) \cup ToSet(PointsOf(leaf))
    BY <2>1, <2>2, RoundGathers
  <2>4. Cardinality(ToSet(nodes')) = Len(nodes')
    BY <2>3, DistinctCount, SameToSet
  <2> DEFINE new == ToSet(nodes') \ ToSet(nodes)
  <2>5. /\ new \in SUBSET (PointSet(leaf) \ ToSet(nodes))
        /\ ToSet(nodes') = ToSet(nodes) \cup new
        /\ new = PointSet(leaf) \ ToSet(nodes) \/ Len(nodes') = MaxCandidateSize
    BY <2>3 DEF PointSet
  <2>6. (pc' = "done") = (Len(nodes') = MaxCandidateSize)
    BY <2>1, <2>3, MaxCandidateSizeAssumption
  <2>7. Nearest!Visit(leaf)
    <3> HIDE DEF new
    <3>1. /\ ToSet(nodes)' = ToSet(nodes) \cup new
          /\ Cardinality(ToSet(nodes) \cup new) = Len(nodes')
      BY <2>4, <2>5 DEF ToSet
    <3>2. /\ pc # "done" /\ dist' = dist
          /\ \A m \in DOMAIN dist \ visited : dist[leaf] <= dist[m]
          /\ visited' = visited \cup {leaf}
      BY <2>1, <2>2
    <3>3. /\ Nearest!Cardinality(ToSet(nodes) \cup new) = Len(nodes')
          /\ ToSet(nodes)' = ToSet(nodes) \cup new
          /\ (pc = "done")' = (Len(nodes') = MaxCandidateSize)
      BY <2>6, <3>1, SameCardinality
    <3> QED
      BY <2>3, <2>5, <3>2, <3>3 DEF Nearest!Visit
  <2> QED
    BY <2>2, <2>7 DEF Nearest!Next
<1>4. CASE UNCHANGED vars
  BY <1>4 DEF vars, Nearest!vars
<1> QED
  BY <1>1, <1>2, <1>3, <1>4 DEF Next, Done

\* The candidate step with one thread does what NearestLeaves promises: no leaf of
\* any tree is used before a nearer one, no point is added twice, and the step ends
\* at the limit or with every leaf used.
THEOREM ImplementsNearestLeaves ==
    Spec => Nearest!Init /\ [][Nearest!Next]_(Nearest!vars)
<1>1. Init => Nearest!Init
  <2> SUFFICES ASSUME Init PROVE Nearest!Init
    OBVIOUS
  <2>1. PICK found \in SUBSET Leaves : dist \in [found -> Distances]
    BY DEF Init
  <2>2. dist \in [found -> Nat]
    BY <2>1, DistancesAssumption
  <2>3. ToSet(nodes) = {} /\ visited = {} /\ (pc = "done") = FALSE
    BY DEF Init, ToSet
  <2> QED
    BY <2>2, <2>3 DEF Nearest!Init
<1> QED
  BY <1>1, MergeAlways, StepImplements, PTL DEF Spec
=============================================================================
