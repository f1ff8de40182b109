--------------------------- MODULE DiskIndexProofs ---------------------------
(***************************************************************************)
(* The index on disk loses no record, holds none twice, and its queries    *)
(* look at each record of a leaf, for every number of segments and bits,   *)
(* every leaf size, any records, any choice of the leaves that are loaded  *)
(* and any number of crashes and restarts.                                 *)
(*                                                                         *)
(* The invariant has three parts. The tree: every encoding has one leaf,   *)
(* and two leaves never have the same file names. Building: a record       *)
(* awaits its turn in a soft buffer, is on its way, or is in the buffers   *)
(* or the .part file of the leaf of its encoding, and only one of these.   *)
(* Querying: the .part file of a leaf holds all its records, and so does   *)
(* the .full file its flag stands for, unless a kill has cut it inside a   *)
(* record; so that a leaf is complete under its flags, and also under      *)
(* those in index.idx, with which a process starts after a crash.          *)
(***************************************************************************)
EXTENDS DiskIndex, InductionLemmas

-----------------------------------------------------------------------------
(* What operators on sequences make of the records in them.                *)

LEMMA NoEntries == Entries(<<>>) = {} /\ Distinct(<<>>)
  BY DEF Entries, Distinct

LEMMA SameEntries == ASSUME NEW s PROVE ToSet(s) = Entries(s)
  BY DEF ToSet, Entries

LEMMA EmptyIffNoEntries ==
    ASSUME NEW S, NEW s \in Seq(S)
    PROVE  /\ s = <<>> <=> Entries(s) = {}
           /\ s = <<>> <=> Len(s) = 0
<1>1. DOMAIN s = 1 .. Len(s) /\ Len(s) \in Nat /\ (s = <<>> <=> Len(s) = 0)
  OBVIOUS
<1>2. ASSUME s # <<>> PROVE Entries(s) # {}
  <2>1. 1 \in DOMAIN s
    BY <1>1, <1>2
  <2> QED
    BY <2>1 DEF Entries
<1> QED
  BY <1>1, <1>2, NoEntries

LEMMA OneEntry ==
    ASSUME NEW S, NEW e \in S
    PROVE  <<e>> \in Seq(S) /\ Len(<<e>>) = 1 /\ Entries(<<e>>) = {e} /\ Distinct(<<e>>)
  BY DEF Entries, Distinct

LEMMA ConcatFacts ==
    ASSUME NEW S, NEW a \in Seq(S), NEW b \in Seq(S)
    PROVE  /\ a \o b \in Seq(S)
           /\ Len(a \o b) = Len(a) + Len(b)
           /\ Entries(a \o b) = Entries(a) \cup Entries(b)
           /\ Distinct(a \o b) <=> /\ Distinct(a) /\ Distinct(b)
                                   /\ Entries(a) \cap Entries(b) = {}
<1> PICK c : c = a \o b
  OBVIOUS
<1> PICK m \in Nat : m = Len(a)
  OBVIOUS
<1> PICK n \in Nat : n = Len(b)
  OBVIOUS
<1>1. /\ c \in Seq(S) /\ Len(c) = m + n /\ DOMAIN c = 1 .. m + n
      /\ DOMAIN a = 1 .. m /\ DOMAIN b = 1 .. n
      /\ \A k \in 1 .. m : c[k] = a[k]
      /\ \A k \in 1 .. n : c[m + k] = b[k]
  OBVIOUS
<1>2. ASSUME NEW k \in 1 .. m + n, k \notin 1 .. m PROVE \E h \in 1 .. n : k = m + h
  <2>1. k - m \in 1 .. n /\ k = m + (k - m)
    BY <1>2
  <2> QED
    BY <2>1
<1>3. \A h \in 1 .. n : m + h \in 1 .. m + n /\ m + h \notin 1 .. m
  OBVIOUS
<1>4. \A h \in 1 .. m : h \in 1 .. m + n
  OBVIOUS
<1>5. Entries(c) = Entries(a) \cup Entries(b)
  <2>1. ASSUME NEW x \in Entries(c) PROVE x \in Entries(a) \cup Entries(b)
    <3>1. PICK k \in 1 .. m + n : x = c[k]
      BY <1>1 DEF Entries
    <3>2. CASE k \in 1 .. m
      BY <1>1, <3>1, <3>2 DEF Entries
    <3>3. CASE k \notin 1 .. m
      <4>1. PICK h \in 1 .. n : k = m + h
        BY <1>2, <3>3
      <4>2. x = b[h]
        BY <1>1, <3>1, <4>1
      <4> QED
        BY <1>1, <4>2 DEF Entries
    <3> QED
      BY <3>2, <3>3
  <2>2. ASSUME NEW x \in Entries(a) \cup Entries(b) PROVE x \in Entries(c)
    BY <1>1, <1>3, <1>4 DEF Entries
  <2> QED
    BY <2>1, <2>2
<1>6. ASSUME Distinct(c) PROVE Distinct(a) /\ Distinct(b) /\ Entries(a) \cap Entries(b) = {}
  <2>1. \A h, k \in 1 .. m + n : c[h] = c[k] => h = k
    BY <1>1, <1>6 DEF Distinct
  <2>2. Distinct(a)
    BY <1>1, <1>4, <2>1 DEF Distinct
  <2>3. Distinct(b)
    <3>1. ASSUME NEW h \in 1 .. n, NEW k \in 1 .. n, b[h] = b[k] PROVE h = k
      <4>1. PICK x \in 1 .. m + n, y \in 1 .. m + n : x = m + h /\ y = m + k
        BY <1>3
      <4>2. c[x] = b[h] /\ c[y] = b[k]
        BY <1>1, <4>1
      <4>3. x = y
        BY <2>1, <3>1, <4>2, SMTT(30)
      <4> QED
        BY <4>1, <4>3
    <3> QED
      BY <1>1, <3>1 DEF Distinct
  <2>4. ASSUME NEW h \in 1 .. m, NEW k \in 1 .. n PROVE a[h] # b[k]
    <3>1. PICK y \in 1 .. m + n : y = m + k /\ y # h
      BY <1>3
    <3>2. c[h] = a[h] /\ c[y] = b[k]
      BY <1>1, <3>1
    <3> QED
      BY <1>4, <2>1, <3>1, <3>2
  <2> QED
    BY <1>1, <2>2, <2>3, <2>4 DEF Entries
<1>7. ASSUME Distinct(a), Distinct(b), Entries(a) \cap Entries(b) = {} PROVE Distinct(c)
  <2>1. ASSUME NEW h \in 1 .. m, NEW k \in 1 .. n PROVE a[h] # b[k]
    <3>1. a[h] \in Entries(a) /\ b[k] \in Entries(b)
      BY <1>1, Zenon DEF Entries
    <3> QED
      BY ONLY <1>7, <3>1, Zenon
  <2>2. ASSUME NEW h \in 1 .. m + n, NEW k \in 1 .. m + n, c[h] = c[k] PROVE h = k
    <3>1. CASE h \in 1 .. m /\ k \in 1 .. m
      BY <1>1, <1>7, <2>2, <3>1 DEF Distinct
    <3>2. CASE h \in 1 .. m /\ k \notin 1 .. m
      BY <1>1, <1>2, <2>1, <2>2, <3>2
    <3>3. CASE h \notin 1 .. m /\ k \in 1 .. m
      BY <1>1, <1>2, <2>1, <2>2, <3>3
    <3>4. CASE h \notin 1 .. m /\ k \notin 1 .. m
      <4>1. PICK x \in 1 .. n, y \in 1 .. n : h = m + x /\ k = m + y
        BY <1>2, <3>4
      <4>2. b[x] = b[y]
        BY <1>1, <2>2, <4>1
      <4> QED
        BY <1>1, <1>7, <4>1, <4>2 DEF Distinct
    <3> QED
      BY <3>1, <3>2, <3>3, <3>4
  <2> QED
    BY <1>1, <2>2 DEF Distinct
<1> QED
  BY <1>1, <1>5, <1>6, <1>7

LEMMA ReverseFacts ==
    ASSUME NEW S, NEW s \in Seq(S)
    PROVE  /\ Reverse(s) \in Seq(S) /\ Len(Reverse(s)) = Len(s)
           /\ Entries(Reverse(s)) = Entries(s)
           /\ Distinct(s) => Distinct(Reverse(s))
<1> PICK m \in Nat : m = Len(s)
  OBVIOUS
<1> PICK r : r = Reverse(s)
  OBVIOUS
<1>1. \A k \in 1 .. m : m - k + 1 \in 1 .. m /\ m - (m - k + 1) + 1 = k
  OBVIOUS
<1>2. DOMAIN s = 1 .. m /\ \A k \in 1 .. m : s[k] \in S
  OBVIOUS
<1>3. DOMAIN r = 1 .. m /\ \A k \in 1 .. m : r[k] = s[m - k + 1]
  BY DEF Reverse
<1>4. r \in Seq(S) /\ Len(r) = m
  BY <1>1, <1>2, <1>3 DEF Reverse
<1>5. ASSUME NEW x \in Entries(s) PROVE x \in Entries(r)
  <2>1. PICK k \in 1 .. m : x = s[k]
    BY <1>2 DEF Entries
  <2>2. r[m - k + 1] = s[k]
    BY <1>1, <1>3
  <2> QED
    BY <1>1, <1>3, <2>1, <2>2 DEF Entries
<1>6. ASSUME NEW x \in Entries(r) PROVE x \in Entries(s)
  BY <1>1, <1>2, <1>3 DEF Entries
<1>7. ASSUME Distinct(s), NEW h \in 1 .. m, NEW k \in 1 .. m, r[h] = r[k] PROVE h = k
  <2>1. m - h + 1 \in DOMAIN s /\ m - k + 1 \in DOMAIN s
    BY <1>1, <1>2
  <2>2. s[m - h + 1] = s[m - k + 1]
    BY <1>3, <1>7, Zenon
  <2>3. m - h + 1 = m - k + 1
    BY ONLY <1>7, <2>1, <2>2, Zenon DEF Distinct
  <2> QED
    BY ONLY <2>3, m \in Nat, h \in Nat, k \in Nat
<1>8. Distinct(s) => Distinct(r)
  BY <1>3, <1>7 DEF Distinct
<1> QED
  BY <1>4, <1>5, <1>6, <1>8

\* A sequence is what is before a place and what is from there on.
LEMMA FirstPart ==
    ASSUME NEW S, NEW s \in Seq(S), NEW k \in Nat, k <= Len(s)
    PROVE  /\ SubSeq(s, 1, k) \in Seq(S)
           /\ Len(SubSeq(s, 1, k)) = k
           /\ \A h \in 1 .. k : SubSeq(s, 1, k)[h] = s[h]
  OBVIOUS

LEMMA LastPart ==
    ASSUME NEW S, NEW s \in Seq(S), NEW k \in 1 .. Len(s) + 1
    PROVE  /\ SubSeq(s, k, Len(s)) \in Seq(S)
           /\ Len(SubSeq(s, k, Len(s))) = Len(s) - k + 1
           /\ \A h \in 1 .. Len(s) - k + 1 : SubSeq(s, k, Len(s))[h] = s[k + h - 1]
<1>1. SubSeq(s, k, Len(s)) \in Seq(S)
  OBVIOUS
<1>2. Len(SubSeq(s, k, Len(s))) = Len(s) - k + 1
  OBVIOUS
<1>3. \A h \in 1 .. Len(s) - k + 1 : SubSeq(s, k, Len(s))[h] = s[k + h - 1]
  OBVIOUS
<1> QED
  BY <1>1, <1>2, <1>3

LEMMA TwoParts ==
    ASSUME NEW S, NEW s \in Seq(S), NEW k \in 1 .. Len(s) + 1
    PROVE  SubSeq(s, 1, k - 1) \o SubSeq(s, k, Len(s)) = s
<1> DEFINE A == SubSeq(s, 1, k - 1)
           B == SubSeq(s, k, Len(s))
<1>1. k - 1 \in Nat /\ k - 1 <= Len(s) /\ Len(s) \in Nat
  OBVIOUS
<1>2. A \in Seq(S) /\ Len(A) = k - 1 /\ \A h \in 1 .. k - 1 : A[h] = s[h]
  BY <1>1, FirstPart
<1>3. B \in Seq(S) /\ Len(B) = Len(s) - k + 1 /\ \A h \in 1 .. Len(s) - k + 1 : B[h] = s[k + h - 1]
  BY LastPart
<1> HIDE DEF A, B
<1>4. /\ A \o B \in Seq(S) /\ Len(A \o B) = Len(s)
      /\ \A h \in 1 .. k - 1 : (A \o B)[h] = A[h]
      /\ \A h \in 1 .. Len(s) - k + 1 : (A \o B)[(k - 1) + h] = B[h]
  BY <1>1, <1>2, <1>3, SMTT(30)
<1>5. ASSUME NEW h \in 1 .. Len(s) PROVE (A \o B)[h] = s[h]
  <2>1. CASE h \in 1 .. k - 1
    BY <1>2, <1>4, <2>1
  <2>2. CASE h \notin 1 .. k - 1
    <3>1. PICK x \in 1 .. Len(s) - k + 1 : h = (k - 1) + x /\ h = k + x - 1
      <4>1. h - k + 1 \in 1 .. Len(s) - k + 1 /\ h = (k - 1) + (h - k + 1)
        BY <1>1, <2>2
      <4> QED
        BY <4>1
    <3> QED
      BY <1>3, <1>4, <3>1, SMTT(30)
  <2> QED
    BY <2>1, <2>2
<1>6. PICK c : c = A \o B
  OBVIOUS
<1>7. c \in Seq(S) /\ Len(c) = Len(s) /\ \A h \in 1 .. Len(s) : c[h] = s[h]
  BY <1>4, <1>5, <1>6
<1>8. c = s
  BY <1>7
<1> QED
  BY <1>6, <1>8 DEF A, B

LEMMA InsertFacts ==
    ASSUME NEW S, NEW s \in Seq(S), NEW e \in S, NEW k \in 1 .. Len(s) + 1
    PROVE  /\ InsertAt(s, k, e) \in Seq(S)
           /\ Len(InsertAt(s, k, e)) = Len(s) + 1
           /\ Entries(InsertAt(s, k, e)) = Entries(s) \cup {e}
           /\ Distinct(s) /\ e \notin Entries(s) => Distinct(InsertAt(s, k, e))
<1> DEFINE A == SubSeq(s, 1, k - 1)
           B == SubSeq(s, k, Len(s))
           C == A \o <<e>>
<1>0. k - 1 \in Nat /\ k - 1 <= Len(s) /\ Len(s) \in Nat
  OBVIOUS
<1>1. A \in Seq(S) /\ B \in Seq(S) /\ Len(A) = k - 1 /\ Len(B) = Len(s) - k + 1 /\ A \o B = s
  BY <1>0, FirstPart, LastPart, TwoParts, ZenonT(60)
<1>2. InsertAt(s, k, e) = C \o B
  BY DEF InsertAt
<1> HIDE DEF A, B
<1>3. /\ Entries(s) = Entries(A) \cup Entries(B)
      /\ Distinct(s) => Distinct(A) /\ Distinct(B) /\ Entries(A) \cap Entries(B) = {}
  <2>1. /\ Entries(A \o B) = Entries(A) \cup Entries(B)
        /\ Distinct(A \o B) => Distinct(A) /\ Distinct(B) /\ Entries(A) \cap Entries(B) = {}
    <3>1. A \in Seq(S) /\ B \in Seq(S)
      BY <1>1
    <3> QED
      BY ONLY <3>1, ConcatFacts
  <2> QED
    BY <1>1, <2>1
<1>4. <<e>> \in Seq(S) /\ Len(<<e>>) = 1 /\ Entries(<<e>>) = {e} /\ Distinct(<<e>>)
  BY OneEntry
<1>5. /\ C \in Seq(S) /\ Len(C) = Len(A) + 1 /\ Entries(C) = Entries(A) \cup {e}
      /\ Distinct(C) <=> Distinct(A) /\ e \notin Entries(A)
  <2>1. /\ C \in Seq(S) /\ Len(C) = Len(A) + Len(<<e>>)
        /\ Entries(C) = Entries(A) \cup Entries(<<e>>)
        /\ Distinct(C) <=> /\ Distinct(A) /\ Distinct(<<e>>)
                           /\ Entries(A) \cap Entries(<<e>>) = {}
    BY <1>1, <1>4, ConcatFacts, ZenonT(60)
  <2> QED
    BY <1>4, <2>1
<1> HIDE DEF C
<1>6. /\ C \o B \in Seq(S) /\ Len(C \o B) = Len(C) + Len(B)
      /\ Entries(C \o B) = Entries(C) \cup Entries(B)
      /\ Distinct(C \o B) <=> /\ Distinct(C) /\ Distinct(B) /\ Entries(C) \cap Entries(B) = {}
  BY <1>1, <1>5, ConcatFacts
<1>7. Len(C) + Len(B) = Len(s) + 1
  BY <1>0, <1>1, <1>5
<1> QED
  BY <1>2, <1>3, <1>5, <1>6, <1>7

\* Sorting keeps the records.
Sorts(t, s, n) ==
    /\ t \in Seq(Nat) /\ Len(t) = n
    /\ Entries(t) = {s[k] : k \in 1 .. n}
    /\ Distinct(s) => Distinct(t)

Place(s, n) == Cardinality({k \in 1 .. n - 1 : s[k] <= s[n]}) + 1

LEMMA PlaceFacts ==
    ASSUME NEW s, NEW n \in Nat \ {0}
    PROVE  Place(s, n) \in 1 .. n
<1> DEFINE Before == {k \in 1 .. n - 1 : s[k] <= s[n]}
<1>1. n - 1 \in Nat
  OBVIOUS
<1>2. IsFiniteSet(1 .. n - 1) /\ Cardinality(1 .. n - 1) = n - 1
  BY ONLY <1>1, OneTo
<1>3. Before \subseteq 1 .. n - 1
  OBVIOUS
<1> HIDE DEF Before
<1>4. IsFiniteSet(Before) /\ Cardinality(Before) <= n - 1 /\ Cardinality(Before) \in Nat
  BY <1>2, <1>3, FS_Subset, FS_CardinalityType
<1>5. Place(s, n) = Cardinality(Before) + 1
  BY DEF Place, Before
<1> QED
  BY <1>4, <1>5

LEMMA SortStep ==
    ASSUME NEW s \in Seq(Nat), NEW n \in 1 .. Len(s), NEW t, Sorts(t, s, n - 1)
    PROVE  Sorts(InsertAt(t, Place(s, n), s[n]), s, n)
<1>1. s[n] \in Nat /\ DOMAIN s = 1 .. Len(s)
  OBVIOUS
<1>2. t \in Seq(Nat) /\ Len(t) = n - 1 /\ Entries(t) = {s[k] : k \in 1 .. n - 1}
  BY DEF Sorts
<1>3. Place(s, n) \in 1 .. Len(t) + 1
  BY <1>2, PlaceFacts
<1>4. {s[k] : k \in 1 .. n} = {s[k] : k \in 1 .. n - 1} \cup {s[n]}
  <2>1. 1 .. n = (1 .. n - 1) \cup {n}
    OBVIOUS
  <2> QED
    BY <2>1
<1>5. ASSUME Distinct(s) PROVE s[n] \notin Entries(t)
  <2>1. \A k \in 1 .. n - 1 : k \in DOMAIN s /\ k # n
    OBVIOUS
  <2> QED
    BY <1>1, <1>2, <1>5, <2>1 DEF Distinct
<1>6. /\ InsertAt(t, Place(s, n), s[n]) \in Seq(Nat)
      /\ Len(InsertAt(t, Place(s, n), s[n])) = Len(t) + 1
      /\ Entries(InsertAt(t, Place(s, n), s[n])) = Entries(t) \cup {s[n]}
      /\ Distinct(t) /\ s[n] \notin Entries(t) => Distinct(InsertAt(t, Place(s, n), s[n]))
  BY <1>1, <1>2, <1>3, InsertFacts
<1>u. PICK u : u = InsertAt(t, Place(s, n), s[n])
  OBVIOUS
<1>7. u \in Seq(Nat) /\ Len(u) = n /\ Entries(u) = {s[k] : k \in 1 .. n}
  <2>1. u \in Seq(Nat) /\ Len(u) = Len(t) + 1 /\ Entries(u) = Entries(t) \cup {s[n]}
    BY ONLY <1>6, <1>u
  <2>2. Len(t) = n - 1 /\ n \in Int
    BY <1>2
  <2>3. Len(u) = n
    BY ONLY <2>1, <2>2
  <2>4. Entries(u) = {s[k] : k \in 1 .. n}
    BY ONLY <1>2, <1>4, <2>1, Zenon
  <2> QED
    BY ONLY <2>1, <2>3, <2>4
<1>8. Distinct(s) => Distinct(u)
  <2>1. Distinct(s) => Distinct(t)
    BY DEF Sorts
  <2> QED
    BY ONLY <1>5, <1>6, <1>u, <2>1
<1> QED
  BY ONLY <1>u, <1>7, <1>8 DEF Sorts

\* A function that inserts one record after the other sorts them.
LEMMA SortsAll ==
    ASSUME NEW s \in Seq(Nat), NEW f, f[0] = <<>>,
           \A n \in 1 .. Len(s) : Sorts(f[n - 1], s, n - 1) =>
                                      f[n] = InsertAt(f[n - 1], Place(s, n), s[n])
    PROVE  \A n \in 0 .. Len(s) : Sorts(f[n], s, n)
<1> DEFINE T == {n \in 0 .. Len(s) : Sorts(f[n], s, n)}
           m == Len(s)
<1>1. 0 \in T
  <2>1. {s[k] : k \in 1 .. 0} = {} /\ 0 \in 0 .. m /\ <<>> \in Seq(Nat) /\ Len(<<>>) = 0
    OBVIOUS
  <2> QED
    BY <2>1, NoEntries DEF Sorts
<1>2. \A n \in 1 .. m : n - 1 \in T => n \in T
  BY SortStep
<1>3. m \in Nat
  OBVIOUS
<1> HIDE DEF T, m
<1>4. 0 .. m \subseteq T
  BY <1>1, <1>2, <1>3, Induction
<1> QED
  BY <1>4 DEF T, m

LEMMA PositionSorts ==
    ASSUME NEW s \in Seq(Nat)
    PROVE  Sorts(ByPosition(s), s, Len(s))
<1> DEFINE m == Len(s)
           S == Seq(Nat)
           c == <<>>
           step == [n \in 1 .. m |-> [t \in S |->
                       IF Len(t) = n - 1 THEN InsertAt(t, Place(s, n), s[n]) ELSE c]]
           Fits(f) == f = [n \in 0 .. m |->
                              IF n = 0 THEN <<>>
                              ELSE InsertAt(f[n - 1],
                                            Cardinality({k \in 1 .. n - 1 : s[k] <= s[n]}) + 1,
                                            s[n])]
<1>1. m \in Nat /\ c \in S
  OBVIOUS
<1>2. step \in [1 .. m -> [S -> S]]
  <2>1. ASSUME NEW n \in 1 .. m, NEW t \in S, Len(t) = n - 1
        PROVE  InsertAt(t, Place(s, n), s[n]) \in S
    <3>1. s[n] \in Nat /\ Place(s, n) \in 1 .. Len(t) + 1
      BY <2>1, PlaceFacts
    <3> QED
      BY <3>1, InsertFacts
  <2> QED
    BY <1>1, <2>1
<1>3. \A n \in 1 .. m : \A t \in S :
          Len(t) = n - 1 => step[n][t] = InsertAt(t, Place(s, n), s[n])
  OBVIOUS
<1>4. PICK g \in [0 .. m -> S] : Iterates(g, m, c, step)
  <2> HIDE DEF m, S, c, step
  <2> QED
    BY <1>1, <1>2, Recursion
<1>5. \A n \in 0 .. m : Sorts(g[n], s, n)
  <2>1. g[0] = <<>> /\ \A n \in 1 .. m : g[n] = step[n][g[n - 1]]
    BY <1>4 DEF Iterates
  <2>2. ASSUME NEW n \in 1 .. m, Sorts(g[n - 1], s, n - 1)
        PROVE  g[n] = InsertAt(g[n - 1], Place(s, n), s[n])
    <3>1. g[n - 1] \in S /\ Len(g[n - 1]) = n - 1
      BY <2>2 DEF Sorts
    <3> HIDE DEF step, S
    <3> QED
      BY <1>3, <2>1, <3>1
  <2> HIDE DEF step
  <2> QED
    BY <2>1, <2>2, SortsAll
<1>6. Fits(g)
  <2>1. g[0] = <<>> /\ \A n \in 1 .. m : g[n] = step[n][g[n - 1]]
    BY <1>4 DEF Iterates
  <2>2. ASSUME NEW n \in 1 .. m PROVE g[n] = InsertAt(g[n - 1], Place(s, n), s[n])
    <3>1. n - 1 \in 0 .. m
      OBVIOUS
    <3>2. g[n - 1] \in S /\ Len(g[n - 1]) = n - 1
      BY <1>5, <3>1 DEF Sorts
    <3> HIDE DEF step, S
    <3> QED
      BY <1>3, <2>1, <3>2
  <2>3. ASSUME NEW n \in 0 .. m
        PROVE  g[n] = IF n = 0 THEN <<>>
                      ELSE InsertAt(g[n - 1],
                                    Cardinality({k \in 1 .. n - 1 : s[k] <= s[n]}) + 1, s[n])
    <3>1. CASE n = 0
      BY <2>1, <3>1
    <3>2. CASE n # 0
      <4>1. n \in 1 .. m
        BY <3>2
      <4> QED
        BY <2>2, <3>2, <4>1 DEF Place
    <3> QED
      BY <3>1, <3>2
  <2> HIDE DEF m
  <2>4. g = [n \in 0 .. m |-> g[n]]
    OBVIOUS
  <2>5. [n \in 0 .. m |-> g[n]] =
        [n \in 0 .. m |-> IF n = 0 THEN <<>>
                      ELSE InsertAt(g[n - 1],
                                    Cardinality({k \in 1 .. n - 1 : s[k] <= s[n]}) + 1, s[n])]
    BY <2>3
  <2> QED
    BY <2>4, <2>5
<1>7. Fits(CHOOSE f : Fits(f))
  <2> HIDE DEF Fits
  <2> QED
    BY <1>6
<1>8. PICK f : f = CHOOSE h : Fits(h)
  OBVIOUS
<1>9. Fits(f) /\ ByPosition(s) = f[m]
  BY <1>7, <1>8 DEF ByPosition
<1>10. f[0] = <<>> /\ \A n \in 1 .. m : f[n] = InsertAt(f[n - 1], Place(s, n), s[n])
  <2>1. ASSUME NEW h, Fits(h)
        PROVE  h[0] = <<>> /\ \A n \in 1 .. m : h[n] = InsertAt(h[n - 1], Place(s, n), s[n])
    <3>1. 0 \in 0 .. m /\ \A n \in 1 .. m : n \in 0 .. m /\ n # 0
      OBVIOUS
    <3>2. \A n \in 0 .. m : h[n] = IF n = 0 THEN <<>>
                      ELSE InsertAt(h[n - 1],
                                    Cardinality({k \in 1 .. n - 1 : s[k] <= s[n]}) + 1, s[n])
      BY <2>1
    <3> HIDE DEF Fits
    <3> QED
      BY <3>1, <3>2 DEF Place
  <2> HIDE DEF Fits
  <2> QED
    BY <1>9, <2>1
<1>11. \A n \in 0 .. m : Sorts(f[n], s, n)
  <2> HIDE DEF Fits
  <2> QED
    BY <1>10, SortsAll
<1>12. m \in 0 .. m
  BY <1>1
<1> HIDE DEF m, Fits
<1>13. Sorts(ByPosition(s), s, m)
  BY <1>9, <1>11, <1>12
<1> QED
  BY <1>13 DEF m

LEMMA PositionFacts ==
    ASSUME NEW s \in Seq(Nat)
    PROVE  /\ ByPosition(s) \in Seq(Nat) /\ Len(ByPosition(s)) = Len(s)
           /\ Entries(ByPosition(s)) = Entries(s)
           /\ Distinct(s) => Distinct(ByPosition(s))
<1>1. Entries(s) = {s[k] : k \in 1 .. Len(s)}
  BY DEF Entries
<1> QED
  BY <1>1, PositionSorts DEF Sorts
-----------------------------------------------------------------------------
(* What adding records makes of the buffers of a leaf.                     *)

\* Positions, and what is read of a file that has been torn.
Records == Nat
BufferType == [Modes -> [records : Seq(Records), max : Nat]]

\* A buffer that has not grown.
Fresh(b) == b.max \in {0, InitialBufferSize}

LEMMA NewBufferType ==
    /\ NewBuffer \in BufferType
    /\ \A m \in Modes : NewBuffer[m].records = <<>> /\ Fresh(NewBuffer[m])
  BY DEF NewBuffer, BufferType, Fresh

LEMMA ClearFacts ==
    ASSUME NEW buffer \in BufferType
    PROVE  /\ ClearNodeBuffer(buffer) \in BufferType
           /\ \A m \in Modes : /\ ClearNodeBuffer(buffer)[m].records = <<>>
                               /\ ClearNodeBuffer(buffer)[m].max = buffer[m].max
<1>1. ASSUME NEW m \in Modes
      PROVE  /\ [buffer[m] EXCEPT !.records = <<>>] \in [records : Seq(Records), max : Nat]
             /\ [buffer[m] EXCEPT !.records = <<>>].records = <<>>
             /\ [buffer[m] EXCEPT !.records = <<>>].max = buffer[m].max
  <2>1. buffer[m] \in [records : Seq(Records), max : Nat] /\ <<>> \in Seq(Records)
    BY DEF BufferType
  <2> QED
    BY <2>1
<1> QED
  BY <1>1 DEF ClearNodeBuffer, BufferType

LEMMA FlushedFacts ==
    ASSUME NEW buffer \in BufferType
    PROVE  FlushedFull(buffer) \in Seq(Records) /\ FlushedPartial(buffer) \in Seq(Records)
  BY DEF FlushedFull, FlushedPartial, BufferType, Modes

\* One record more: no buffer is lost, and none that has room grows.
LEMMA AddOne ==
    ASSUME NEW buffer \in BufferType, NEW r \in Records, NEW mode \in Modes,
           mode = TmpPartial => /\ Fresh(buffer[mode])
                                /\ Len(buffer[mode].records) < InitialBufferSize
    PROVE  LET b == AddToNodeBuffer(buffer, r, mode) IN
           /\ b \in BufferType
           /\ b[mode].records = Append(buffer[mode].records, r)
           /\ \A m \in Modes : m # mode => b[m] = buffer[m]
           /\ Fresh(buffer[mode]) /\ Len(buffer[mode].records) < InitialBufferSize => Fresh(b[mode])
<1> DEFINE wrong == mode = TmpPartial /\ Grown(buffer[mode]) > buffer[mode].max
                                      /\ buffer[mode].max > 0
           b == [buffer EXCEPT ![mode] = [records |-> Append(@.records, r), max |-> Grown(@)]]
<1>1. /\ InitialBufferSize \in Nat \ {0}
      /\ buffer[mode] \in [records : Seq(Records), max : Nat]
  BY InitialBufferSizeAssumption DEF BufferType
<1>2. Len(buffer[mode].records) \in Nat /\ buffer[mode].records \in Seq(Records) /\ buffer[mode].max \in Nat
  BY <1>1
<1>3. Grown(buffer[mode]) \in Nat
  BY <1>1, <1>2 DEF Grown
<1>4. ASSUME Fresh(buffer[mode]), Len(buffer[mode].records) < InitialBufferSize
      PROVE  Grown(buffer[mode]) = InitialBufferSize
  BY <1>1, <1>2, <1>4 DEF Grown, Fresh
<1>5. ~wrong
  BY <1>1, <1>2, <1>4 DEF Fresh
<1>6. AddToNodeBuffer(buffer, r, mode) = b
  BY <1>5 DEF AddToNodeBuffer
<1>7. /\ b[mode] = [records |-> Append(buffer[mode].records, r), max |-> Grown(buffer[mode])]
      /\ \A m \in Modes : m # mode => b[m] = buffer[m]
  BY DEF BufferType
<1>8. Append(buffer[mode].records, r) \in Seq(Records)
  BY <1>2
<1>9. b \in BufferType
  BY <1>3, <1>8 DEF BufferType
<1> HIDE DEF b
<1> QED
  BY <1>4, <1>6, <1>7, <1>9 DEF Fresh

\* The first n records of a sequence have come into an empty buffer, and the
\* other buffers are as they were.
Gathered(b, buffer, s, mode, n) ==
    /\ b \in BufferType
    /\ \A m \in Modes : m # mode => b[m] = buffer[m]
    /\ buffer[mode].records = <<>> =>
           /\ Len(b[mode].records) = n
           /\ \A k \in 1 .. n : b[mode].records[k] = s[k]
           /\ Fresh(buffer[mode]) /\ Len(s) <= InitialBufferSize => Fresh(b[mode])

LEMMA GatherStep ==
    ASSUME NEW buffer \in BufferType, NEW s \in Seq(Records), NEW mode \in {Full, TmpFull},
           NEW n \in 1 .. Len(s), NEW b, Gathered(b, buffer, s, mode, n - 1)
    PROVE  Gathered(AddToNodeBuffer(b, s[n], mode), buffer, s, mode, n)
<1>1. s[n] \in Records /\ mode \in Modes /\ mode # TmpPartial /\ b \in BufferType
  BY DEF Gathered, Modes, Full, TmpFull, TmpPartial
<1> PICK c : c = AddToNodeBuffer(b, s[n], mode)
  OBVIOUS
<1>2. /\ c \in BufferType
      /\ c[mode].records = Append(b[mode].records, s[n])
      /\ \A m \in Modes : m # mode => c[m] = b[m]
      /\ Fresh(b[mode]) /\ Len(b[mode].records) < InitialBufferSize => Fresh(c[mode])
  BY <1>1, AddOne
<1>3. \A m \in Modes : m # mode => c[m] = buffer[m]
  BY <1>2 DEF Gathered
<1>4. ASSUME buffer[mode].records = <<>>
      PROVE  /\ Len(c[mode].records) = n
             /\ \A k \in 1 .. n : c[mode].records[k] = s[k]
             /\ Fresh(buffer[mode]) /\ Len(s) <= InitialBufferSize => Fresh(c[mode])
  <2>1. /\ Len(b[mode].records) = n - 1
        /\ \A k \in 1 .. n - 1 : b[mode].records[k] = s[k]
        /\ Fresh(buffer[mode]) /\ Len(s) <= InitialBufferSize => Fresh(b[mode])
    BY <1>4 DEF Gathered
  <2>2. b[mode].records \in Seq(Records)
    BY <1>1 DEF BufferType
  <2>3. Len(s) <= InitialBufferSize => n - 1 < InitialBufferSize
    BY InitialBufferSizeAssumption
  <2>4. Len(c[mode].records) = n /\ \A k \in 1 .. n : c[mode].records[k] = s[k]
    BY <1>1, <1>2, <2>1, <2>2
  <2> QED
    BY <1>2, <2>1, <2>3, <2>4
<1> QED
  BY <1>2, <1>3, <1>4 DEF Gathered

LEMMA GatherAll ==
    ASSUME NEW buffer \in BufferType, NEW s \in Seq(Records), NEW mode \in {Full, TmpFull},
           NEW f, f[0] = buffer,
           \A n \in 1 .. Len(s) : f[n - 1] \in BufferType => f[n] = AddToNodeBuffer(f[n - 1], s[n], mode)
    PROVE  \A n \in 0 .. Len(s) : Gathered(f[n], buffer, s, mode, n)
<1> DEFINE T == {n \in 0 .. Len(s) : Gathered(f[n], buffer, s, mode, n)}
           m == Len(s)
<1>1. 0 \in T
  <2>1. 0 \in 0 .. m /\ Len(<<>>) = 0
    OBVIOUS
  <2>2. Gathered(buffer, buffer, s, mode, 0)
    BY <2>1 DEF Gathered
  <2> QED
    BY <2>1, <2>2
<1>2. \A n \in 1 .. m : n - 1 \in T => n \in T
  <2> SUFFICES ASSUME NEW n \in 1 .. m, n - 1 \in T PROVE n \in T
    OBVIOUS
  <2>1. Gathered(f[n - 1], buffer, s, mode, n - 1)
    OBVIOUS
  <2>2. f[n] = AddToNodeBuffer(f[n - 1], s[n], mode)
    BY <2>1 DEF Gathered
  <2> QED
    BY <2>1, <2>2, GatherStep
<1>3. m \in Nat
  OBVIOUS
<1> HIDE DEF T, m
<1>4. 0 .. m \subseteq T
  BY <1>1, <1>2, <1>3, Induction
<1> QED
  BY <1>4 DEF T, m

LEMMA AllGathered ==
    ASSUME NEW buffer \in BufferType, NEW s \in Seq(Records), NEW mode \in {Full, TmpFull}
    PROVE  /\ Gathered(AddAll(buffer, s, mode), buffer, s, mode, Len(s))
           /\ s = <<>> => AddAll(buffer, s, mode) = buffer
<1> DEFINE m == Len(s)
           S == BufferType
           c == buffer
           step == [n \in 1 .. m |-> [b \in S |-> AddToNodeBuffer(b, s[n], mode)]]
           Fits(f) == f = [n \in 0 .. m |->
                              IF n = 0 THEN buffer ELSE AddToNodeBuffer(f[n - 1], s[n], mode)]
<1>1. m \in Nat /\ c \in S
  OBVIOUS
<1>2. step \in [1 .. m -> [S -> S]]
  <2>1. ASSUME NEW n \in 1 .. m, NEW b \in S PROVE AddToNodeBuffer(b, s[n], mode) \in S
    <3>1. s[n] \in Records /\ mode \in Modes /\ mode # TmpPartial
      BY DEF Modes, Full, TmpFull, TmpPartial
    <3> QED
      BY <3>1, AddOne
  <2> HIDE DEF S
  <2> QED
    BY <2>1
<1>3. \A n \in 1 .. m : \A b \in S : step[n][b] = AddToNodeBuffer(b, s[n], mode)
  <2> HIDE DEF S
  <2> QED
    OBVIOUS
<1>4. PICK g \in [0 .. m -> S] : Iterates(g, m, c, step)
  <2> HIDE DEF m, S, c, step
  <2> QED
    BY <1>1, <1>2, Recursion
<1>5. g[0] = buffer /\ \A n \in 1 .. m : g[n] = AddToNodeBuffer(g[n - 1], s[n], mode)
  <2>1. g[0] = c /\ \A n \in 1 .. m : g[n] = step[n][g[n - 1]]
    BY <1>4 DEF Iterates
  <2>2. \A n \in 1 .. m : g[n - 1] \in S
    <3> HIDE DEF S
    <3>1. \A n \in 1 .. m : n - 1 \in 0 .. m
      OBVIOUS
    <3> QED
      BY <3>1
  <2> HIDE DEF step, S
  <2> QED
    BY <1>3, <2>1, <2>2
<1>6. Fits(g)
  <2> HIDE DEF m, S
  <2>1. \A n \in 0 .. m : n # 0 => n \in 1 .. m
    BY <1>1
  <2>2. g = [n \in 0 .. m |-> g[n]]
    OBVIOUS
  <2>3. [n \in 0 .. m |-> g[n]] =
        [n \in 0 .. m |-> IF n = 0 THEN buffer ELSE AddToNodeBuffer(g[n - 1], s[n], mode)]
    BY <1>5, <2>1
  <2> QED
    BY <2>2, <2>3
<1>7. Fits(CHOOSE f : Fits(f))
  <2> HIDE DEF Fits
  <2> QED
    BY <1>6
<1>8. PICK f : f = CHOOSE h : Fits(h)
  OBVIOUS
<1>9. Fits(f) /\ AddAll(buffer, s, mode) = f[m]
  BY <1>7, <1>8 DEF AddAll
<1>10. f[0] = buffer /\ \A n \in 1 .. m : f[n] = AddToNodeBuffer(f[n - 1], s[n], mode)
  <2>1. ASSUME NEW h, Fits(h)
        PROVE  h[0] = buffer /\ \A n \in 1 .. m : h[n] = AddToNodeBuffer(h[n - 1], s[n], mode)
    <3>1. 0 \in 0 .. m /\ \A n \in 1 .. m : n \in 0 .. m /\ n # 0
      OBVIOUS
    <3>2. \A n \in 0 .. m : h[n] = IF n = 0 THEN buffer ELSE AddToNodeBuffer(h[n - 1], s[n], mode)
      BY <2>1
    <3> HIDE DEF Fits
    <3> QED
      BY <3>1, <3>2
  <2> HIDE DEF Fits
  <2> QED
    BY <1>9, <2>1
<1>11. \A n \in 0 .. m : Gathered(f[n], buffer, s, mode, n)
  <2> HIDE DEF Fits
  <2> QED
    BY <1>10, GatherAll
<1>12. s = <<>> => m = 0
  OBVIOUS
<1> HIDE DEF Fits, m
<1> QED
  BY <1>1, <1>9, <1>10, <1>11, <1>12 DEF m
-----------------------------------------------------------------------------
(* Paths.                                                                  *)

Paths == Seq(Masks \cup {0, 1})
Pre(p, d) == SubSeq(p, 1, d)

LEMMA PrefixFacts ==
    ASSUME NEW p \in Paths, NEW d \in 0 .. Len(p)
    PROVE  /\ Pre(p, d) \in Paths
           /\ Len(Pre(p, d)) = d
           /\ \A j \in 1 .. d : Pre(p, d)[j] = p[j]
           /\ \A e \in 0 .. d : Pre(Pre(p, d), e) = Pre(p, e)
           /\ Pre(p, Len(p)) = p
<1>1. Pre(p, d) \in Paths /\ Len(Pre(p, d)) = d /\ \A j \in 1 .. d : Pre(p, d)[j] = p[j]
  BY DEF Paths, Pre
<1>2. ASSUME NEW e \in 0 .. d PROVE Pre(Pre(p, d), e) = Pre(p, e)
  BY <1>1 DEF Paths, Pre
<1>3. Pre(p, Len(p)) = p
  BY DEF Paths, Pre
<1> QED
  BY <1>1, <1>2, <1>3

LEMMA ChildFacts ==
    ASSUME NEW p \in Paths, NEW x \in {0, 1}
    PROVE  LET c == Append(p, x) IN
           /\ c \in Paths
           /\ Len(c) = Len(p) + 1
           /\ c[Len(p) + 1] = x
           /\ \A j \in 1 .. Len(p) : c[j] = p[j]
           /\ \A d \in 0 .. Len(p) : Pre(c, d) = Pre(p, d)
           /\ Pre(c, Len(p)) = p
           /\ Parent(c) = p
<1> DEFINE c == Append(p, x)
<1>1. c \in Paths /\ Len(c) = Len(p) + 1 /\ c[Len(p) + 1] = x /\ \A j \in 1 .. Len(p) : c[j] = p[j]
  BY DEF Paths
<1>2. \A d \in 0 .. Len(p) : Pre(c, d) = Pre(p, d)
  BY <1>1 DEF Paths, Pre
<1>3. Pre(c, Len(p)) = p
  BY <1>1, <1>2, PrefixFacts DEF Paths, Pre
<1>4. Parent(c) = p
  BY <1>1, <1>3 DEF Parent, Front, Pre, Paths
<1> QED
  BY <1>1, <1>2, <1>3, <1>4
-----------------------------------------------------------------------------
(* The inductive invariant. First the types, and the tree.                 *)

BoxTypes == {NoBox} \cup [Segments -> Seq({0, 1})]
NodeType == [is_leaf : BOOLEAN, leaf_size : Nat, buffer : BufferType, box : BoxTypes,
             has_full : BOOLEAN, has_partial : BOOLEAN, has_parent : BOOLEAN,
             split_mask : [Segments -> 0 .. Bits - 1], splitpoint : Segments \cup {0}]
SoftType == [initialized : BOOLEAN, records : Seq(Records), max : Nat]
CallType == [record : Records, mode : {Partial, TmpPartial}, from : Paths, again : BOOLEAN]

Types == /\ words \in Seq(Words) /\ hard \in Seq(Records)
         /\ fbl \in [Masks -> SoftType]
         /\ tree \in [Nodes -> NodeType]
         /\ files \in [DOMAIN files -> Seq(Records)]
         /\ adding \in Seq(CallType)
         /\ at \in [j : 0 .. Len(MasksInOrder) + 1, i : Nat]
         /\ phase \in {"build", "query"}

\* What is above a node is an inner node, and an inner node has two children.
Shape == /\ \A p \in Nodes : /\ p \in Paths /\ p # <<>> /\ p[1] \in Masks
                             /\ fbl[p[1]].initialized
                             /\ \A d \in 1 .. Len(p) - 1 : Pre(p, d) \in Nodes \ Leaves
         /\ \A p \in Nodes \ Leaves : /\ Append(p, 0) \in Nodes /\ Append(p, 1) \in Nodes
                                      /\ tree[p].splitpoint \in Segments

\* The child of q a record goes to, and the nodes it passes through.
Turn(q, sax) == Branch(sax, tree[q].split_mask, tree[q].splitpoint)
OnRoute(p, sax) == /\ p[1] = MaskOf(sax)
                   /\ \A d \in 1 .. Len(p) - 1 : p[d + 1] = Turn(Pre(p, d), sax)

\* A node is above a leaf or their paths part; each encoding whose root is
\* there has a leaf.
Part(p, q, d) == d < Len(p) /\ d < Len(q) /\ Pre(p, d) = Pre(q, d) /\ p[d + 1] # q[d + 1]
Above(q, p) == Len(q) <= Len(p) /\ q = Pre(p, Len(q))
Routes == /\ \A p \in Leaves : \A q \in Nodes : Above(q, p) \/ \E d \in Nat : Part(p, q, d)
          /\ \A sax \in Words : fbl[MaskOf(sax)].initialized => \E p \in Leaves : OnRoute(p, sax)
          /\ \A r \in DOMAIN words : fbl[MaskOf(words[r])].initialized

\* Split masks grow along a path; the encodings on the route to a node agree
\* in all bits that were split on above it, and its box is that of one of them.
SplitBits == \A p \in Nodes :
             /\ \A d \in 1 .. Len(p) - 1 : \A s \in Segments :
                    tree[Pre(p, d)].split_mask[s] <= InheritedMask(p)[s]
             /\ \A v, w \in Words : OnRoute(p, v) /\ OnRoute(p, w) =>
                    \A s \in Segments : \A b \in 1 .. InheritedMask(p)[s] + 1 : v[s][b] = w[s][b]
Boxed == \A p \in Nodes : tree[p].box # NoBox =>
             \E w \in Words : OnRoute(p, w) /\ tree[p].box = Box(w, InheritedMask(p))

Statics == Types /\ Shape /\ Routes /\ SplitBits /\ Boxed

PartOf(n) == File(n.box, Partial)
FullOf(n) == File(n.box, Full)

\* Building. The soft buffers hold records of their masks that are in the hard
\* buffer; flush_fbl has given the first i records of soft buffer j away.
Given(r) == at.j \in DOMAIN MasksInOrder /\ \E n \in 1 .. at.i : InBuffer[n] = r
Awaiting(r) == (\E m \in Masks : r \in Entries(fbl[m].records)) /\ ~Given(r)
RecordsOf(calls_) == [n \in DOMAIN calls_ |-> calls_[n].record]
Hand == RecordsOf(adding)

Soft == /\ \A m \in Masks :
              /\ Distinct(fbl[m].records)
              /\ fbl[m].records # <<>> => fbl[m].initialized
              /\ \A r \in Entries(fbl[m].records) :
                     r \in DOMAIN words /\ MaskOf(words[r]) = m /\ r \in Entries(hard)
        /\ Entries(hard) \subseteq DOMAIN words

Loop == /\ at.j \notin DOMAIN MasksInOrder => at.i = 0 /\ adding = <<>>
        /\ at.j \in DOMAIN MasksInOrder => at.i <= Len(InBuffer)
        /\ adding # <<>> => at.i # 0
        /\ \A k \in DOMAIN MasksInOrder : k < at.j => fbl[MasksInOrder[k]].records = <<>>

\* A call that is still to be made adds a record nobody else has, at a node it
\* passes through.
GoodCall(c) == /\ c.record \in DOMAIN words /\ MaskOf(words[c.record]) = Current
               /\ c.from \in Nodes /\ OnRoute(c.from, words[c.record])
               /\ c.mode = Partial => Given(c.record)
               /\ ~Awaiting(c.record)
Calls == Distinct(Hand) /\ \A c \in Entries(adding) : GoodCall(c)

\* The records of a leaf are in its partial buffers and its .part file; the
\* buffers are empty where flush_fbl has not come to or has gone from.
HeldBy(n) == FlushedPartial(n.buffer) \o PartialFile(n)
NoGrowth(n) == \A m \in Modes : Fresh(n.buffer[m])
LeafBuild(p) ==
    LET n == tree[p] IN
    /\ n.buffer[Full].records = <<>> /\ n.buffer[TmpFull].records = <<>> /\ ~n.has_full
    /\ n.leaf_size = Len(HeldBy(n)) /\ n.leaf_size <= MaxLeafSize
    /\ n.leaf_size = 0 <=> n.box = NoBox
    /\ n.has_partial <=> n.box # NoBox /\ PartOf(n) \in DOMAIN files
    /\ NoGrowth(n)
    /\ FlushedPartial(n.buffer) # <<>> => /\ at.j \in DOMAIN MasksInOrder /\ at.i # 0
                                          /\ p[1] = Current
    /\ \A r \in Entries(n.buffer[Partial].records) : Given(r)
    /\ Distinct(HeldBy(n))
    /\ \A r \in Entries(HeldBy(n)) : /\ r \in DOMAIN words /\ OnRoute(p, words[r])
                                     /\ ~Awaiting(r) /\ r \notin Entries(Hand)
\* Every file is that of a leaf, and every record is somewhere.
Owned == \A f \in DOMAIN files : \E p \in Leaves : tree[p].box # NoBox /\ f = PartOf(tree[p])
Kept == \A r \in DOMAIN words :
           Awaiting(r) \/ r \in Entries(Hand) \/ \E p \in Leaves : r \in Entries(HeldBy(tree[p]))

Building == /\ loading = <<>> /\ index_idx = NotWritten /\ ~stale /\ torn = {}
            /\ Soft /\ Loop /\ Calls /\ (\A p \in Leaves : LeafBuild(p)) /\ Owned /\ Kept

\* Querying. All the records of a leaf, each once.
Mine(p) == {r \in DOMAIN words : OnRoute(p, words[r])}
Whole(s, n, all) == Distinct(s) /\ Len(s) = n.leaf_size /\ Entries(s) = all

\* What a .full file with the records s holds of the set all; behind a record
\* that has been cut nothing can be read.
Partly(s, all, cut) == Entries(s) \subseteq (IF cut THEN all \cup {Garbage} ELSE all)

\* A leaf n whose records are the set all, with the files fs: whatever file it
\* has is whole, and the flag of one of them is set, or all records have been
\* loaded, or there is none. After a crash the .full file may hold some of them
\* twice, and may hold only some of them until the leaf is flushed again; when
\* it is one of the torn files tn, even then.
Complete(n, fs, all, st, tn) ==
    LET loaded == n.buffer[TmpFull].records IN
    /\ NoGrowth(n)
    /\ \A m \in Modes \ {TmpFull} : n.buffer[m].records = <<>>
    /\ n.leaf_size <= MaxLeafSize
    /\ n.box = NoBox => ~n.has_partial /\ ~n.has_full /\ loaded = <<>>
    /\ n.box # NoBox /\ PartOf(n) \in DOMAIN fs => Whole(fs[PartOf(n)], n, all)
    /\ n.box # NoBox /\ FullOf(n) \in tn => st
    /\ n.box # NoBox /\ FullOf(n) \in DOMAIN fs =>
          /\ Partly(fs[FullOf(n)], all, FullOf(n) \in tn)
          /\ n.has_full /\ FullOf(n) \notin tn => all \subseteq Entries(fs[FullOf(n)])
          /\ ~st => Whole(fs[FullOf(n)], n, all) /\ n.has_full
    /\ loaded # <<>> => Whole(loaded, n, all) /\ ~n.has_partial /\ ~n.has_full
    /\ n.has_partial => PartOf(n) \in DOMAIN fs /\ ~n.has_full
    /\ n.has_full => FullOf(n) \in DOMAIN fs
    /\ ~n.has_partial /\ ~n.has_full /\ loaded = <<>> => n.leaf_size = 0 /\ all = {}

\* What index.idx says of a leaf: the flags of a file that is there.
LeafWritten(w, n, fs, all) ==
    /\ w = [is_leaf |-> TRUE, box |-> n.box, leaf_size |-> n.leaf_size,
            has_full |-> w.has_full, has_partial |-> w.has_partial]
    /\ w.has_full \in BOOLEAN /\ w.has_partial \in BOOLEAN
    /\ w.has_full \/ w.has_partial => n.box # NoBox
    /\ w.has_partial => PartOf(n) \in DOMAIN fs /\ ~w.has_full
    /\ w.has_full => FullOf(n) \in DOMAIN fs /\ n.has_full
    /\ ~w.has_partial /\ ~w.has_full => n.leaf_size = 0 /\ all = {}
InnerWritten(w, n) == w = [is_leaf |-> FALSE, box |-> n.box,
                           splitpoint |-> n.splitpoint, split_mask |-> n.split_mask]
WrittenInv ==
    index_idx # NotWritten =>
       /\ DOMAIN index_idx = Nodes
       /\ \A p \in Leaves : LeafWritten(index_idx[p], tree[p], files, Mine(p))
       /\ \A p \in Nodes \ Leaves : InnerWritten(index_idx[p], tree[p])

Querying == /\ hard = <<>> /\ adding = <<>> /\ at = NotFlushing
            /\ \A m \in Masks : fbl[m].records = <<>>
            /\ \A p \in Leaves : Complete(tree[p], files, Mine(p), stale, torn)
            /\ WrittenInv

Main == Statics /\ (phase = "build" => Building) /\ (phase = "query" => Querying)

\* Once split_node has given up, nothing happens any more.
GivenUp == TypeOK /\ HardBufferHeld /\ phase = "build" /\ index_idx = NotWritten /\ loading = <<>>

DiskInv == exited \in BOOLEAN /\ IF exited THEN GivenUp ELSE Main
-----------------------------------------------------------------------------
(* The routes of encodings.                                                *)

LEMMA NodeFacts ==
    ASSUME Shape, NEW p \in Nodes
    PROVE  /\ p \in Paths /\ Len(p) \in Nat \ {0} /\ p[1] \in Masks /\ fbl[p[1]].initialized
           /\ \A d \in 1 .. Len(p) - 1 : Pre(p, d) \in Nodes \ Leaves
<1>1. /\ p \in Paths /\ p # <<>> /\ p[1] \in Masks /\ fbl[p[1]].initialized
      /\ \A d \in 1 .. Len(p) - 1 : Pre(p, d) \in Nodes \ Leaves
  BY DEF Shape
<1>2. Len(p) \in Nat \ {0}
  BY <1>1 DEF Paths
<1> QED
  BY <1>1, <1>2

LEMMA LeafIsNode == Leaves \subseteq Nodes
  BY DEF Leaves

\* A node an encoding passes through is above its leaf.
LEMMA RouteAbove ==
    ASSUME Shape, Routes, NEW sax, NEW p \in Leaves, NEW q \in Nodes,
           OnRoute(p, sax), OnRoute(q, sax)
    PROVE  Above(q, p)
<1> SUFFICES ASSUME NEW d \in Nat, Part(p, q, d) PROVE FALSE
  BY DEF Routes
<1>1. p[d + 1] # q[d + 1] /\ Pre(p, d) = Pre(q, d) /\ d < Len(p) /\ d < Len(q)
  BY DEF Part
<1>2. Len(p) \in Nat /\ Len(q) \in Nat
  BY NodeFacts, LeafIsNode
<1>3. CASE d = 0
  BY <1>1, <1>3 DEF OnRoute
<1>4. CASE d # 0
  <2>1. d \in 1 .. Len(p) - 1 /\ d \in 1 .. Len(q) - 1
    BY <1>1, <1>2, <1>4
  <2> QED
    BY <1>1, <2>1 DEF OnRoute
<1> QED
  BY <1>3, <1>4

LEMMA AboveFacts ==
    ASSUME Shape, NEW p \in Leaves, NEW q \in Nodes, Above(q, p)
    PROVE  q = p \/ q \notin Leaves
<1>1. p \in Paths /\ Len(p) \in Nat /\ Len(q) \in Nat \ {0}
  BY NodeFacts, LeafIsNode
<1>2. CASE Len(q) = Len(p)
  BY <1>1, <1>2, PrefixFacts DEF Above
<1>3. CASE Len(q) # Len(p)
  <2>1. Len(q) \in 1 .. Len(p) - 1
    BY <1>1, <1>3 DEF Above
  <2> QED
    BY <2>1, NodeFacts, LeafIsNode DEF Above
<1> QED
  BY <1>2, <1>3

LEMMA OneLeaf ==
    ASSUME Shape, Routes, NEW sax, NEW p \in Leaves, NEW q \in Leaves,
           OnRoute(p, sax), OnRoute(q, sax)
    PROVE  p = q
  BY RouteAbove, AboveFacts, LeafIsNode

LEMMA LeafForFacts ==
    ASSUME Shape, Routes, NEW sax \in Words, NEW from \in Nodes, OnRoute(from, sax)
    PROVE  LeafFor(from, sax) \in Leaves /\ OnRoute(LeafFor(from, sax), sax)
<1> DEFINE Ends(p) == /\ Below(from, p)
                      /\ \A d \in Len(from) + 1 .. Len(p) :
                             p[d] = Branch(sax, tree[SubSeq(p, 1, d - 1)].split_mask,
                                                tree[SubSeq(p, 1, d - 1)].splitpoint)
<1>1. LeafFor(from, sax) = CHOOSE p \in Leaves : Ends(p)
  BY DEF LeafFor
<1>2. from \in Paths /\ Len(from) \in Nat \ {0} /\ fbl[from[1]].initialized /\ from[1] = MaskOf(sax)
  BY NodeFacts DEF OnRoute
<1>3. PICK q \in Leaves : OnRoute(q, sax)
  BY <1>2 DEF Routes
<1>4. q \in Paths /\ Len(q) \in Nat \ {0}
  BY NodeFacts, LeafIsNode
<1>5. Ends(q)
  <2>1. Below(from, q)
    BY <1>2, <1>3, <1>4, RouteAbove, PrefixFacts DEF Above, Below, IsPrefix, Pre
  <2>2. ASSUME NEW d \in Len(from) + 1 .. Len(q)
        PROVE  q[d] = Branch(sax, tree[SubSeq(q, 1, d - 1)].split_mask,
                                  tree[SubSeq(q, 1, d - 1)].splitpoint)
    <3>1. d - 1 \in 1 .. Len(q) - 1 /\ (d - 1) + 1 = d
      BY <1>2, <1>4
    <3>2. q[(d - 1) + 1] = Turn(Pre(q, d - 1), sax)
      BY <1>3, <3>1 DEF OnRoute
    <3> QED
      BY <3>1, <3>2 DEF Turn, Pre
  <2> QED
    BY <2>1, <2>2
<1>6. PICK p : p = LeafFor(from, sax)
  OBVIOUS
<1>7. p \in Leaves /\ Ends(p)
  BY <1>1, <1>5, <1>6
<1>8. p \in Paths /\ Len(p) \in Nat \ {0}
  BY <1>7, NodeFacts, LeafIsNode
<1>9. Len(from) <= Len(p) /\ from = Pre(p, Len(from))
  BY <1>2, <1>7, PrefixFacts DEF Below, IsPrefix, Pre
<1>10. OnRoute(p, sax)
  <2>1. p[1] = MaskOf(sax)
    <3>1. 1 \in 1 .. Len(from) /\ Len(from) \in 0 .. Len(p)
      BY <1>2, <1>8, <1>9
    <3> QED
      BY <1>2, <1>8, <1>9, <3>1, PrefixFacts
  <2>2. ASSUME NEW d \in 1 .. Len(p) - 1 PROVE p[d + 1] = Turn(Pre(p, d), sax)
    <3>1. CASE d < Len(from)
      <4>1. d \in 1 .. Len(from) - 1 /\ d + 1 \in 1 .. Len(from) /\ d \in 0 .. Len(from)
            /\ Len(from) \in 0 .. Len(p)
        BY <1>2, <1>8, <1>9, <3>1
      <4>2. from[d + 1] = Turn(Pre(from, d), sax)
        BY <4>1 DEF OnRoute
      <4>3. from[d + 1] = p[d + 1] /\ Pre(from, d) = Pre(p, d)
        BY <1>8, <1>9, <4>1, PrefixFacts
      <4> QED
        BY <4>2, <4>3
    <3>2. CASE ~(d < Len(from))
      <4>1. d + 1 \in Len(from) + 1 .. Len(p) /\ (d + 1) - 1 = d
        BY <1>2, <1>8, <3>2
      <4> QED
        BY <1>7, <4>1 DEF Turn, Pre
    <3> QED
      BY <3>1, <3>2
  <2> QED
    BY <2>1, <2>2 DEF OnRoute
<1> QED
  BY <1>6, <1>7, <1>10

LEMMA ParentFacts ==
    ASSUME Shape, NEW p \in Nodes, Len(p) # 1
    PROVE  /\ Len(p) - 1 \in 1 .. Len(p) - 1
           /\ Parent(p) = Pre(p, Len(p) - 1)
           /\ Parent(p) \in Nodes \ Leaves
<1>1. Len(p) - 1 \in 1 .. Len(p) - 1
  <2>1. Len(p) \in Nat \ {0}
    BY NodeFacts
  <2> QED
    BY <2>1, SMTT(30)
<1> QED
  BY <1>1, NodeFacts DEF Parent, Front, Pre

LEMMA MaskType ==
    ASSUME Types, Shape, NEW p \in Nodes
    PROVE  InheritedMask(p) \in [Segments -> 0 .. Bits - 1]
<1>1. \A q \in Nodes : tree[q].split_mask \in [Segments -> 0 .. Bits - 1]
  BY DEF Types, NodeType
<1>2. CASE Len(p) = 1
  BY <1>2, BitsAssumption DEF InheritedMask
<1>3. CASE Len(p) # 1
  BY <1>1, <1>3, ParentFacts DEF InheritedMask
<1> QED
  BY <1>2, <1>3

\* What a step that leaves the inner nodes alone keeps.
LEMMA Frame ==
    ASSUME Shape,
           \A q \in Nodes \ Leaves : /\ tree'[q].split_mask = tree[q].split_mask
                                     /\ tree'[q].splitpoint = tree[q].splitpoint,
           NEW p \in Nodes
    PROVE  /\ InheritedMask(p)' = InheritedMask(p)
           /\ \A d \in 1 .. Len(p) - 1 : tree'[Pre(p, d)].split_mask = tree[Pre(p, d)].split_mask
           /\ \A sax : OnRoute(p, sax)' <=> OnRoute(p, sax)
<1>1. \A d \in 1 .. Len(p) - 1 : Pre(p, d) \in Nodes \ Leaves
  BY DEF Shape
<1>2. InheritedMask(p)' = InheritedMask(p)
  <2>1. CASE Len(p) = 1
    BY <2>1 DEF InheritedMask
  <2>2. CASE Len(p) # 1
    BY <2>2, ParentFacts DEF InheritedMask
  <2> QED
    BY <2>1, <2>2
<1>3. ASSUME NEW sax PROVE OnRoute(p, sax)' <=> OnRoute(p, sax)
  <2>1. ASSUME NEW d \in 1 .. Len(p) - 1 PROVE Turn(Pre(p, d), sax)' = Turn(Pre(p, d), sax)
    BY <1>1 DEF Turn
  <2> QED
    BY <2>1 DEF OnRoute
<1> QED
  BY <1>1, <1>2, <1>3
-----------------------------------------------------------------------------
(* The names of the leaf files.                                            *)

LEMMA WordFacts ==
    ASSUME NEW w \in Words, NEW s \in Segments
    PROVE  w[s] \in Seq({0, 1}) /\ Len(w[s]) = Bits
<1>1. w[s] \in [1 .. Bits -> {0, 1}] /\ Bits \in Nat
  BY BitsAssumption DEF Words
<1> QED
  BY <1>1

LEMMA MaskOfType ==
    ASSUME NEW w \in Words
    PROVE  MaskOf(w) \in Masks /\ \A s \in Segments : MaskOf(w)[s] = w[s][1]
<1>1. \A s \in Segments : w[s][1] \in {0, 1}
  BY BitsAssumption DEF Words
<1> QED
  BY <1>1 DEF MaskOf, Masks

LEMMA BoxFacts ==
    ASSUME NEW w \in Words, NEW mask \in [Segments -> 0 .. Bits - 1]
    PROVE  /\ Box(w, mask) \in [Segments -> Seq({0, 1})]
           /\ Box(w, mask) # NoBox
           /\ \A s \in Segments : /\ Len(Box(w, mask)[s]) = mask[s] + 1
                                  /\ \A b \in 1 .. mask[s] + 1 : Box(w, mask)[s][b] = w[s][b]
<1>1. ASSUME NEW s \in Segments
      PROVE  /\ SubSeq(w[s], 1, mask[s] + 1) \in Seq({0, 1})
             /\ Len(SubSeq(w[s], 1, mask[s] + 1)) = mask[s] + 1
             /\ \A b \in 1 .. mask[s] + 1 : SubSeq(w[s], 1, mask[s] + 1)[b] = w[s][b]
  <2>1. w[s] \in Seq({0, 1}) /\ Len(w[s]) = Bits /\ mask[s] + 1 \in 1 .. Bits
    BY WordFacts, BitsAssumption
  <2> QED
    BY <2>1
<1>2. /\ DOMAIN Box(w, mask) = Segments
      /\ \A s \in Segments : Box(w, mask)[s] = SubSeq(w[s], 1, mask[s] + 1)
  BY DEF Box
<1>3. Box(w, mask) \in [Segments -> Seq({0, 1})]
  BY <1>1 DEF Box
<1>4. Box(w, mask) # NoBox
  <2>1. DOMAIN <<>> = {}
    OBVIOUS
  <2> QED
    BY <1>2, <2>1, SegmentsAssumption DEF NoBox
<1> QED
  BY <1>1, <1>2, <1>3, <1>4

\* The bit in which the boxes of two leaves differ.
LEMMA BoxBit ==
    ASSUME Types, Shape, SplitBits, NEW p \in Nodes, NEW w \in Words, OnRoute(p, w),
           NEW d \in 1 .. Len(p) - 1
    PROVE  LET q == Pre(p, d)
               s == tree[q].splitpoint
           IN  p[d + 1] = Box(w, InheritedMask(p))[s][tree[q].split_mask[s] + 1]
<1> PICK q : q = Pre(p, d)
  OBVIOUS
<1> DEFINE s == tree[q].splitpoint
           m == tree[q].split_mask[s] + 1
<1>1. q \in Nodes \ Leaves
  BY NodeFacts
<1>2. s \in Segments /\ tree[q].split_mask[s] \in 0 .. Bits - 1
  BY <1>1, SMTT(30) DEF Shape, Types, NodeType
<1>3. InheritedMask(p) \in [Segments -> 0 .. Bits - 1]
  BY MaskType
<1>4. tree[q].split_mask[s] <= InheritedMask(p)[s]
  BY <1>2 DEF SplitBits
<1>5. m \in 1 .. InheritedMask(p)[s] + 1
  <2>1. InheritedMask(p)[s] \in Nat
    BY <1>2, <1>3
  <2> QED
    BY <1>2, <1>4, <2>1, SMTT(30)
<1>6. p[d + 1] = w[s][m]
  BY DEF OnRoute, Turn, Branch
<1>7. Box(w, InheritedMask(p))[s][m] = w[s][m]
  <2> HIDE DEF s, m
  <2> QED
    BY <1>2, <1>3, <1>5, BoxFacts DEF s
<1> QED
  BY <1>6, <1>7

LEMMA BoxesApart ==
    ASSUME Types, Shape, Routes, SplitBits, NEW p \in Leaves, NEW q \in Leaves, p # q,
           NEW v \in Words, OnRoute(p, v), NEW w \in Words, OnRoute(q, w)
    PROVE  Box(v, InheritedMask(p)) # Box(w, InheritedMask(q))
<1>0. p \in Nodes /\ q \in Nodes
  BY LeafIsNode
<1>1. PICK d \in Nat : Part(p, q, d)
  BY <1>0, AboveFacts DEF Routes
<1>2. Len(p) \in Nat \ {0} /\ Len(q) \in Nat \ {0}
  BY <1>0, NodeFacts
<1>3. CASE d = 0
  <2>1. MaskOf(v) # MaskOf(w)
    BY <1>1, <1>3 DEF Part, OnRoute
  <2>2. PICK s \in Segments : v[s][1] # w[s][1]
    BY <2>1 DEF MaskOf
  <2>3. /\ InheritedMask(p) \in [Segments -> 0 .. Bits - 1]
        /\ InheritedMask(q) \in [Segments -> 0 .. Bits - 1]
    BY <1>0, MaskType
  <2>4. 1 \in 1 .. InheritedMask(p)[s] + 1 /\ 1 \in 1 .. InheritedMask(q)[s] + 1
    BY <2>3
  <2>5. Box(v, InheritedMask(p))[s][1] = v[s][1] /\ Box(w, InheritedMask(q))[s][1] = w[s][1]
    BY <2>3, <2>4, BoxFacts
  <2> QED
    BY <2>2, <2>5
<1>4. CASE d # 0
  <2>1. d \in 1 .. Len(p) - 1 /\ d \in 1 .. Len(q) - 1
    BY <1>1, <1>2, <1>4 DEF Part
  <2>2. Pre(p, d) = Pre(q, d) /\ p[d + 1] # q[d + 1]
    BY <1>1 DEF Part
  <2> QED
    BY <1>0, <2>1, <2>2, BoxBit
<1> QED
  BY <1>3, <1>4

\* Two leaves never have the same name, and a leaf without one will not get
\* that of another.
LEMMA NamesApart ==
    ASSUME Statics
    PROVE  /\ \A p, q \in Leaves : p # q /\ tree[p].box # NoBox => tree[p].box # tree[q].box
           /\ \A p, q \in Leaves : \A w \in Words :
                  p # q /\ OnRoute(p, w) => Box(w, InheritedMask(p)) # tree[q].box
<1>0. Types /\ Shape /\ Routes /\ SplitBits /\ Boxed /\ Leaves \subseteq Nodes
  BY LeafIsNode DEF Statics
<1>1. ASSUME NEW p \in Leaves, NEW q \in Leaves, NEW w \in Words, p # q, OnRoute(p, w)
      PROVE  Box(w, InheritedMask(p)) # tree[q].box
  <2>1. CASE tree[q].box = NoBox
    BY <1>0, <1>1, <2>1, BoxFacts, MaskType
  <2>2. CASE tree[q].box # NoBox
    BY <1>0, <1>1, <2>2, BoxesApart DEF Boxed
  <2> QED
    BY <2>1, <2>2
<1>2. ASSUME NEW p \in Leaves, NEW q \in Leaves, p # q, tree[p].box # NoBox
      PROVE  tree[p].box # tree[q].box
  BY <1>0, <1>1, <1>2 DEF Boxed
<1> QED
  BY <1>1, <1>2
-----------------------------------------------------------------------------
(* What the invariant says of the records of a leaf.                       *)

LEMMA NoneAdded ==
    ASSUME NEW S, NEW s \in Seq(S)
    PROVE  <<>> \o s = s /\ s \o <<>> = s /\ <<>> \in Seq(S) /\ Len(<<>>) = 0
  OBVIOUS

LEMMA ReadType == ASSUME Types, NEW f PROVE ReadFile(f) \in Seq(Records)
<1>1. \A g \in DOMAIN files : files[g] \in Seq(Records)
  BY DEF Types
<1>2. <<>> \in Seq(Records)
  OBVIOUS
<1> QED
  BY <1>1, <1>2 DEF ReadFile

LEMMA NodeParts ==
    ASSUME NEW n \in NodeType
    PROVE  /\ n.buffer \in BufferType
           /\ \A m \in Modes : n.buffer[m].records \in Seq(Records)
           /\ FlushedFull(n.buffer) \in Seq(Records) /\ FlushedPartial(n.buffer) \in Seq(Records)
           /\ n.buffer[Full].records = <<>> => FlushedFull(n.buffer) = n.buffer[TmpFull].records
           /\ n.buffer[Full].records = <<>> /\ n.buffer[TmpFull].records = <<>> =>
                  FlushedFull(n.buffer) = <<>>
           /\ n.buffer[Partial].records = <<>> /\ n.buffer[TmpPartial].records = <<>> =>
                  FlushedPartial(n.buffer) = <<>>
<1>1. n.buffer \in BufferType
  BY DEF NodeType
<1>2. \A m \in Modes : n.buffer[m].records \in Seq(Records)
  BY <1>1 DEF BufferType
<1>3. Full \in Modes /\ Partial \in Modes /\ TmpFull \in Modes /\ TmpPartial \in Modes
  BY DEF Modes
<1>4. <<>> \o <<>> = <<>>
  BY NoneAdded
<1>5. n.buffer[Full].records = <<>> => FlushedFull(n.buffer) = n.buffer[TmpFull].records
  BY <1>2, <1>3, NoneAdded DEF FlushedFull
<1> QED
  BY <1>1, <1>2, <1>3, <1>4, <1>5, FlushedFacts DEF FlushedFull, FlushedPartial

LEMMA HeldParts ==
    ASSUME Types, NEW n \in NodeType
    PROVE  /\ PartialFile(n) \in Seq(Records) /\ HeldBy(n) \in Seq(Records)
           /\ Len(HeldBy(n)) = Len(n.buffer[Partial].records) + Len(n.buffer[TmpPartial].records)
                                   + Len(PartialFile(n))
           /\ Entries(HeldBy(n)) = Entries(n.buffer[Partial].records)
                                   \cup Entries(n.buffer[TmpPartial].records)
                                   \cup Entries(PartialFile(n))
           /\ Distinct(HeldBy(n)) <=>
                  /\ Distinct(FlushedPartial(n.buffer)) /\ Distinct(PartialFile(n))
                  /\ Entries(FlushedPartial(n.buffer)) \cap Entries(PartialFile(n)) = {}
<1> DEFINE a == n.buffer[Partial].records
           b == n.buffer[TmpPartial].records
           c == PartialFile(n)
<1>1. a \in Seq(Records) /\ b \in Seq(Records)
  BY NodeParts DEF Modes
<1>2. c \in Seq(Records)
  BY ReadType, NoneAdded DEF PartialFile
<1>3. HeldBy(n) = (a \o b) \o c /\ FlushedPartial(n.buffer) = a \o b
  BY DEF HeldBy, FlushedPartial
<1> HIDE DEF a, b, c
<1>4. /\ a \o b \in Seq(Records) /\ Len(a \o b) = Len(a) + Len(b)
      /\ Entries(a \o b) = Entries(a) \cup Entries(b)
  BY ONLY <1>1, ConcatFacts
<1>5. /\ (a \o b) \o c \in Seq(Records) /\ Len((a \o b) \o c) = Len(a \o b) + Len(c)
      /\ Entries((a \o b) \o c) = Entries(a \o b) \cup Entries(c)
      /\ Distinct((a \o b) \o c) <=> /\ Distinct(a \o b) /\ Distinct(c)
                                     /\ Entries(a \o b) \cap Entries(c) = {}
  BY ONLY <1>2, <1>4, ConcatFacts, ZenonT(60)
<1>6. /\ c \in Seq(Records) /\ HeldBy(n) \in Seq(Records)
      /\ Len(HeldBy(n)) = Len(a) + Len(b) + Len(c)
      /\ Entries(HeldBy(n)) = Entries(a) \cup Entries(b) \cup Entries(c)
      /\ Distinct(HeldBy(n)) <=> /\ Distinct(FlushedPartial(n.buffer)) /\ Distinct(c)
                                 /\ Entries(FlushedPartial(n.buffer)) \cap Entries(c) = {}
  BY ONLY <1>2, <1>3, <1>4, <1>5
<1> QED
  BY <1>6 DEF a, b, c

\* While the index is built a leaf has what it holds in partial buffers and its
\* .part file.
LEMMA BuildStored ==
    ASSUME Types, NEW p \in Leaves, LeafBuild(p)
    PROVE  /\ tree[p] \in NodeType
           /\ Stored(tree[p]) = HeldBy(tree[p])
<1> PICK n : n = tree[p]
  OBVIOUS
<1>1. n \in NodeType /\ n.is_leaf
  BY LeafIsNode DEF Types, Leaves
<1>2. FlushedFull(n.buffer) = <<>> /\ ~n.has_full
  BY <1>1, NodeParts DEF LeafBuild
<1> PICK a : a = FlushedPartial(n.buffer)
  OBVIOUS
<1> PICK b : b = PartialFile(n)
  OBVIOUS
<1>3. a \in Seq(Records) /\ b \in Seq(Records)
  BY <1>1, NodeParts, HeldParts
<1>4. HeldBy(n) = a \o b
  BY DEF HeldBy
<1>5. Stored(n) = a \o b
  <2>1. Stored(n) = (<<>> \o a) \o (b \o <<>>)
    BY <1>2 DEF Stored, Buffered, Filed
  <2> QED
    BY ONLY <1>3, <2>1, NoneAdded
<1> QED
  BY <1>1, <1>4, <1>5

\* While it is queried a leaf has them in one place, but for a file
\* that has been torn.
LEMMA QueryStored ==
    ASSUME Types, NEW n \in NodeType, n.is_leaf, NEW all, NEW st,
           Complete(n, files, all, st, torn)
    PROVE  /\ ToSet(Stored(n)) \subseteq all \cup {Garbage}
           /\ ~Damaged(n) => ToSet(Stored(n)) = all /\ ToSet(Examined(n)) = all
           /\ ~st => Whole(Stored(n), n, all)
           /\ Bounding(n) # <<>> => /\ ToSet(Bounding(n)) = all
                                    /\ FlushedFull(n.buffer) = <<>> /\ ~n.has_full
<1> PICK a : a = n.buffer[TmpFull].records
  OBVIOUS
<1> PICK b : b = PartialFile(n)
  OBVIOUS
<1> PICK c : c = IF n.has_full THEN ReadFile(File(n.box, Full)) ELSE <<>>
  OBVIOUS
<1>1. a \in Seq(Records) /\ b \in Seq(Records) /\ c \in Seq(Records)
  BY NodeParts, HeldParts, ReadType, NoneAdded DEF Modes
<1>2. FlushedFull(n.buffer) = a /\ FlushedPartial(n.buffer) = <<>>
  <2>1. /\ Full \in Modes \ {TmpFull} /\ Partial \in Modes \ {TmpFull}
        /\ TmpPartial \in Modes \ {TmpFull}
    BY DEF Modes, Full, Partial, TmpPartial, TmpFull
  <2> QED
    BY <2>1, NodeParts DEF Complete
<1>3. Unloaded(n) <=> n.has_partial
  BY <1>2 DEF Unloaded
<1>4. /\ Stored(n) = (a \o <<>>) \o (b \o c)
      /\ Bounding(n) = b \o <<>>
      /\ Loadable(n) = <<>> \o b
      /\ Examined(n) = (a \o c) \o (IF n.has_partial THEN Loadable(n) ELSE <<>>)
  BY <1>2, <1>3 DEF Stored, Buffered, Filed, Bounding, Loadable, Examined
<1>5. Stored(n) = a \o (b \o c) /\ Bounding(n) = b /\ Examined(n) = (a \o c) \o b
  <2>1. b # <<>> => n.has_partial
    BY DEF PartialFile
  <2>2. a \o c \in Seq(Records)
    BY ONLY <1>1, ConcatFacts
  <2>3. CASE n.has_partial
    <3>1. Examined(n) = (a \o c) \o (<<>> \o b)
      BY <1>4, <2>3
    <3> QED
      BY ONLY <1>1, <1>4, <3>1, NoneAdded
  <2>4. CASE ~n.has_partial
    <3>1. Examined(n) = (a \o c) \o <<>> /\ b = <<>>
      BY <1>4, <2>1, <2>4
    <3> QED
      BY ONLY <1>1, <1>4, <3>1, NoneAdded
  <2> QED
    BY <2>3, <2>4
<1>6. CASE n.has_partial
  <2>1. a = <<>> /\ c = <<>> /\ ~n.has_full
    BY <1>6 DEF Complete
  <2>2. n.box # NoBox /\ PartOf(n) \in DOMAIN files
    BY <1>6 DEF Complete
  <2>3. b = files[PartOf(n)] /\ Whole(b, n, all)
    BY <1>6, <2>2 DEF Complete, PartialFile, ReadFile, PartOf
  <2>4. Stored(n) = b /\ Examined(n) = b
    BY ONLY <1>1, <1>5, <2>1, NoneAdded
  <2>5. Entries(b) = all
    BY <2>3 DEF Whole
  <2> QED
    BY <1>2, <1>5, <2>1, <2>3, <2>4, <2>5, SameEntries
<1>7. CASE ~n.has_partial
  <2>1. b = <<>>
    BY <1>7 DEF PartialFile
  <2>2. Stored(n) = a \o c /\ Examined(n) = a \o c
    <3>1. a \o c \in Seq(Records)
      BY ONLY <1>1, ConcatFacts
    <3> QED
      BY ONLY <1>1, <1>5, <2>1, <3>1, NoneAdded, SMTT(30)
  <2>3. CASE n.has_full
    <3>1. a = <<>>
      BY <2>3 DEF Complete
    <3>2. n.box # NoBox /\ FullOf(n) \in DOMAIN files
      BY <2>3 DEF Complete
    <3>3. c = files[FullOf(n)]
      BY <2>3, <3>2 DEF FullOf, ReadFile
    <3>4. /\ Entries(c) \subseteq all \cup {Garbage}
          /\ ~Damaged(n) => Entries(c) = all
          /\ ~st => Whole(c, n, all)
      BY <2>3, <3>2, <3>3 DEF Complete, Partly, Damaged, FullOf
    <3>5. a \o c = c
      BY ONLY <1>1, <3>1, NoneAdded, SMTT(30)
    <3> QED
      BY <1>5, <2>1, <2>2, <3>4, <3>5, SameEntries
  <2>4. CASE ~n.has_full
    <3>1. c = <<>>
      BY <2>4
    <3>2. a \o c = a
      BY ONLY <1>1, <3>1, NoneAdded
    <3>3. Whole(a, n, all)
      <4>1. CASE a # <<>>
        BY <4>1 DEF Complete
      <4>2. CASE a = <<>>
        <5>1. n.leaf_size = 0 /\ all = {}
          BY <1>7, <2>4, <4>2 DEF Complete
        <5> QED
          BY <4>2, <5>1, NoEntries, NoneAdded DEF Whole
      <4> QED
        BY <4>1, <4>2
    <3> QED
      BY <1>5, <2>1, <2>2, <3>2, <3>3, SameEntries DEF Whole
  <2> QED
    BY <2>3, <2>4
<1> QED
  BY <1>6, <1>7
-----------------------------------------------------------------------------
(* The invariant implies the properties.                                   *)

\* The root of each mask that has been met is a node.
LEMMA RootThere ==
    ASSUME Statics, NEW sax \in Words, fbl[MaskOf(sax)].initialized
    PROVE  Root(MaskOf(sax)) \in Nodes /\ OnRoute(Root(MaskOf(sax)), sax)
<1>0. Types /\ Shape /\ Routes
  BY DEF Statics
<1>1. PICK p \in Leaves : OnRoute(p, sax)
  BY <1>0 DEF Routes
<1> PICK m : m = MaskOf(sax)
  OBVIOUS
<1>2. p \in Nodes /\ p \in Paths /\ Len(p) \in Nat \ {0} /\ p[1] = m
  BY <1>0, <1>1, LeafIsNode, NodeFacts DEF OnRoute
<1>3. Pre(p, 1) = <<m>>
  <2>0. 1 \in 0 .. Len(p) /\ 1 \in 1 .. 1
    BY <1>2
  <2>1. Len(Pre(p, 1)) = 1 /\ Pre(p, 1)[1] = m /\ Pre(p, 1) \in Paths
    BY <1>2, <2>0, PrefixFacts, ZenonT(60)
  <2> QED
    BY <2>1 DEF Paths
<1>4. <<m>> \in Nodes
  <2>1. CASE Len(p) = 1
    BY <1>2, <1>3, <2>1, PrefixFacts
  <2>2. CASE Len(p) # 1
    <3>0. PICK k : k = Len(p)
      OBVIOUS
    <3>1. 1 \in 1 .. k - 1
      BY <1>2, <2>2, <3>0
    <3> QED
      BY <1>0, <1>2, <1>3, <3>0, <3>1, NodeFacts
  <2> QED
    BY <2>1, <2>2
<1>5. OnRoute(<<m>>, sax)
  BY DEF OnRoute
<1> QED
  BY <1>4, <1>5 DEF Root

\* The leaf a record belongs to is the one on its route.
LEMMA HomeFacts ==
    ASSUME Statics, NEW r \in DOMAIN words
    PROVE  /\ Home(words[r]) \in Leaves
           /\ \A p \in Leaves : Home(words[r]) = p <=> r \in Mine(p)
<1> PICK sax : sax = words[r]
  OBVIOUS
<1>1. Types /\ Shape /\ Routes /\ sax \in Words /\ fbl[MaskOf(sax)].initialized
  BY DEF Statics, Types, Routes
<1>2. Root(MaskOf(sax)) \in Nodes /\ OnRoute(Root(MaskOf(sax)), sax)
  BY <1>1, RootThere
<1>3. Home(sax) \in Leaves /\ OnRoute(Home(sax), sax)
  BY <1>1, <1>2, LeafForFacts DEF Home
<1>4. \A p \in Leaves : OnRoute(p, sax) => Home(sax) = p
  BY <1>1, <1>3, OneLeaf
<1> QED
  BY <1>3, <1>4 DEF Mine

LEMMA InvQuerySeesLeaf == ASSUME DiskInv PROVE QuerySeesLeaf
<1>1. CASE phase # "query"
  BY <1>1 DEF QuerySeesLeaf
<1>2. CASE phase = "query"
  <2>0. ~exited /\ Statics /\ Types /\ Querying
    BY <1>2 DEF DiskInv, GivenUp, Main, Statics
  <2>1. ASSUME NEW p \in Leaves
        PROVE  LET n == tree[p]
                   mine == {r \in DOMAIN words : Home(words[r]) = p}
               IN  /\ ~Damaged(n) => ToSet(Examined(n)) = mine
                   /\ Bounding(n) # <<>> => /\ ToSet(Bounding(n)) = mine
                                            /\ FlushedFull(n.buffer) = <<>> /\ ~n.has_full
    <3> PICK mine : mine = {r \in DOMAIN words : Home(words[r]) = p}
      OBVIOUS
    <3> PICK n : n = tree[p]
      OBVIOUS
    <3>1. mine = Mine(p)
      BY <2>0, HomeFacts DEF Mine
    <3>2. Complete(n, files, mine, stale, torn)
      BY <2>0, <3>1 DEF Querying
    <3>3. n \in NodeType /\ n.is_leaf
      BY <2>0, LeafIsNode DEF Types, Leaves
    <3>4. /\ ~Damaged(n) => ToSet(Examined(n)) = mine
          /\ Bounding(n) # <<>> => /\ ToSet(Bounding(n)) = mine
                                   /\ FlushedFull(n.buffer) = <<>> /\ ~n.has_full
      BY ONLY <2>0, <3>2, <3>3, QueryStored
    <3> QED
      BY <3>4
  <2> QED
    BY <2>1 DEF QuerySeesLeaf
<1> QED
  BY <1>1, <1>2

LEMMA GivenIsHard ==
    ASSUME Types, Soft, Loop, NEW r, Given(r)
    PROVE  /\ Current \in Masks /\ r \in Entries(InBuffer) /\ r \in Entries(hard)
           /\ r \in DOMAIN words /\ MaskOf(words[r]) = Current
<1>1. Current \in Masks
  BY MasksAssumption DEF Given, Current
<1>2. r \in Entries(InBuffer)
  <2>1. InBuffer \in Seq(Records) /\ at.i \in Nat /\ at.i <= Len(InBuffer)
    BY <1>1 DEF Given, InBuffer, Types, SoftType, Loop
  <2>2. PICK n \in 1 .. at.i : InBuffer[n] = r
    BY DEF Given
  <2>3. n \in DOMAIN InBuffer
    BY <2>1
  <2> QED
    BY <2>2, <2>3 DEF Entries
<1> QED
  BY <1>1, <1>2 DEF Soft, InBuffer

LEMMA InvHardBufferHeld == ASSUME DiskInv PROVE HardBufferHeld
<1>1. CASE exited
  BY <1>1 DEF DiskInv, GivenUp
<1>2. CASE ~exited
  <2>0. Types /\ Main
    BY <1>2 DEF DiskInv, Main, Statics
  <2> SUFFICES ASSUME NEW p \in Leaves
               PROVE  ToSet(tree[p].buffer[Full].records \o tree[p].buffer[Partial].records)
                          \subseteq ToSet(hard)
    BY DEF HardBufferHeld
  <2> PICK b : b = tree[p].buffer[Partial].records
    OBVIOUS
  <2>1. b \in Seq(Records)
    BY <2>0, LeafIsNode, NodeParts DEF Types, Modes
  <2>2. tree[p].buffer[Full].records = <<>> /\ Entries(b) \subseteq Entries(hard)
    <3>1. CASE phase = "build"
      BY <2>0, <3>1, GivenIsHard DEF Main, Building, LeafBuild
    <3>2. CASE phase = "query"
      <4>1. Full \in Modes \ {TmpFull} /\ Partial \in Modes \ {TmpFull}
        BY DEF Modes, Full, Partial, TmpFull
      <4> QED
        BY <2>0, <3>2, <4>1, NoEntries DEF Main, Querying, Complete
    <3> QED
      BY <2>0, <3>1, <3>2 DEF Types
  <2>3. tree[p].buffer[Full].records \o b = b
    BY ONLY <2>1, <2>2, NoneAdded
  <2> QED
    BY <2>2, <2>3, SameEntries
<1> QED
  BY <1>1, <1>2

LEMMA InvTypeOK == ASSUME DiskInv PROVE TypeOK
<1>1. CASE exited
  BY <1>1 DEF DiskInv, GivenUp
<1>2. CASE ~exited
  <2>0. Types /\ Shape /\ Main
    BY <1>2 DEF DiskInv, Main, Statics
  <2>1. ToSet(hard) \subseteq DOMAIN words
    <3>1. CASE phase = "build"
      BY <2>0, <3>1, SameEntries DEF Main, Building, Soft
    <3>2. CASE phase = "query"
      BY <2>0, <3>2, SameEntries, NoEntries DEF Main, Querying
    <3> QED
      BY <2>0, <3>1, <3>2 DEF Types
  <2>2. ASSUME NEW p \in Nodes, Len(p) > 1 PROVE Parent(p) \in Nodes \ Leaves
    <3>1. PICK k : k = Len(p)
      OBVIOUS
    <3>2. k # 1
      BY <2>0, <2>2, <3>1, NodeFacts
    <3> QED
      BY <2>0, <3>1, <3>2, ParentFacts
  <2>3. ASSUME NEW p \in Leaves
        PROVE  LET n == tree[p] IN
               /\ n.leaf_size <= MaxLeafSize
               /\ ~stale => n.leaf_size = Len(Stored(n))
               /\ \A m \in Modes : n.buffer[m].max \in {0, InitialBufferSize}
               /\ n.has_partial => File(n.box, Partial) \in DOMAIN files
               /\ n.has_full => File(n.box, Full) \in DOMAIN files
    <3>1. CASE phase = "build"
      <4>1. LeafBuild(p)
        BY <2>0, <3>1 DEF Main, Building
      <4>2. Stored(tree[p]) = HeldBy(tree[p])
        BY <2>0, <4>1, BuildStored
      <4> QED
        BY <4>1, <4>2 DEF LeafBuild, NoGrowth, Fresh, PartOf
    <3>2. CASE phase = "query"
      <4>1. Complete(tree[p], files, Mine(p), stale, torn)
        BY <2>0, <3>2 DEF Main, Querying
      <4>2. tree[p] \in NodeType /\ tree[p].is_leaf
        BY <2>0, LeafIsNode DEF Types, Leaves
      <4>3. ~stale => tree[p].leaf_size = Len(Stored(tree[p]))
        BY <2>0, <4>1, <4>2, QueryStored DEF Whole
      <4> QED
        BY <4>1, <4>3 DEF Complete, NoGrowth, Fresh, PartOf, FullOf
    <3> QED
      BY <2>0, <3>1, <3>2 DEF Types
  <2> QED
    BY <1>2, <2>0, <2>1, <2>2, <2>3 DEF TypeOK, Types, DiskInv
<1> QED
  BY <1>1, <1>2

LEMMA InvNothingLost == ASSUME DiskInv PROVE NothingLost
<1>1. CASE exited
  BY <1>1 DEF NothingLost, NothingMissing, StoredOnce
<1>2. CASE ~exited
  <2>0. Types /\ Shape /\ Routes /\ Statics /\ Main
    BY <1>2 DEF DiskInv, Main, Statics
  <2>1. CASE phase = "build"
    <3>0. Building
      BY <2>0, <2>1 DEF Main
    <3>1. \A p \in Leaves : LeafBuild(p) /\ Stored(tree[p]) = HeldBy(tree[p])
      BY <2>0, <3>0, BuildStored DEF Building
    <3>2. InHand = Entries(Hand)
      BY DEF InHand, Hand, RecordsOf, Entries
    <3>3. Waiting = UNION {Entries(fbl[m].records) : m \in Masks}
      BY SameEntries DEF Waiting
    <3>4. \A p \in Leaves : ToSet(Stored(tree[p])) = Entries(HeldBy(tree[p]))
      BY <3>1, SameEntries
    <3>5. \A r \in InHand : r \in DOMAIN words
      BY <3>0 DEF Building, Calls, GoodCall, InHand, Entries
    <3>6. \A p \in Leaves : Entries(HeldBy(tree[p])) \subseteq DOMAIN words
      BY <3>1 DEF LeafBuild
    <3>7. Waiting \subseteq DOMAIN words
      BY <3>0, <3>3 DEF Building, Soft
    <3>8. \A r \in DOMAIN words : r \in Waiting \/ r \in InHand
                                     \/ \E p \in Leaves : r \in Entries(HeldBy(tree[p]))
      BY <3>0, <3>2, <3>3 DEF Building, Kept, Awaiting
    <3>9. NothingMissing
      <4>1. \A r \in UNION {ToSet(Stored(tree[p])) : p \in Leaves} : r \in DOMAIN words
        BY <3>4, <3>6
      <4>2. \A r \in DOMAIN words :
               r \in Waiting \cup InHand \cup UNION {ToSet(Stored(tree[p])) : p \in Leaves}
        BY <3>4, <3>8
      <4> QED
        BY <3>5, <3>7, <4>1, <4>2 DEF NothingMissing
    <3>10. ASSUME NEW p \in Leaves, NEW q \in Leaves, p # q
           PROVE  Entries(HeldBy(tree[p])) \cap Entries(HeldBy(tree[q])) = {}
      BY <2>0, <3>1, <3>10, OneLeaf DEF LeafBuild
    <3>11. \A p \in Leaves : Distinct(Stored(tree[p]))
      BY <3>1 DEF LeafBuild
    <3> QED
      BY <3>4, <3>9, <3>10, <3>11 DEF NothingLost, StoredOnce, Distinct
  <2>2. CASE phase = "query"
    <3>0. Querying
      BY <2>0, <2>2 DEF Main
    <3>1. \A p \in Leaves :
             /\ ToSet(Stored(tree[p])) \subseteq Mine(p) \cup {Garbage}
             /\ ~Damaged(tree[p]) => ToSet(Stored(tree[p])) = Mine(p)
             /\ ~stale => Distinct(Stored(tree[p])) /\ ToSet(Stored(tree[p])) = Mine(p)
      <4>1. \A p \in Leaves : tree[p] \in NodeType /\ tree[p].is_leaf
        BY <2>0 DEF Types, Leaves
      <4> QED
        BY <2>0, <3>0, <4>1, QueryStored, SameEntries DEF Querying, Whole
    <3>2. Waiting = {} /\ InHand = {}
      <4>1. Waiting = {}
        BY <3>0, SameEntries, NoEntries DEF Querying, Waiting
      <4>2. DOMAIN adding = {}
        BY <3>0 DEF Querying
      <4> QED
        BY <4>1, <4>2 DEF InHand
    <3>3. \A r \in DOMAIN words : Home(words[r]) \in Leaves /\ r \in Mine(Home(words[r]))
      BY <2>0, HomeFacts
    <3>4. NothingMissing
      <4> DEFINE stored == UNION {ToSet(Stored(tree[p])) : p \in Leaves}
                 damaged == {p \in Leaves : Damaged(tree[p])}
      <4>1. ASSUME NEW r \in DOMAIN words, Home(words[r]) \notin damaged PROVE r \in stored
        BY <3>1, <3>3, <4>1
      <4>2. ASSUME NEW r \in stored
            PROVE  r \in DOMAIN words \cup (IF damaged = {} THEN {} ELSE {Garbage})
        <5>1. PICK p \in Leaves : r \in ToSet(Stored(tree[p]))
          OBVIOUS
        <5>2. CASE damaged = {}
          BY <3>1, <5>1, <5>2 DEF Mine
        <5>3. CASE damaged # {}
          BY <3>1, <5>1, <5>3 DEF Mine
        <5> QED
          BY <5>2, <5>3
      <4> QED
        BY <3>2, <4>1, <4>2 DEF NothingMissing
    <3>5. ASSUME NEW p \in Leaves, NEW q \in Leaves, p # q PROVE Mine(p) \cap Mine(q) = {}
      BY <2>0, <3>5, OneLeaf DEF Mine
    <3> QED
      BY <3>1, <3>4, <3>5 DEF NothingLost, StoredOnce, Distinct
  <2> QED
    BY <2>0, <2>1, <2>2 DEF Types
<1> QED
  BY <1>1, <1>2
-----------------------------------------------------------------------------
(* It holds at first.                                                      *)

LEMMA DiskInitial == ASSUME Init PROVE DiskInv
<1>0. /\ words = <<>> /\ hard = <<>> /\ roots = <<>>
      /\ fbl = [m \in Masks |-> NewSoftBuffer]
      /\ tree = <<>> /\ files = <<>> /\ index_idx = NotWritten
      /\ at = NotFlushing /\ adding = <<>> /\ loading = <<>>
      /\ phase = "build" /\ exited = FALSE /\ stale = FALSE /\ torn = {}
  BY DEF Init
<1>1. Nodes = {} /\ Leaves = {} /\ DOMAIN files = {} /\ DOMAIN words = {}
  BY <1>0 DEF Nodes, Leaves
<1>2. Len(MasksInOrder) \in Nat /\ DOMAIN MasksInOrder = 1 .. Len(MasksInOrder)
  BY MasksAssumption
<1>3. Types
  <2>1. NewSoftBuffer \in SoftType
    BY DEF NewSoftBuffer, SoftType
  <2>2. NotFlushing \in [j : 0 .. Len(MasksInOrder) + 1, i : Nat]
    BY <1>2 DEF NotFlushing
  <2>3. /\ words \in Seq(Words) /\ hard \in Seq(Records) /\ adding \in Seq(CallType)
        /\ fbl \in [Masks -> SoftType]
    BY <1>0, <2>1
  <2>4. tree \in [Nodes -> NodeType] /\ files \in [DOMAIN files -> Seq(Records)]
    BY <1>0, <1>1
  <2> QED
    BY <1>0, <2>2, <2>3, <2>4 DEF Types
<1>4. Shape /\ SplitBits /\ Boxed
  BY <1>1 DEF Shape, SplitBits, Boxed
<1>5. Routes
  <2>1. ASSUME NEW sax \in Words PROVE ~fbl[MaskOf(sax)].initialized
    BY <1>0, MaskOfType DEF NewSoftBuffer
  <2> QED
    BY <1>1, <2>1 DEF Routes
<1>6. at.j \notin DOMAIN MasksInOrder /\ at.j = 0 /\ at.i = 0
  BY <1>0, <1>2 DEF NotFlushing
<1>7. Soft
  BY <1>0, NoEntries DEF Soft, NewSoftBuffer
<1>8. Loop
  BY <1>0, <1>2, <1>6 DEF Loop
<1>9. Calls
  <2>1. Entries(adding) = {}
    BY <1>0, NoEntries
  <2>2. Distinct(Hand)
    BY <1>0 DEF Hand, RecordsOf, Distinct
  <2> QED
    BY <2>1, <2>2 DEF Calls
<1>10. Owned /\ Kept
  BY <1>1 DEF Owned, Kept
<1> QED
  BY <1>0, <1>1, <1>3, <1>4, <1>5, <1>7, <1>8, <1>9, <1>10
     DEF DiskInv, Main, Statics, Building
-----------------------------------------------------------------------------
(* What steps keep that do not add nodes.                                  *)

LEMMA SameTree ==
    ASSUME Statics, Nodes' = Nodes, words' = words,
           \A q \in Nodes : tree'[q].is_leaf = tree[q].is_leaf,
           \A q \in Nodes \ Leaves : /\ tree'[q].split_mask = tree[q].split_mask
                                     /\ tree'[q].splitpoint = tree[q].splitpoint,
           \A q \in Nodes : \/ tree'[q].box = tree[q].box
                            \/ \E w \in Words : OnRoute(q, w) /\ tree'[q].box = Box(w, InheritedMask(q)),
           \A m \in Masks : fbl'[m].initialized => fbl[m].initialized,
           \A q \in Nodes : fbl'[q[1]].initialized
    PROVE  /\ Leaves' = Leaves
           /\ \A q \in Nodes : InheritedMask(q)' = InheritedMask(q)
           /\ \A q \in Nodes : \A sax : OnRoute(q, sax)' <=> OnRoute(q, sax)
           /\ \A q \in Nodes : Mine(q)' = Mine(q)
           /\ Shape' /\ Routes' /\ SplitBits' /\ Boxed'
<1>0. Types /\ Shape /\ Routes /\ SplitBits /\ Boxed
  BY DEF Statics
<1>1. Leaves' = Leaves
  BY DEF Leaves
<1>2. \A q \in Nodes : /\ InheritedMask(q)' = InheritedMask(q)
                       /\ \A d \in 1 .. Len(q) - 1 :
                              tree'[Pre(q, d)].split_mask = tree[Pre(q, d)].split_mask
                       /\ \A sax : OnRoute(q, sax)' <=> OnRoute(q, sax)
  BY <1>0, Frame
<1>3. \A q \in Nodes : Mine(q)' = Mine(q)
  BY <1>2 DEF Mine
<1>4. Shape'
  BY <1>0, <1>1 DEF Shape
<1>5. Routes'
  <2>1. \A p \in Leaves' : \A q \in Nodes' : Above(q, p) \/ \E d \in Nat : Part(p, q, d)
    BY <1>0, <1>1 DEF Routes
  <2>2. ASSUME NEW sax \in Words, fbl'[MaskOf(sax)].initialized
        PROVE  \E p \in Leaves' : OnRoute(p, sax)'
    <3>1. fbl[MaskOf(sax)].initialized
      BY <2>2, MaskOfType
    <3>2. PICK p \in Leaves : OnRoute(p, sax)
      BY <1>0, <3>1 DEF Routes
    <3> QED
      BY <1>1, <1>2, <3>2, LeafIsNode
  <2>3. ASSUME NEW r \in DOMAIN words PROVE fbl'[MaskOf(words[r])].initialized
    <3>1. words[r] \in Words
      BY <1>0 DEF Types
    <3>2. PICK p \in Leaves : OnRoute(p, words[r])
      BY <1>0, <3>1 DEF Routes
    <3>3. p[1] = MaskOf(words[r])
      BY <3>2 DEF OnRoute
    <3> QED
      BY <3>3, LeafIsNode
  <2> QED
    BY <2>1, <2>2, <2>3 DEF Routes
<1>6. SplitBits'
  BY <1>0, <1>2 DEF SplitBits
<1>7. Boxed'
  <2> SUFFICES ASSUME NEW q \in Nodes, tree'[q].box # NoBox
               PROVE  \E w \in Words : OnRoute(q, w)' /\ tree'[q].box = Box(w, InheritedMask(q)')
    BY DEF Boxed
  <2>1. \E w \in Words : OnRoute(q, w) /\ tree'[q].box = Box(w, InheritedMask(q))
    BY <1>0 DEF Boxed
  <2> QED
    BY <1>2, <2>1
<1> QED
  BY <1>1, <1>2, <1>3, <1>4, <1>5, <1>6, <1>7

LEMMA TreeUnchanged ==
    ASSUME Statics, UNCHANGED <<tree, fbl, words>>, Types'
    PROVE  /\ Statics' /\ Nodes' = Nodes /\ Leaves' = Leaves
           /\ \A q \in Nodes : \A sax : OnRoute(q, sax)' <=> OnRoute(q, sax)
           /\ \A q \in Nodes : Mine(q)' = Mine(q)
<1>1. Nodes' = Nodes
  BY DEF Nodes
<1>2. \A q \in Nodes : fbl'[q[1]].initialized
  BY DEF Statics, Shape
<1>3. /\ Leaves' = Leaves
      /\ \A q \in Nodes : \A sax : OnRoute(q, sax)' <=> OnRoute(q, sax)
      /\ \A q \in Nodes : Mine(q)' = Mine(q)
      /\ Shape' /\ Routes' /\ SplitBits' /\ Boxed'
  BY <1>1, <1>2, SameTree
<1> QED
  BY <1>1, <1>3 DEF Statics

\* The records of calls.
LEMMA RecordsFacts ==
    ASSUME NEW a \in Seq(CallType), NEW b \in Seq(CallType)
    PROVE  /\ RecordsOf(a) \in Seq(Records) /\ Len(RecordsOf(a)) = Len(a)
           /\ \A r : r \in Entries(RecordsOf(a)) <=> \E c \in Entries(a) : c.record = r
           /\ RecordsOf(a \o b) = RecordsOf(a) \o RecordsOf(b)
<1>0. \A c \in CallType : c.record \in Records
  BY DEF CallType
<1>1. \A n \in 1 .. Len(a) : a[n].record \in Records
  BY <1>0
<1>2. \A n \in 1 .. Len(b) : b[n].record \in Records
  BY <1>0
<1>3. /\ RecordsOf(a) \in Seq(Records) /\ Len(RecordsOf(a)) = Len(a)
      /\ \A n \in 1 .. Len(a) : RecordsOf(a)[n] = a[n].record
  BY <1>1 DEF RecordsOf
<1>4. /\ RecordsOf(b) \in Seq(Records) /\ Len(RecordsOf(b)) = Len(b)
      /\ \A n \in 1 .. Len(b) : RecordsOf(b)[n] = b[n].record
  BY <1>2 DEF RecordsOf
<1>5. \A r : r \in Entries(RecordsOf(a)) <=> \E c \in Entries(a) : c.record = r
  <2>1. DOMAIN RecordsOf(a) = DOMAIN a
    BY DEF RecordsOf
  <2>2. \A n \in DOMAIN a : RecordsOf(a)[n] = a[n].record
    BY DEF RecordsOf
  <2> QED
    BY <2>1, <2>2 DEF Entries
<1>6. RecordsOf(a \o b) = RecordsOf(a) \o RecordsOf(b)
  <2> DEFINE c == a \o b
             d == RecordsOf(a) \o RecordsOf(b)
  <2>1. c \in Seq(CallType) /\ Len(c) = Len(a) + Len(b)
    OBVIOUS
  <2>2. d \in Seq(Records) /\ Len(d) = Len(a) + Len(b)
    <3>1. /\ RecordsOf(a) \o RecordsOf(b) \in Seq(Records)
          /\ Len(RecordsOf(a) \o RecordsOf(b)) = Len(RecordsOf(a)) + Len(RecordsOf(b))
      <4>1. PICK u, v : u = RecordsOf(a) /\ v = RecordsOf(b)
        OBVIOUS
      <4>2. u \in Seq(Records) /\ v \in Seq(Records)
        BY <1>3, <1>4, <4>1
      <4>3. u \o v \in Seq(Records) /\ Len(u \o v) = Len(u) + Len(v)
        BY ONLY <4>2, ConcatFacts
      <4> QED
        BY <4>1, <4>3
    <3> QED
      BY <1>3, <1>4, <3>1
  <2>3. DOMAIN RecordsOf(c) = 1 .. Len(a) + Len(b) /\ \A n \in 1 .. Len(a) + Len(b) : RecordsOf(c)[n] = c[n].record
    BY <2>1 DEF RecordsOf
  <2>4. ASSUME NEW n \in 1 .. Len(a) + Len(b) PROVE c[n].record = d[n]
    <3>1. CASE n \in 1 .. Len(a)
      <4>1. c[n] = a[n] /\ d[n] = RecordsOf(a)[n]
        BY <1>3, <1>4, <3>1
      <4> QED
        BY <1>3, <3>1, <4>1
    <3>2. CASE n \notin 1 .. Len(a)
      <4>1. n - Len(a) \in 1 .. Len(b)
        BY <3>2
      <4>2. c[n] = b[n - Len(a)] /\ d[n] = RecordsOf(b)[n - Len(a)]
        BY <1>3, <1>4, <3>2, <4>1
      <4> QED
        BY <1>4, <4>1, <4>2
    <3> QED
      BY <3>1, <3>2
  <2>5. RecordsOf(c) = [n \in 1 .. Len(a) + Len(b) |-> c[n].record]
    BY <2>1 DEF RecordsOf
  <2>6. d = [n \in 1 .. Len(a) + Len(b) |-> d[n]]
    <3> HIDE DEF d
    <3> QED
      BY <2>2
  <2> HIDE DEF c, d
  <2>7. RecordsOf(c) = d
    BY <2>4, <2>5, <2>6
  <2> QED
    BY <2>7 DEF c, d
<1> QED
  BY <1>3, <1>5, <1>6

LEMMA OneCall ==
    ASSUME NEW c \in CallType
    PROVE  /\ <<c>> \in Seq(CallType) /\ Entries(<<c>>) = {c}
           /\ RecordsOf(<<c>>) = <<c.record>>
<1>1. RecordsOf(<<c>>) = <<c.record>>
  BY DEF RecordsOf
<1> QED
  BY <1>1, OneEntry

\* A state of building or of querying.
LEMMA BuildingNow ==
    ASSUME DiskInv, ~exited
    PROVE  /\ Statics /\ Types /\ Shape /\ Routes
           /\ phase \in {"build", "query"}
           /\ phase = "build" => Building
           /\ phase = "query" => Querying
           /\ at.j \in DOMAIN MasksInOrder => phase = "build"
           /\ adding # <<>> => phase = "build"
           /\ loading # <<>> => phase = "query"
           /\ at.j = Len(MasksInOrder) + 1 => phase = "build"
           /\ index_idx # NotWritten => phase = "query"
<1>1. Main /\ phase \in {"build", "query"}
  BY DEF DiskInv, Main, Statics, Types
<1>2. DOMAIN MasksInOrder = 1 .. Len(MasksInOrder) /\ Len(MasksInOrder) \in Nat
  BY MasksAssumption
<1>3. phase = "query" => at.j = 0 /\ adding = <<>>
  BY <1>1 DEF Main, Querying, NotFlushing
<1>4. phase = "build" => loading = <<>> /\ index_idx = NotWritten
  BY <1>1 DEF Main, Building
<1> QED
  BY <1>1, <1>2, <1>3, <1>4 DEF Main, Statics
-----------------------------------------------------------------------------
(* Insertion, and the loops of flush_fbl.                                  *)

LEMMA AddFromBufferStep == ASSUME DiskInv, AddFromBuffer PROVE DiskInv'
<1> PICK call : call = [record |-> InBuffer[at.i + 1], mode |-> Partial,
                        from |-> Root(Current), again |-> FALSE]
  OBVIOUS
<1> PICK r0 : r0 = InBuffer[at.i + 1]
  OBVIOUS
<1>0. /\ at.j \in DOMAIN MasksInOrder /\ adding = <<>> /\ ~exited
      /\ at.i < Len(InBuffer)
      /\ at' = [at EXCEPT !.i = @ + 1]
      /\ adding' = <<call>>
      /\ UNCHANGED <<words, hard, fbl, roots, tree, files, index_idx, loading, phase, exited, stale, torn>>
  BY DEF AddFromBuffer, Flushing, memory
<1>1. Statics /\ Types /\ Shape /\ phase = "build" /\ Building
  BY <1>0, BuildingNow
<1>2. at \in [j : 0 .. Len(MasksInOrder) + 1, i : Nat] /\ at.i \in Nat /\ Current \in Masks
  BY <1>0, <1>1, MasksAssumption DEF Types, Current
<1>3. at'.j = at.j /\ at'.i = at.i + 1 /\ Current' = Current /\ InBuffer' = InBuffer
      /\ at' \in [j : 0 .. Len(MasksInOrder) + 1, i : Nat]
  BY <1>0, <1>2 DEF Current, InBuffer
<1>4. InBuffer \in Seq(Records) /\ at.i + 1 \in DOMAIN InBuffer
  BY <1>0, <1>1, <1>2 DEF InBuffer, Types, SoftType
<1>5. r0 \in Entries(InBuffer) /\ r0 \in Records
  BY <1>4 DEF Entries
<1>6. r0 \in DOMAIN words /\ MaskOf(words[r0]) = Current /\ Distinct(InBuffer)
  BY <1>1, <1>2, <1>5 DEF Building, Soft, InBuffer
<1>7. ~Given(r0)
  <2>1. ASSUME NEW n \in 1 .. at.i, InBuffer[n] = r0 PROVE FALSE
    <3>1. n \in DOMAIN InBuffer /\ n # at.i + 1
      BY <1>0, <1>2, <1>4
    <3> QED
      BY <1>4, <1>6, <2>1, <3>1 DEF Distinct
  <2> QED
    BY <2>1 DEF Given
<1>8. Awaiting(r0)
  BY <1>2, <1>5, <1>7 DEF Awaiting, InBuffer
<1>9. \A r : Given(r)' <=> Given(r) \/ r = r0
  <2>1. \A n : n \in 1 .. at.i + 1 <=> n \in 1 .. at.i \/ n = at.i + 1
    BY <1>2
  <2> QED
    BY <1>0, <1>3, <2>1 DEF Given
<1>10. \A r : Awaiting(r)' <=> Awaiting(r) /\ r # r0
  BY <1>0, <1>9 DEF Awaiting
<1>11. Root(Current) \in Nodes /\ OnRoute(Root(Current), words[r0])
  <2>1. words[r0] \in Words /\ fbl[MaskOf(words[r0])].initialized
    BY <1>1, <1>6 DEF Types, Statics, Routes
  <2> QED
    BY <1>1, <1>6, <2>1, RootThere
<1>12. call \in CallType
  BY <1>1, <1>5, <1>11, NodeFacts DEF CallType
<1>13. /\ adding' \in Seq(CallType) /\ Entries(adding') = {call}
       /\ Hand' = <<r0>> /\ Entries(Hand') = {r0} /\ Distinct(Hand') /\ adding' # <<>>
  <2>1. <<call>> \in Seq(CallType) /\ Entries(<<call>>) = {call} /\ RecordsOf(<<call>>) = <<call.record>>
    BY <1>12, OneCall
  <2>2. Hand' = <<r0>>
    BY <1>0, <2>1 DEF Hand
  <2>3. Entries(<<r0>>) = {r0} /\ Distinct(<<r0>>)
    BY OneEntry
  <2>4. <<call>> # <<>>
    OBVIOUS
  <2> QED
    BY <1>0, <2>1, <2>2, <2>3, <2>4
<1>14. Types'
  BY <1>0, <1>1, <1>3, <1>13 DEF Types, Nodes
<1>15. /\ Statics' /\ Nodes' = Nodes /\ Leaves' = Leaves
       /\ \A q \in Nodes : \A sax : OnRoute(q, sax)' <=> OnRoute(q, sax)
  BY <1>0, <1>1, <1>14, TreeUnchanged
<1>16. Soft'
  BY <1>0, <1>1 DEF Building, Soft
<1>17. Loop'
  <2>1. at.i + 1 <= Len(InBuffer) /\ at.i + 1 # 0
    BY <1>2, <1>4
  <2> QED
    BY <1>0, <1>1, <1>3, <2>1 DEF Building, Loop
<1>18. Calls'
  <2>1. GoodCall(call)'
    BY <1>0, <1>3, <1>6, <1>9, <1>10, <1>11, <1>15 DEF GoodCall
  <2> QED
    BY <1>13, <2>1 DEF Calls
<1>19. \A p \in Leaves : HeldBy(tree[p])' = HeldBy(tree[p])
  BY <1>0 DEF HeldBy, PartialFile, ReadFile
<1>20. ASSUME NEW p \in Leaves PROVE LeafBuild(p)'
  <2>1. LeafBuild(p)
    BY <1>1 DEF Building
  <2>2. p \in Nodes
    BY LeafIsNode
  <2>3. at'.i # 0
    BY <1>2, <1>3
  <2>4. \A r \in Entries(tree'[p].buffer[Partial].records) : Given(r)'
    BY <1>0, <1>9, <2>1 DEF LeafBuild
  <2>5. ASSUME NEW r \in Entries(HeldBy(tree[p]))
        PROVE  /\ r \in DOMAIN words' /\ OnRoute(p, words[r])'
               /\ ~Awaiting(r)' /\ r \notin Entries(Hand')
    <3>1. r \in DOMAIN words /\ OnRoute(p, words[r]) /\ ~Awaiting(r)
      BY <2>1, <2>5 DEF LeafBuild
    <3>2. r # r0
      BY <1>8, <3>1
    <3> QED
      BY <1>0, <1>10, <1>13, <1>15, <2>2, <3>1, <3>2
  <2> QED
    BY <1>0, <1>3, <1>19, <2>1, <2>3, <2>4, <2>5 DEF LeafBuild, PartOf
<1>21. Owned'
  BY <1>0, <1>1, <1>15 DEF Building, Owned, PartOf
<1>22. Kept'
  <2>1. Entries(Hand) = {}
    BY <1>0, NoEntries DEF Hand, RecordsOf, Entries
  <2> QED
    BY <1>0, <1>1, <1>10, <1>13, <1>15, <1>19, <2>1 DEF Building, Kept
<1> QED
  BY <1>0, <1>1, <1>15, <1>16, <1>17, <1>18, <1>20, <1>21, <1>22 DEF DiskInv, Main, Building

\* A step of the loop of flush_fbl over the soft buffers that has nothing to
\* flush.
LEMMA LoopMoves ==
    ASSUME DiskInv, ~exited, phase = "build", adding = <<>>, at.i = 0,
           UNCHANGED <<words, fbl, tree, files, index_idx, adding, loading, phase, exited, stale, torn>>,
           at' \in [j : 0 .. Len(MasksInOrder) + 1, i : Nat], at'.i = 0,
           \A k \in DOMAIN MasksInOrder : k < at'.j => fbl[MasksInOrder[k]].records = <<>>,
           hard' = hard \/ (hard' = <<>> /\ \A m \in Masks : fbl[m].records = <<>>)
    PROVE  DiskInv'
<1>1. Statics /\ Types /\ Building
  BY BuildingNow
<1>2. hard' \in Seq(Records)
  <2>1. hard \in Seq(Records) /\ <<>> \in Seq(Records)
    BY <1>1 DEF Types
  <2> QED
    BY <2>1
<1>3. Types'
  BY <1>1, <1>2 DEF Types, Nodes
<1>4. /\ Statics' /\ Nodes' = Nodes /\ Leaves' = Leaves
      /\ \A q \in Nodes : \A sax : OnRoute(q, sax)' <=> OnRoute(q, sax)
  BY <1>1, <1>3, TreeUnchanged
<1>5. 1 .. at.i = {} /\ 1 .. at'.i = {}
  OBVIOUS
<1>6. \A r : ~Given(r) /\ ~Given(r)'
  BY <1>5 DEF Given
<1>7. \A r : Awaiting(r)' <=> Awaiting(r)
  BY <1>6 DEF Awaiting
<1>8. Soft'
  <2>1. CASE hard' = hard
    BY <1>1, <2>1 DEF Building, Soft
  <2>2. CASE hard' = <<>> /\ \A m \in Masks : fbl[m].records = <<>>
    BY <2>2, NoEntries DEF Soft
  <2> QED
    BY <2>1, <2>2
<1>9. Loop'
  <2>1. at'.j \in DOMAIN MasksInOrder => 0 <= Len(InBuffer')
    <3>1. ASSUME at'.j \in DOMAIN MasksInOrder PROVE InBuffer' \in Seq(Records)
      BY <1>1, <3>1, MasksAssumption DEF InBuffer, Current, Types, SoftType
    <3> QED
      BY <3>1
  <2> QED
    BY <2>1 DEF Loop
<1>10. Hand' = Hand /\ Entries(adding) = {} /\ Distinct(Hand)
  BY <1>1, NoEntries DEF Hand, Building, Calls
<1>11. Calls'
  BY <1>10 DEF Calls
<1>12. \A p \in Leaves : HeldBy(tree[p])' = HeldBy(tree[p])
  BY DEF HeldBy, PartialFile, ReadFile
<1>13. ASSUME NEW p \in Leaves PROVE LeafBuild(p)'
  <2>1. LeafBuild(p)
    BY <1>1 DEF Building
  <2>2. p \in Nodes
    BY LeafIsNode
  <2>3. FlushedPartial(tree[p].buffer) = <<>>
    BY <2>1 DEF LeafBuild
  <2>4. \A r \in Entries(tree[p].buffer[Partial].records) : FALSE
    BY <1>6, <2>1 DEF LeafBuild
  <2>5. ASSUME NEW r \in Entries(HeldBy(tree[p]))
        PROVE  /\ r \in DOMAIN words' /\ OnRoute(p, words[r])'
               /\ ~Awaiting(r)' /\ r \notin Entries(Hand')
    <3>1. r \in DOMAIN words /\ OnRoute(p, words[r]) /\ ~Awaiting(r) /\ r \notin Entries(Hand)
      BY <2>1, <2>5 DEF LeafBuild
    <3> QED
      BY <1>4, <1>7, <1>10, <2>2, <3>1
  <2> QED
    BY <1>12, <2>1, <2>3, <2>4, <2>5 DEF LeafBuild, PartOf
<1>14. Owned'
  BY <1>1, <1>4 DEF Building, Owned, PartOf
<1>15. Kept'
  BY <1>1, <1>4, <1>7, <1>10, <1>12 DEF Building, Kept
<1> QED
  BY <1>1, <1>4, <1>8, <1>9, <1>11, <1>13, <1>14, <1>15 DEF DiskInv, Main, Building

LEMMA FlushFblStep == ASSUME DiskInv, FlushFbl PROVE DiskInv'
<1>0. /\ at = NotFlushing /\ ~exited /\ phase = "build" /\ at' = [j |-> 1, i |-> 0]
      /\ UNCHANGED <<words, hard, fbl, tree, files, index_idx, adding, loading, phase, exited, stale, torn>>
  BY DEF FlushFbl, Idle, memory
<1>1. Building
  BY <1>0, BuildingNow
<1>2. DOMAIN MasksInOrder = 1 .. Len(MasksInOrder) /\ Len(MasksInOrder) \in Nat
  BY MasksAssumption
<1>3. at.j = 0 /\ at.i = 0 /\ at.j \notin DOMAIN MasksInOrder
  BY <1>0, <1>2 DEF NotFlushing
<1>4. adding = <<>>
  BY <1>1, <1>3 DEF Building, Loop
<1>5. at' \in [j : 0 .. Len(MasksInOrder) + 1, i : Nat] /\ at'.i = 0 /\ at'.j = 1
  BY <1>0, <1>2
<1>6. \A k \in DOMAIN MasksInOrder : ~(k < at'.j)
  BY <1>2, <1>5
<1> QED
  BY <1>0, <1>3, <1>4, <1>5, <1>6, LoopMoves

\* At the end of flush_fbl all soft buffers have been emptied.
LEMMA ResetStep == ASSUME DiskInv, Reset PROVE DiskInv'
<1>0. /\ at.j = Len(MasksInOrder) + 1 /\ ~exited /\ hard' = <<>> /\ at' = NotFlushing
      /\ UNCHANGED <<words, fbl, tree, files, index_idx, adding, loading, phase, exited, stale, torn>>
  BY DEF Reset
<1>1. Building /\ phase = "build"
  BY <1>0, BuildingNow
<1>2. DOMAIN MasksInOrder = 1 .. Len(MasksInOrder) /\ Len(MasksInOrder) \in Nat
  BY MasksAssumption
<1>3. at.j \notin DOMAIN MasksInOrder
  BY <1>0, <1>2
<1>4. adding = <<>> /\ at.i = 0
  BY <1>1, <1>3 DEF Building, Loop
<1>5. at' \in [j : 0 .. Len(MasksInOrder) + 1, i : Nat] /\ at'.i = 0 /\ at'.j = 0
  BY <1>0, <1>2 DEF NotFlushing
<1>6. \A k \in DOMAIN MasksInOrder : ~(k < at'.j)
  BY <1>2, <1>5
<1>7. \A m \in Masks : fbl[m].records = <<>>
  <2> SUFFICES ASSUME NEW m \in Masks PROVE fbl[m].records = <<>>
    OBVIOUS
  <2>1. PICK k \in DOMAIN MasksInOrder : MasksInOrder[k] = m
    BY MasksAssumption
  <2>2. k < at.j
    BY <1>0, <1>2
  <2> QED
    BY <1>1, <2>1, <2>2 DEF Building, Loop
<1> QED
  BY <1>0, <1>1, <1>4, <1>5, <1>6, <1>7, LoopMoves

\* What insert_to_fbl does to the tree: the root of a mask that is new.
LEMMA InsertTree ==
    ASSUME Statics, NEW sax \in Words, NEW m, m = MaskOf(sax), words' = Append(words, sax),
           Nodes' = Nodes \cup {Root(m)},
           \A q \in Nodes : tree'[q] = tree[q],
           Root(m) \notin Nodes => tree'[Root(m)] = [NewLeaf EXCEPT !.has_parent = FALSE],
           Root(m) \notin Nodes => ~fbl[m].initialized,
           \A k \in Masks : fbl'[k].initialized <=> fbl[k].initialized \/ k = m
    PROVE  /\ Leaves' = Leaves \cup (IF Root(m) \in Nodes THEN {} ELSE {Root(m)})
           /\ \A q \in Nodes : \A w : OnRoute(q, w)' <=> OnRoute(q, w)
           /\ Shape' /\ Routes' /\ SplitBits' /\ Boxed'
<1> PICK root : root = Root(m)
  OBVIOUS
<1>0. Types /\ Shape /\ Routes /\ SplitBits /\ Boxed /\ m \in Masks
  BY MaskOfType DEF Statics
<1>1. root = <<m>> /\ root[1] = m /\ Len(root) = 1 /\ root \in Paths /\ root # <<>>
  BY <1>0 DEF Root, Paths
<1>2. root \notin Nodes => tree'[root].is_leaf /\ tree'[root].box = NoBox
  BY DEF NewLeaf
<1>3. Leaves' = Leaves \cup (IF root \in Nodes THEN {} ELSE {root})
  BY <1>2 DEF Leaves
<1>4. \A q \in Nodes : /\ InheritedMask(q)' = InheritedMask(q)
                       /\ \A d \in 1 .. Len(q) - 1 :
                              tree'[Pre(q, d)].split_mask = tree[Pre(q, d)].split_mask
                       /\ \A w : OnRoute(q, w)' <=> OnRoute(q, w)
  BY <1>0, Frame
<1>5. \A q \in Nodes : fbl'[q[1]].initialized
  BY <1>0 DEF Shape
<1>6. root \notin Nodes => \A q \in Nodes : q[1] # m
  BY <1>0 DEF Shape
<1>7. \A q \in Nodes \ Leaves : q \in Nodes' \ Leaves'
  BY <1>3
<1>8. Shape'
  <2>1. ASSUME NEW q \in Nodes'
        PROVE  /\ q \in Paths /\ q # <<>> /\ q[1] \in Masks /\ fbl'[q[1]].initialized
               /\ \A d \in 1 .. Len(q) - 1 : Pre(q, d) \in Nodes' \ Leaves'
    <3>1. CASE q \in Nodes
      BY <1>0, <1>5, <1>7, <3>1 DEF Shape
    <3>2. CASE q = root
      BY <1>0, <1>1, <3>2
    <3> QED
      BY <3>1, <3>2
  <2>2. ASSUME NEW q \in Nodes' \ Leaves'
        PROVE  /\ Append(q, 0) \in Nodes' /\ Append(q, 1) \in Nodes'
               /\ tree'[q].splitpoint \in Segments
    <3>1. q \in Nodes \ Leaves
      BY <1>3
    <3> QED
      BY <1>0, <3>1 DEF Shape
  <2> QED
    BY <2>1, <2>2 DEF Shape
<1>9. Routes'
  <2>1. ASSUME NEW p \in Leaves', NEW q \in Nodes' PROVE Above(q, p) \/ \E d \in Nat : Part(p, q, d)
    <3>1. CASE p \in Leaves /\ q \in Nodes
      BY <1>0, <3>1 DEF Routes
    <3>2. CASE p = q
      <4>1. p \in Paths
        BY <1>8 DEF Shape, Leaves
      <4> QED
        BY <3>2, <4>1, PrefixFacts DEF Above, Paths
    <3>3. ASSUME p[1] # q[1] PROVE Part(p, q, 0)
      <4>1. p \in Paths /\ q \in Paths /\ p # <<>> /\ q # <<>>
        BY <1>8 DEF Shape, Leaves
      <4>2. Len(p) > 0 /\ Len(q) > 0 /\ Pre(p, 0) = Pre(q, 0)
        <5>1. Pre(p, 0) = <<>> /\ Pre(q, 0) = <<>>
          BY <4>1 DEF Pre, Paths
        <5> QED
          BY <4>1, <5>1 DEF Paths
      <4> QED
        BY <3>3, <4>2 DEF Part
    <3>4. root \notin Nodes /\ ((p = root /\ q \in Nodes) \/ (p \in Leaves /\ q = root)) => p[1] # q[1]
      BY <1>1, <1>6, LeafIsNode
    <3> QED
      BY <1>3, <3>1, <3>2, <3>3, <3>4, LeafIsNode
  <2>2. ASSUME NEW w \in Words, fbl'[MaskOf(w)].initialized PROVE \E p \in Leaves' : OnRoute(p, w)'
    <3>1. CASE fbl[MaskOf(w)].initialized
      <4>1. PICK p \in Leaves : OnRoute(p, w)
        BY <1>0, <3>1 DEF Routes
      <4> QED
        BY <1>3, <1>4, <4>1, LeafIsNode
    <3>2. CASE ~fbl[MaskOf(w)].initialized
      <4>1. MaskOf(w) = m /\ root \notin Nodes
        <5>1. MaskOf(w) = m
          BY <2>2, <3>2, MaskOfType
        <5> QED
          BY <1>0, <1>1, <3>2, <5>1 DEF Shape
      <4>2. OnRoute(root, w)'
        BY <1>1, <4>1 DEF OnRoute
      <4> QED
        BY <1>3, <4>1, <4>2
    <3> QED
      BY <3>1, <3>2
  <2>3. ASSUME NEW r \in DOMAIN words' PROVE fbl'[MaskOf(words'[r])].initialized
    <3>1. CASE r \in DOMAIN words
      <4>1. words'[r] = words[r] /\ words[r] \in Words
        BY <1>0, <3>1 DEF Types
      <4> QED
        BY <1>0, <3>1, <4>1, MaskOfType DEF Routes
    <3>2. CASE r \notin DOMAIN words
      <4>1. words'[r] = sax
        BY <1>0, <3>2 DEF Types
      <4> QED
        BY <1>0, <4>1
    <3> QED
      BY <3>1, <3>2
  <2> QED
    BY <2>1, <2>2, <2>3 DEF Routes
<1>10. SplitBits'
  <2>1. ASSUME NEW q \in Nodes', q \notin Nodes
        PROVE  /\ 1 .. Len(q) - 1 = {}
               /\ InheritedMask(q)' = [s \in Segments |-> 0]
               /\ \A v \in Words : OnRoute(q, v)' => MaskOf(v) = m
    <3>1. q = root
      BY <2>1
    <3> QED
      BY <1>1, <3>1 DEF InheritedMask, OnRoute
  <2>2. ASSUME NEW q \in Nodes', q \notin Nodes, NEW v \in Words, NEW w \in Words,
               OnRoute(q, v)', OnRoute(q, w)', NEW s \in Segments,
               NEW b \in 1 .. InheritedMask(q)'[s] + 1
        PROVE  v[s][b] = w[s][b]
    <3>1. b = 1 /\ MaskOf(v) = MaskOf(w)
      BY <2>1, <2>2
    <3> QED
      BY <3>1, MaskOfType
  <2> QED
    BY <1>0, <1>4, <2>1, <2>2 DEF SplitBits
<1>11. Boxed'
  BY <1>0, <1>2, <1>4 DEF Boxed
<1> QED
  BY <1>3, <1>4, <1>8, <1>9, <1>10, <1>11

LEMMA NewLeafFacts ==
    /\ NewLeaf \in NodeType /\ NewLeaf.is_leaf /\ NewLeaf.box = NoBox /\ NewLeaf.leaf_size = 0
    /\ NewLeaf.buffer = NewBuffer /\ ~NewLeaf.has_full /\ ~NewLeaf.has_partial
<1>1. [s \in Segments |-> 0] \in [Segments -> 0 .. Bits - 1]
  BY BitsAssumption
<1> QED
  BY <1>1, NewBufferType DEF NewLeaf, NodeType, BoxTypes

\* A leaf nobody has added to.
LEMMA FreshLeaf ==
    ASSUME NEW n, n.buffer = NewBuffer, ~n.has_partial
    PROVE  /\ HeldBy(n) = <<>> /\ FlushedPartial(n.buffer) = <<>> /\ NoGrowth(n)
           /\ n.buffer[Full].records = <<>> /\ n.buffer[TmpFull].records = <<>>
           /\ n.buffer[Partial].records = <<>>
<1>1. /\ Full \in Modes /\ TmpFull \in Modes /\ Partial \in Modes /\ TmpPartial \in Modes
  BY DEF Modes
<1>2. \A m \in Modes : n.buffer[m].records = <<>> /\ Fresh(n.buffer[m])
  BY NewBufferType
<1>3. <<>> \o <<>> = <<>>
  BY NoneAdded
<1> QED
  BY <1>1, <1>2, <1>3 DEF HeldBy, FlushedPartial, PartialFile, NoGrowth

LEMMA InsertToFblStep ==
    ASSUME DiskInv, NEW sax \in InputWords, InsertToFbl(sax)
    PROVE  DiskInv'
<1> PICK m : m = MaskOf(sax)
  OBVIOUS
<1> PICK record : record = Len(words) + 1
  OBVIOUS
<1> PICK soft : soft = [initialized |-> TRUE,
                        records |-> Append(fbl[m].records, record),
                        max |-> IF Len(fbl[m].records) < fbl[m].max THEN fbl[m].max
                                ELSE IF fbl[m].max = 0 THEN InitialFblBufferSize
                                ELSE 2 * fbl[m].max]
  OBVIOUS
<1>0. /\ at = NotFlushing /\ ~exited /\ phase = "build"
      /\ words' = Append(words, sax) /\ hard' = Append(hard, record)
      /\ fbl' = [fbl EXCEPT ![m] = soft]
      /\ fbl[m].initialized => tree' = tree
      /\ ~fbl[m].initialized =>
             tree' = [p \in Nodes \cup {Root(m)} |->
                          IF p = Root(m) THEN [NewLeaf EXCEPT !.has_parent = FALSE] ELSE tree[p]]
      /\ UNCHANGED <<files, index_idx, at, adding, loading, phase, exited, stale, torn>>
  BY DEF InsertToFbl, Idle, calls
<1>1. Statics /\ Types /\ Shape /\ Building
  BY <1>0, BuildingNow
<1>2. sax \in Words /\ m \in Masks
  BY InputAssumption, MaskOfType
<1>3. at.j \notin DOMAIN MasksInOrder /\ at.j = 0 /\ at.i = 0
  BY <1>0, MasksAssumption DEF NotFlushing
<1>4. adding = <<>> /\ \A r : ~Given(r) /\ ~Given(r)'
  BY <1>0, <1>1, <1>3 DEF Building, Loop, Given
<1>5. /\ words' \in Seq(Words) /\ DOMAIN words' = DOMAIN words \cup {record}
      /\ \A r \in DOMAIN words : words'[r] = words[r]
      /\ words'[record] = sax /\ record \notin DOMAIN words /\ record \in Records
  <2>1. words \in Seq(Words)
    BY <1>1 DEF Types
  <2>2. /\ words' \in Seq(Words) /\ DOMAIN words' = 1 .. Len(words) + 1
        /\ DOMAIN words = 1 .. Len(words) /\ Len(words) \in Nat
        /\ \A r \in DOMAIN words : words'[r] = words[r]
        /\ words'[Len(words) + 1] = sax
    BY <1>0, <1>2, <2>1
  <2> QED
    BY <2>2 DEF Records
<1>6. /\ hard' \in Seq(Records) /\ Entries(hard') = Entries(hard) \cup {record}
  BY <1>0, <1>1, <1>5, AppendEntries DEF Types
<1>7. fbl[m] \in SoftType /\ fbl[m].records \in Seq(Records) /\ fbl[m].max \in Nat
  BY <1>1, <1>2 DEF Types, SoftType
<1>8. /\ soft.initialized /\ soft.records \in Seq(Records)
      /\ Entries(soft.records) = Entries(fbl[m].records) \cup {record}
      /\ record \notin Entries(fbl[m].records) /\ Distinct(fbl[m].records) => Distinct(soft.records)
  <2>1. soft.initialized /\ soft.records = Append(fbl[m].records, record)
    OBVIOUS
  <2> QED
    BY <1>5, <1>7, <2>1, AppendEntries
<1>9. soft \in SoftType
  <2>1. soft.max \in Nat
    BY <1>7, FblBufferAssumption
  <2>2. Append(fbl[m].records, record) \in Seq(Records)
    BY <1>5, <1>7, AppendEntries
  <2> QED
    BY <2>1, <2>2 DEF SoftType
<1>10. /\ fbl' \in [Masks -> SoftType] /\ fbl'[m] = soft
       /\ \A k \in Masks : k # m => fbl'[k] = fbl[k]
  BY <1>0, <1>1, <1>2, <1>9 DEF Types
<1>11. Root(m) \in Nodes <=> fbl[m].initialized
  <2>1. fbl[m].initialized => Root(m) \in Nodes
    BY <1>1, <1>2, RootThere
  <2>2. Root(m) \in Nodes => fbl[m].initialized
    BY <1>1 DEF Shape, Root
  <2> QED
    BY <2>1, <2>2
<1>12. /\ Nodes' = Nodes \cup {Root(m)}
       /\ \A q \in Nodes : tree'[q] = tree[q]
       /\ Root(m) \notin Nodes => tree'[Root(m)] = [NewLeaf EXCEPT !.has_parent = FALSE]
       /\ tree' = [q \in Nodes' |-> tree'[q]]
  <2>1. CASE fbl[m].initialized
    <3>1. Nodes' = Nodes /\ tree' = tree
      BY <1>0, <2>1 DEF Nodes
    <3>2. tree = [q \in Nodes |-> tree[q]]
      BY <1>1 DEF Types
    <3> QED
      BY <1>11, <2>1, <3>1, <3>2
  <2>2. CASE ~fbl[m].initialized
    BY <1>0, <1>11, <2>2 DEF Nodes
  <2> QED
    BY <2>1, <2>2
<1> PICK leaf : leaf = [NewLeaf EXCEPT !.has_parent = FALSE]
  OBVIOUS
<1>13. /\ leaf \in NodeType /\ leaf.is_leaf /\ leaf.box = NoBox /\ leaf.leaf_size = 0
       /\ leaf.buffer = NewBuffer /\ ~leaf.has_full /\ ~leaf.has_partial
  BY NewLeafFacts DEF NodeType, NewLeaf
<1>14. tree' \in [Nodes' -> NodeType]
  <2>1. \A q \in Nodes' : tree'[q] \in NodeType
    BY <1>1, <1>12, <1>13 DEF Types
  <2> QED
    BY <1>12, <2>1
<1>15. Types'
  BY <1>0, <1>1, <1>5, <1>6, <1>10, <1>14 DEF Types
<1>16. \A k \in Masks : fbl'[k].initialized <=> fbl[k].initialized \/ k = m
  BY <1>8, <1>10
<1>17. /\ Leaves' = Leaves \cup (IF Root(m) \in Nodes THEN {} ELSE {Root(m)})
       /\ \A q \in Nodes : \A w : OnRoute(q, w)' <=> OnRoute(q, w)
       /\ Shape' /\ Routes' /\ SplitBits' /\ Boxed'
  BY <1>0, <1>1, <1>2, <1>11, <1>12, <1>16, InsertTree
<1>18. Statics'
  BY <1>15, <1>17 DEF Statics
<1>19. \A r : Awaiting(r)' <=> Awaiting(r) \/ r = record
  <2>1. \A r : Awaiting(r) <=> \E k \in Masks : r \in Entries(fbl[k].records)
    BY <1>4 DEF Awaiting
  <2>2. \A r : Awaiting(r)' <=> \E k \in Masks : r \in Entries(fbl'[k].records)
    BY <1>4 DEF Awaiting
  <2>3. \A k \in Masks : \A r : r \in Entries(fbl'[k].records) <=>
                r \in Entries(fbl[k].records) \/ (k = m /\ r = record)
    <3>1. ASSUME NEW k \in Masks, k # m PROVE fbl'[k].records = fbl[k].records
      BY <1>10, <3>1
    <3>2. fbl'[m].records = soft.records
      BY <1>10
    <3>3. \A r : r \in Entries(fbl'[m].records) <=> r \in Entries(fbl[m].records) \/ r = record
      BY <1>8, <3>2
    <3>4. ASSUME NEW k \in Masks, k # m, NEW r
          PROVE  r \in Entries(fbl'[k].records) <=> r \in Entries(fbl[k].records)
      BY <3>1, <3>4
    <3> QED
      BY <3>3, <3>4
  <2> QED
    BY <1>2, <2>1, <2>2, <2>3
<1>20. Soft'
  <2>1. ASSUME NEW k \in Masks
        PROVE  /\ Distinct(fbl'[k].records)
               /\ fbl'[k].records # <<>> => fbl'[k].initialized
               /\ \A r \in Entries(fbl'[k].records) :
                      r \in DOMAIN words' /\ MaskOf(words'[r]) = k /\ r \in Entries(hard')
    <3>1. /\ Distinct(fbl[k].records)
          /\ fbl[k].records # <<>> => fbl[k].initialized
          /\ \A r \in Entries(fbl[k].records) :
                 r \in DOMAIN words /\ MaskOf(words[r]) = k /\ r \in Entries(hard)
      BY <1>1 DEF Building, Soft
    <3>2. CASE k # m
      BY <1>5, <1>6, <1>10, <3>1, <3>2
    <3>3. CASE k = m
      <4>1. record \notin Entries(fbl[m].records)
        BY <1>5, <3>1, <3>3
      <4>2. Distinct(fbl'[k].records) /\ fbl'[k].initialized
        BY <1>8, <1>10, <3>1, <3>3, <4>1
      <4>3. \A r \in Entries(fbl'[k].records) : r \in Entries(fbl[m].records) \/ r = record
        BY <1>8, <1>10, <3>3
      <4> QED
        BY <1>5, <1>6, <3>1, <3>3, <4>2, <4>3
    <3> QED
      BY <3>2, <3>3
  <2>2. Entries(hard') \subseteq DOMAIN words'
    BY <1>1, <1>5, <1>6 DEF Building, Soft
  <2> QED
    BY <2>1, <2>2 DEF Soft
<1>21. Loop'
  <2>1. \A k \in DOMAIN MasksInOrder : ~(k < at.j)
    BY <1>3, MasksAssumption
  <2> QED
    BY <1>0, <1>3, <1>4, <2>1 DEF Loop
<1>22. Hand' = Hand /\ Entries(adding) = {} /\ Distinct(Hand) /\ Entries(Hand) = {}
  <2>1. DOMAIN Hand = {}
    BY <1>4 DEF Hand, RecordsOf
  <2> QED
    BY <1>0, <1>4, <2>1, NoEntries DEF Hand, Distinct, Entries
<1>23. Calls'
  BY <1>0, <1>22, SMTT(30) DEF Calls
<1>24. \A p \in Leaves : HeldBy(tree[p])' = HeldBy(tree[p])
  BY <1>0, <1>12, LeafIsNode DEF HeldBy, PartialFile, ReadFile
<1>25. ASSUME NEW p \in Leaves PROVE LeafBuild(p)'
  <2>1. LeafBuild(p)
    BY <1>1 DEF Building
  <2>2. p \in Nodes /\ tree'[p] = tree[p]
    BY <1>12, LeafIsNode
  <2>3. FlushedPartial(tree[p].buffer) = <<>>
    BY <1>3, <2>1 DEF LeafBuild
  <2>4. \A r \in Entries(tree[p].buffer[Partial].records) : FALSE
    BY <1>4, <2>1 DEF LeafBuild
  <2>5. ASSUME NEW r \in Entries(HeldBy(tree[p]))
        PROVE  /\ r \in DOMAIN words' /\ OnRoute(p, words[r])'
               /\ ~Awaiting(r)' /\ r \notin Entries(Hand')
    <3>1. r \in DOMAIN words /\ OnRoute(p, words[r]) /\ ~Awaiting(r) /\ r \notin Entries(Hand)
      BY <2>1, <2>5 DEF LeafBuild
    <3>2. r # record /\ words'[r] = words[r]
      BY <1>5, <3>1
    <3> QED
      BY <1>5, <1>17, <1>19, <1>22, <2>2, <3>1, <3>2
  <2> QED
    BY <1>0, <1>24, <2>1, <2>2, <2>3, <2>4, <2>5 DEF LeafBuild, PartOf
<1>26. ASSUME Root(m) \notin Nodes PROVE LeafBuild(Root(m))'
  <2>1. tree'[Root(m)] = leaf
    BY <1>12, <1>26
  <2>2. /\ HeldBy(leaf)' = <<>> /\ FlushedPartial(leaf.buffer) = <<>> /\ NoGrowth(leaf)
        /\ leaf.buffer[Full].records = <<>> /\ leaf.buffer[TmpFull].records = <<>>
        /\ leaf.buffer[Partial].records = <<>>
    <3>1. HeldBy(leaf)' = FlushedPartial(leaf.buffer) \o <<>>
      BY <1>13 DEF HeldBy, PartialFile
    <3>2. HeldBy(leaf) = FlushedPartial(leaf.buffer) \o <<>>
      BY <1>13 DEF HeldBy, PartialFile
    <3> QED
      BY <1>13, <3>1, <3>2, FreshLeaf
  <2>3. HeldBy(tree[Root(m)])' = <<>>
    BY <2>1, <2>2 DEF HeldBy, PartialFile, ReadFile
  <2>4. Len(<<>>) = 0 /\ 0 <= MaxLeafSize
    BY MaxLeafSizeAssumption
  <2> QED
    BY <1>13, <2>1, <2>2, <2>3, <2>4, NoEntries DEF LeafBuild
<1>27. \A p \in Leaves' : LeafBuild(p)'
  BY <1>17, <1>25, <1>26
<1>28. Owned'
  <2>1. \A p \in Leaves : p \in Leaves' /\ tree'[p] = tree[p]
    BY <1>12, <1>17, LeafIsNode
  <2> QED
    BY <1>0, <1>1, <2>1 DEF Building, Owned, PartOf
<1>29. Kept'
  <2>1. \A p \in Leaves : p \in Leaves'
    BY <1>17
  <2> QED
    BY <1>1, <1>5, <1>19, <1>22, <1>24, <2>1 DEF Building, Kept
<1> QED
  BY <1>0, <1>1, <1>18, <1>20, <1>21, <1>23, <1>27, <1>28, <1>29 DEF DiskInv, Main, Building
-----------------------------------------------------------------------------
(* add_record_to_node.                                                     *)

\* The call that is made next.
LEMMA FirstCall ==
    ASSUME DiskInv, ~exited, adding # <<>>, NEW task, task = Head(adding),
           NEW p, p = LeafFor(task.from, words[task.record])
    PROVE  /\ Statics /\ phase = "build" /\ Building
           /\ task \in CallType /\ GoodCall(task) /\ words[task.record] \in Words
           /\ Tail(adding) \in Seq(CallType)
           /\ \A c \in Entries(Tail(adding)) : c \in CallType /\ GoodCall(c)
           /\ task.record \in Entries(Hand)
           /\ \A r : r \in Entries(Hand) <=> r = task.record \/ r \in Entries(RecordsOf(Tail(adding)))
           /\ Distinct(RecordsOf(Tail(adding)))
           /\ task.record \notin Entries(RecordsOf(Tail(adding)))
           /\ p \in Leaves /\ p \in Nodes /\ OnRoute(p, words[task.record])
           /\ at.j \in DOMAIN MasksInOrder /\ at.i # 0 /\ p[1] = Current
<1>1. Statics /\ Types /\ Shape /\ Routes /\ phase = "build" /\ Building
  BY BuildingNow
<1>2. adding \in Seq(CallType)
  BY <1>1 DEF Types
<1> PICK rest : rest = Tail(adding)
  OBVIOUS
<1>3. /\ task \in CallType /\ rest \in Seq(CallType) /\ adding = <<task>> \o rest
      /\ task = adding[1] /\ 1 \in DOMAIN adding
      /\ \A n \in DOMAIN rest : n + 1 \in DOMAIN adding /\ rest[n] = adding[n + 1]
  BY <1>2
<1>4. Distinct(Hand) /\ \A c \in Entries(adding) : GoodCall(c)
  BY <1>1 DEF Building, Calls
<1>5. task \in Entries(adding) /\ \A c \in Entries(rest) : c \in Entries(adding)
  BY <1>3, SMTT(30) DEF Entries
<1>6. \A c \in Entries(rest) : c \in CallType
  BY <1>3 DEF Entries
<1>7. /\ <<task>> \in Seq(CallType) /\ RecordsOf(<<task>>) = <<task.record>>
  BY <1>3, OneCall
<1>8. Hand = <<task.record>> \o RecordsOf(rest)
  <2>1. RecordsOf(<<task>> \o rest) = RecordsOf(<<task>>) \o RecordsOf(rest)
    BY ONLY <1>3, <1>7, RecordsFacts
  <2> QED
    BY <1>3, <1>7, <2>1 DEF Hand
<1> PICK h : h = RecordsOf(rest)
  OBVIOUS
<1> PICK e : e = task.record
  OBVIOUS
<1>9. h \in Seq(Records) /\ e \in Records
  BY <1>3, RecordsFacts DEF CallType
<1>10. <<e>> \in Seq(Records) /\ Entries(<<e>>) = {e}
  BY <1>9, OneEntry
<1>11. /\ Entries(<<e>> \o h) = Entries(<<e>>) \cup Entries(h)
       /\ Distinct(<<e>> \o h) <=> /\ Distinct(<<e>>) /\ Distinct(h)
                                   /\ Entries(<<e>>) \cap Entries(h) = {}
  BY ONLY <1>9, <1>10, ConcatFacts
<1>12. /\ \A r : r \in Entries(Hand) <=> r = e \/ r \in Entries(h)
       /\ Distinct(h) /\ e \notin Entries(h)
  BY <1>4, <1>8, <1>10, <1>11
<1>13. /\ GoodCall(task) /\ task.record \in DOMAIN words /\ task.from \in Nodes
       /\ OnRoute(task.from, words[task.record]) /\ MaskOf(words[task.record]) = Current
  BY <1>4, <1>5 DEF GoodCall
<1>14. words[task.record] \in Words
  BY <1>1, <1>13 DEF Types
<1>15. p \in Leaves /\ OnRoute(p, words[task.record])
  BY <1>1, <1>13, <1>14, LeafForFacts
<1>16. at.j \in DOMAIN MasksInOrder /\ at.i # 0
  BY <1>1 DEF Building, Loop
<1> QED
  BY <1>1, <1>3, <1>4, <1>5, <1>6, <1>12, <1>13, <1>14, <1>15, <1>16, LeafIsNode DEF OnRoute

\* A record more in one of the partial buffers.
LEMMA FlushedOneMore ==
    ASSUME NEW buffer \in BufferType, NEW b \in BufferType, NEW r \in Records,
           NEW mode \in {Partial, TmpPartial},
           b[mode].records = Append(buffer[mode].records, r),
           \A m \in Modes : m # mode => b[m] = buffer[m]
    PROVE  /\ Len(FlushedPartial(b)) = Len(FlushedPartial(buffer)) + 1
           /\ Entries(FlushedPartial(b)) = Entries(FlushedPartial(buffer)) \cup {r}
           /\ Distinct(FlushedPartial(buffer)) /\ r \notin Entries(FlushedPartial(buffer))
                  => Distinct(FlushedPartial(b))
<1> PICK x : x = buffer[Partial].records
  OBVIOUS
<1> PICK y : y = buffer[TmpPartial].records
  OBVIOUS
<1>1. x \in Seq(Records) /\ y \in Seq(Records) /\ FlushedPartial(buffer) = x \o y
  BY DEF BufferType, Modes, FlushedPartial
<1>2. Partial # TmpPartial /\ Partial \in Modes /\ TmpPartial \in Modes
  BY DEF Modes, Partial, TmpPartial
<1>3. /\ Len(x \o y) = Len(x) + Len(y) /\ Entries(x \o y) = Entries(x) \cup Entries(y)
      /\ Distinct(x \o y) <=> Distinct(x) /\ Distinct(y) /\ Entries(x) \cap Entries(y) = {}
  BY ONLY <1>1, ConcatFacts
<1>4. CASE mode = Partial
  <2>1. FlushedPartial(b) = Append(x, r) \o y
    BY <1>2, <1>4 DEF FlushedPartial
  <2> PICK z : z = Append(x, r)
    OBVIOUS
  <2>2. /\ z \in Seq(Records) /\ Len(z) = Len(x) + 1 /\ Entries(z) = Entries(x) \cup {r}
        /\ r \notin Entries(x) /\ Distinct(x) => Distinct(z)
    BY <1>1, AppendEntries
  <2>3. /\ Len(z \o y) = Len(z) + Len(y) /\ Entries(z \o y) = Entries(z) \cup Entries(y)
        /\ Distinct(z \o y) <=> Distinct(z) /\ Distinct(y) /\ Entries(z) \cap Entries(y) = {}
    BY ONLY <1>1, <2>2, ConcatFacts, ZenonT(60)
  <2>4. Len(x) \in Nat /\ Len(y) \in Nat
    BY <1>1
  <2>5. FlushedPartial(b) = z \o y
    BY <2>1
  <2>6. Len(z \o y) = Len(x \o y) + 1
    BY ONLY <1>3, <2>2, <2>3, <2>4
  <2>7. Entries(z \o y) = Entries(x \o y) \cup {r}
    BY ONLY <1>3, <2>2, <2>3
  <2>8. Distinct(x \o y) /\ r \notin Entries(x \o y) => Distinct(z \o y)
    BY ONLY <1>3, <2>2, <2>3
  <2> QED
    BY ONLY <1>1, <2>5, <2>6, <2>7, <2>8
<1>5. CASE mode = TmpPartial
  <2>1. FlushedPartial(b) = x \o Append(y, r)
    BY <1>2, <1>5 DEF FlushedPartial
  <2> PICK z : z = Append(y, r)
    OBVIOUS
  <2>2. /\ z \in Seq(Records) /\ Len(z) = Len(y) + 1 /\ Entries(z) = Entries(y) \cup {r}
        /\ r \notin Entries(y) /\ Distinct(y) => Distinct(z)
    BY <1>1, AppendEntries
  <2>3. /\ Len(x \o z) = Len(x) + Len(z) /\ Entries(x \o z) = Entries(x) \cup Entries(z)
        /\ Distinct(x \o z) <=> Distinct(x) /\ Distinct(z) /\ Entries(x) \cap Entries(z) = {}
    BY ONLY <1>1, <2>2, ConcatFacts
  <2>4. Len(x) \in Nat /\ Len(y) \in Nat
    BY <1>1
  <2>5. FlushedPartial(b) = x \o z
    BY <2>1
  <2>6. Len(x \o z) = Len(x \o y) + 1
    BY ONLY <1>3, <2>2, <2>3, <2>4
  <2>7. Entries(x \o z) = Entries(x \o y) \cup {r}
    BY ONLY <1>3, <2>2, <2>3
  <2>8. Distinct(x \o y) /\ r \notin Entries(x \o y) => Distinct(x \o z)
    BY ONLY <1>3, <2>2, <2>3
  <2> QED
    BY ONLY <1>1, <2>5, <2>6, <2>7, <2>8
<1> QED
  BY <1>4, <1>5

\* What Store makes of its leaf: leaf n with record r.
Stores(one, n, r, mode) ==
    /\ n \in NodeType /\ r \in Records /\ mode \in {Partial, TmpPartial}
    /\ one.box # NoBox /\ (n.box # NoBox => one.box = n.box)
    /\ n.box = NoBox => ~n.has_partial
    /\ n.leaf_size = Len(HeldBy(n)) /\ n.leaf_size < MaxLeafSize /\ NoGrowth(n)
    /\ n.buffer[Full].records = <<>> /\ n.buffer[TmpFull].records = <<>>
    /\ Distinct(HeldBy(n)) /\ r \notin Entries(HeldBy(n))
    /\ one \in NodeType /\ one.leaf_size = n.leaf_size + 1
    /\ one.has_partial = n.has_partial
    /\ one.buffer = AddToNodeBuffer(n.buffer, r, mode)

LEMMA StoreLeaf ==
    ASSUME Types, NEW one, NEW n, NEW r, NEW mode, Stores(one, n, r, mode)
    PROVE  /\ one.leaf_size = Len(HeldBy(one)) /\ one.leaf_size <= MaxLeafSize /\ one.leaf_size # 0
           /\ NoGrowth(one)
           /\ one.buffer[Full].records = <<>> /\ one.buffer[TmpFull].records = <<>>
           /\ Distinct(HeldBy(one))
           /\ Entries(HeldBy(one)) = Entries(HeldBy(n)) \cup {r}
           /\ one.buffer[Partial].records = (IF mode = Partial THEN Append(n.buffer[Partial].records, r)
                                             ELSE n.buffer[Partial].records)
<1>0. /\ n \in NodeType /\ r \in Records /\ mode \in {Partial, TmpPartial}
      /\ one.box # NoBox /\ (n.box # NoBox => one.box = n.box)
      /\ n.box = NoBox => ~n.has_partial
      /\ n.leaf_size = Len(HeldBy(n)) /\ n.leaf_size < MaxLeafSize /\ NoGrowth(n)
      /\ n.buffer[Full].records = <<>> /\ n.buffer[TmpFull].records = <<>>
      /\ Distinct(HeldBy(n)) /\ r \notin Entries(HeldBy(n))
      /\ one \in NodeType /\ one.leaf_size = n.leaf_size + 1
      /\ one.has_partial = n.has_partial
      /\ one.buffer = AddToNodeBuffer(n.buffer, r, mode)
  BY DEF Stores
<1> USE <1>0
<1>1. /\ Full \in Modes /\ TmpFull \in Modes /\ Partial \in Modes /\ TmpPartial \in Modes
      /\ Full # mode /\ TmpFull # mode /\ Partial # TmpPartial /\ mode \in Modes
  BY DEF Modes, Full, TmpFull, Partial, TmpPartial
<1>2. n.buffer \in BufferType /\ one.buffer \in BufferType /\ n.leaf_size \in Nat
  BY NodeParts DEF NodeType
<1>3. n.buffer[mode].records \in Seq(Records) /\ Len(n.buffer[mode].records) < InitialBufferSize
  <2>1. /\ n.buffer[mode].records \in Seq(Records)
        /\ n.buffer[Partial].records \in Seq(Records) /\ n.buffer[TmpPartial].records \in Seq(Records)
        /\ PartialFile(n) \in Seq(Records)
        /\ Len(HeldBy(n)) = Len(n.buffer[Partial].records) + Len(n.buffer[TmpPartial].records)
                                   + Len(PartialFile(n))
    BY <1>1, NodeParts, HeldParts
  <2>2. PICK x, y, z : /\ x = Len(n.buffer[Partial].records)
                       /\ y = Len(n.buffer[TmpPartial].records) /\ z = Len(PartialFile(n))
    OBVIOUS
  <2>3. x \in Nat /\ y \in Nat /\ z \in Nat
    BY <2>1, <2>2, SMTT(30)
  <2>4. n.leaf_size = x + y + z
    BY <2>1, <2>2
  <2>5. x + y + z < MaxLeafSize
    BY <2>4
  <2>6. x < InitialBufferSize /\ y < InitialBufferSize
    BY ONLY <2>3, <2>5, LeafBufferAssumption, InitialBufferSizeAssumption, MaxLeafSizeAssumption
  <2>7. CASE mode = Partial
    BY <2>1, <2>2, <2>6, <2>7
  <2>8. CASE mode = TmpPartial
    BY <2>1, <2>2, <2>6, <2>8
  <2> QED
    BY <2>7, <2>8
<1>4. Fresh(n.buffer[mode])
  BY <1>1 DEF NoGrowth
<1>5. /\ one.buffer[mode].records = Append(n.buffer[mode].records, r)
      /\ \A m \in Modes : m # mode => one.buffer[m] = n.buffer[m]
      /\ Fresh(one.buffer[mode])
  <2>1. PICK t : t = AddToNodeBuffer(n.buffer, r, mode)
    OBVIOUS
  <2>2. /\ t[mode].records = Append(n.buffer[mode].records, r)
        /\ \A m \in Modes : m # mode => t[m] = n.buffer[m]
        /\ Fresh(t[mode])
    BY <1>1, <1>2, <1>3, <1>4, <2>1, AddOne, ZenonT(60)
  <2> QED
    BY <2>1, <2>2
<1>6. NoGrowth(one)
  BY <1>5 DEF NoGrowth
<1> PICK a : a = FlushedPartial(n.buffer)
  OBVIOUS
<1> PICK b : b = FlushedPartial(one.buffer)
  OBVIOUS
<1> PICK c : c = PartialFile(n)
  OBVIOUS
<1>7. /\ Len(b) = Len(a) + 1 /\ Entries(b) = Entries(a) \cup {r}
      /\ Distinct(a) /\ r \notin Entries(a) => Distinct(b)
  BY <1>2, <1>5, FlushedOneMore, ZenonT(60)
<1>8. PartialFile(one) = c
  BY DEF PartialFile
<1>9. HeldBy(n) = a \o c /\ HeldBy(one) = b \o c
  BY <1>8 DEF HeldBy
<1>10. a \in Seq(Records) /\ b \in Seq(Records) /\ c \in Seq(Records)
  BY <1>2, NodeParts, HeldParts
<1>11. /\ Len(a \o c) = Len(a) + Len(c) /\ Entries(a \o c) = Entries(a) \cup Entries(c)
       /\ Distinct(a \o c) <=> Distinct(a) /\ Distinct(c) /\ Entries(a) \cap Entries(c) = {}
  BY ONLY <1>10, ConcatFacts
<1>12. /\ Len(b \o c) = Len(b) + Len(c) /\ Entries(b \o c) = Entries(b) \cup Entries(c)
       /\ Distinct(b \o c) <=> Distinct(b) /\ Distinct(c) /\ Entries(b) \cap Entries(c) = {}
  BY ONLY <1>10, ConcatFacts
<1>13. Len(a) \in Nat /\ Len(c) \in Nat
  BY <1>10
<1>14. one.leaf_size = Len(HeldBy(one))
  BY <1>7, <1>9, <1>11, <1>12, <1>13
<1>15. Distinct(HeldBy(one)) /\ Entries(HeldBy(one)) = Entries(HeldBy(n)) \cup {r}
  BY <1>7, <1>9, <1>11, <1>12
<1>16. one.leaf_size <= MaxLeafSize /\ one.leaf_size # 0
  BY <1>2, MaxLeafSizeAssumption
<1> QED
  BY <1>1, <1>5, <1>6, <1>14, <1>15, <1>16

\* The nodes that Store, Split and the steps of loading make of a node.
NodeStored(n, box, buffer, size) == [n EXCEPT !.box = box, !.buffer = buffer, !.leaf_size = size]
LEMMA StoredInto ==
    ASSUME NEW n \in NodeType, NEW box \in BoxTypes, NEW buffer \in BufferType, NEW size \in Nat,
           NEW one, one = NodeStored(n, box, buffer, size)
    PROVE  /\ one \in NodeType /\ one.is_leaf = n.is_leaf /\ one.box = box
           /\ one.leaf_size = size /\ one.buffer = buffer
           /\ one.has_full = n.has_full /\ one.has_partial = n.has_partial
           /\ one.split_mask = n.split_mask /\ one.splitpoint = n.splitpoint
  BY DEF NodeType, NodeStored

NodeSplit(n, size, buffer, mask, s) ==
    [n EXCEPT !.is_leaf = FALSE, !.leaf_size = size, !.buffer = buffer,
              !.split_mask = mask, !.splitpoint = s]
LEMMA SplitInto ==
    ASSUME NEW n \in NodeType, NEW buffer \in BufferType, NEW size \in Nat,
           NEW mask \in [Segments -> 0 .. Bits - 1], NEW s \in Segments,
           NEW one, one = NodeSplit(n, size, buffer, mask, s)
    PROVE  /\ one \in NodeType /\ ~one.is_leaf /\ one.box = n.box
           /\ one.split_mask = mask /\ one.splitpoint = s
  BY DEF NodeType, NodeSplit

LEMMA StoreStep == ASSUME DiskInv, Store PROVE DiskInv'
<1> PICK task : task = Head(adding)
  OBVIOUS
<1> PICK sax : sax = words[task.record]
  OBVIOUS
<1> PICK p : p = LeafFor(task.from, sax)
  OBVIOUS
<1> PICK n : n = tree[p]
  OBVIOUS
<1> PICK r0 : r0 = task.record
  OBVIOUS
<1>0. /\ adding # <<>> /\ ~exited /\ ~IsFull(n)
      /\ tree' = [tree EXCEPT
               ![p].box = IF @ = NoBox THEN Box(sax, InheritedMask(p)) ELSE @,
               ![p].buffer = AddToNodeBuffer(@, r0, task.mode),
               ![p].leaf_size = @ + 1]
      /\ adding' = Tail(adding)
      /\ UNCHANGED <<words, hard, fbl, files, index_idx, at, loading, phase, exited, stale, torn>>
  BY Zenon DEF Store
<1>1. /\ Statics /\ phase = "build" /\ Building
      /\ task \in CallType /\ GoodCall(task) /\ sax \in Words
      /\ Tail(adding) \in Seq(CallType)
      /\ \A c \in Entries(Tail(adding)) : c \in CallType /\ GoodCall(c)
      /\ r0 \in Entries(Hand)
      /\ \A r : r \in Entries(Hand) <=> r = r0 \/ r \in Entries(RecordsOf(Tail(adding)))
      /\ Distinct(RecordsOf(Tail(adding)))
      /\ r0 \notin Entries(RecordsOf(Tail(adding)))
      /\ p \in Leaves /\ p \in Nodes /\ OnRoute(p, sax)
      /\ at.j \in DOMAIN MasksInOrder /\ at.i # 0 /\ p[1] = Current
  BY <1>0, FirstCall, Zenon
<1>2. Types /\ Shape /\ Routes /\ SplitBits /\ Boxed
  BY <1>1 DEF Statics
<1>3. n \in NodeType /\ LeafBuild(p) /\ n.is_leaf
  BY <1>1, <1>2 DEF Types, Building, Leaves
<1>4. r0 \in Records /\ task.mode \in {Partial, TmpPartial}
  BY <1>1 DEF CallType
<1>5. /\ r0 \in DOMAIN words /\ MaskOf(sax) = Current /\ ~Awaiting(r0)
      /\ task.mode = Partial => Given(r0)
  BY <1>1 DEF GoodCall
<1>6. r0 \notin Entries(HeldBy(n))
  BY <1>1, <1>3, Zenon DEF LeafBuild
<1> PICK box : box = IF n.box = NoBox THEN Box(sax, InheritedMask(p)) ELSE n.box
  OBVIOUS
<1>7. /\ Box(sax, InheritedMask(p)) \in BoxTypes /\ Box(sax, InheritedMask(p)) # NoBox
  BY <1>1, <1>2, MaskType, BoxFacts, SMTT(30) DEF BoxTypes
<1>8. box \in BoxTypes /\ box # NoBox
  BY <1>3, <1>7 DEF NodeType
<1>9. /\ n.leaf_size \in Nat /\ n.leaf_size < MaxLeafSize
  <2>1. n.leaf_size \in Nat
    BY <1>3 DEF NodeType
  <2>2. ~(n.leaf_size >= MaxLeafSize)
    BY <1>0, Zenon DEF IsFull
  <2> QED
    BY <2>1, <2>2, MaxLeafSizeAssumption
<1> PICK one : one = [n EXCEPT !.box = box, !.buffer = AddToNodeBuffer(n.buffer, r0, task.mode),
                               !.leaf_size = n.leaf_size + 1]
  OBVIOUS
<1>10. AddToNodeBuffer(n.buffer, r0, task.mode) \in BufferType
  <2>1. task.mode \in Modes /\ n.buffer \in BufferType
    BY <1>3, <1>4, NodeParts DEF Modes
  <2>2. Fresh(n.buffer[task.mode])
    BY <1>3, <2>1, Zenon DEF LeafBuild, NoGrowth
  <2>3. ASSUME task.mode = TmpPartial PROVE Len(n.buffer[task.mode].records) < InitialBufferSize
    <3>1. /\ n.buffer[Partial].records \in Seq(Records) /\ n.buffer[TmpPartial].records \in Seq(Records)
          /\ PartialFile(n) \in Seq(Records)
          /\ n.leaf_size = Len(n.buffer[Partial].records) + Len(n.buffer[TmpPartial].records)
                                   + Len(PartialFile(n))
      BY <1>2, <1>3, NodeParts, HeldParts, Zenon DEF LeafBuild, Modes
    <3>2. PICK x, y, z : /\ x = Len(n.buffer[Partial].records)
                         /\ y = Len(n.buffer[TmpPartial].records) /\ z = Len(PartialFile(n))
      BY Zenon
    <3>3. x \in Nat /\ y \in Nat /\ z \in Nat
      BY ONLY <3>1, <3>2, SMTT(30)
    <3>5. n.leaf_size = x + y + z
      BY ONLY <3>1, <3>2
    <3>4. y < InitialBufferSize
      BY ONLY <1>9, <3>3, <3>5, LeafBufferAssumption, InitialBufferSizeAssumption, MaxLeafSizeAssumption
    <3> QED
      BY <2>3, <3>2, <3>4, Zenon
  <2> QED
    BY <1>4, <2>1, <2>2, <2>3, AddOne, ZenonT(60)
<1>11. /\ one \in NodeType /\ one.is_leaf = n.is_leaf /\ one.box = box
       /\ one.leaf_size = n.leaf_size + 1
       /\ one.buffer = AddToNodeBuffer(n.buffer, r0, task.mode)
       /\ one.has_full = n.has_full /\ one.has_partial = n.has_partial
       /\ one.split_mask = n.split_mask /\ one.splitpoint = n.splitpoint
  <2>0. PICK size : size = n.leaf_size + 1
    BY Zenon
  <2>1. size \in Nat /\ size = n.leaf_size + 1
    BY ONLY <1>9, <2>0
  <2> PICK b1 : b1 = AddToNodeBuffer(n.buffer, r0, task.mode)
    BY ZenonT(60)
  <2>2. one = NodeStored(n, box, b1, size) /\ b1 \in BufferType
        /\ b1 = AddToNodeBuffer(n.buffer, r0, task.mode)
    BY <1>10, <2>0 DEF NodeStored
  <2>3. n \in NodeType
    BY <1>3, Zenon
  <2> QED
    <3>1. /\ one \in NodeType /\ one.is_leaf = n.is_leaf /\ one.box = box
          /\ one.leaf_size = size /\ one.buffer = b1
          /\ one.has_full = n.has_full /\ one.has_partial = n.has_partial
          /\ one.split_mask = n.split_mask /\ one.splitpoint = n.splitpoint
      BY ONLY <1>8, <2>1, <2>2, <2>3, StoredInto
    <3> QED
      BY ONLY <2>1, <2>2, <3>1
<1>30. tree[p] = n
  OBVIOUS
<1>12. /\ Nodes' = Nodes /\ tree' \in [Nodes -> NodeType] /\ tree'[p] = one
       /\ \A q \in Nodes : q # p => tree'[q] = tree[q]
  <2>1. tree \in [Nodes -> NodeType]
    BY <1>2 DEF Types
  <2>2. tree' = [tree EXCEPT ![p] = one]
    BY <1>0, <1>1, <2>1, ZenonT(60)
  <2> QED
    BY <1>1, <1>11, <2>1, <2>2, ZenonT(60) DEF Nodes
<1>13. Types'
  BY <1>0, <1>1, <1>2, <1>12, Zenon DEF Types
<1>14. /\ Leaves' = Leaves
       /\ \A q \in Nodes : InheritedMask(q)' = InheritedMask(q)
       /\ \A q \in Nodes : \A w : OnRoute(q, w)' <=> OnRoute(q, w)
       /\ Shape' /\ Routes' /\ SplitBits' /\ Boxed'
  <2>0. ASSUME NEW q \in Nodes
        PROVE  /\ tree'[q].is_leaf = tree[q].is_leaf
               /\ tree'[q].split_mask = tree[q].split_mask
               /\ tree'[q].splitpoint = tree[q].splitpoint
               /\ \/ tree'[q].box = tree[q].box
                  \/ q = p /\ tree'[q].box = Box(sax, InheritedMask(p))
    <3>1. CASE q = p
      <4>1. tree'[q] = one /\ tree[q] = n
        BY ONLY <1>12, <1>30, <3>1
      <4>2. box = n.box \/ box = Box(sax, InheritedMask(p))
        OBVIOUS
      <4> QED
        BY ONLY <1>11, <3>1, <4>1, <4>2
    <3>2. CASE q # p
      BY ONLY <1>12, <2>0, <3>2
    <3> QED
      BY ONLY <3>1, <3>2
  <2>1. \A q \in Nodes : tree'[q].is_leaf = tree[q].is_leaf
    BY ONLY <2>0
  <2>2. \A q \in Nodes \ Leaves : /\ tree'[q].split_mask = tree[q].split_mask
                                  /\ tree'[q].splitpoint = tree[q].splitpoint
    BY ONLY <2>0
  <2>3. \A q \in Nodes : \/ tree'[q].box = tree[q].box
                         \/ \E w \in Words : OnRoute(q, w) /\ tree'[q].box = Box(w, InheritedMask(q))
    BY ONLY <1>1, <2>0
  <2>4. \A q \in Nodes : fbl'[q[1]].initialized
    BY <1>0, <1>2, Zenon DEF Shape
  <2>5. \A m \in Masks : fbl'[m].initialized => fbl[m].initialized
    BY <1>0, Zenon
  <2> QED
    BY <1>0, <1>1, <1>12, <2>1, <2>2, <2>3, <2>4, <2>5, SameTree, Zenon
<1>15. Statics'
  BY <1>13, <1>14 DEF Statics
<1>16. Current' = Current /\ InBuffer' = InBuffer
       /\ (\A r : Given(r)' <=> Given(r)) /\ \A r : Awaiting(r)' <=> Awaiting(r)
  BY <1>0, Zenon DEF Current, InBuffer, Given, Awaiting
<1>17. Soft' /\ Loop'
  <2>1. Soft'
    BY <1>0, <1>1, Zenon DEF Building, Soft
  <2>2. Loop'
    BY <1>0, <1>1, <1>16, Zenon DEF Building, Loop
  <2> QED
    BY <2>1, <2>2
<1>18. Hand' = RecordsOf(Tail(adding))
  BY <1>0, Zenon DEF Hand
<1>19. Calls'
  <2>1. ASSUME NEW c \in Entries(Tail(adding)) PROVE GoodCall(c)'
    <3>1. GoodCall(c)
      BY <1>1
    <3> QED
      BY <1>0, <1>12, <1>14, <1>16, <3>1, ZenonT(60) DEF GoodCall
  <2> QED
    BY <1>0, <1>1, <1>18, <2>1, Zenon DEF Calls
<1>20. HeldBy(tree[p])' = HeldBy(one)
  <2>1. tree'[p] = one /\ files' = files
    BY ONLY <1>0, <1>12
  <2> QED
    BY ONLY <2>1 DEF HeldBy, PartialFile, ReadFile
<1>21. \A q \in Leaves : q # p => HeldBy(tree[q])' = HeldBy(tree[q])
  BY <1>0, <1>12, LeafIsNode, Zenon DEF HeldBy, PartialFile, ReadFile
<1>22. /\ one.leaf_size = Len(HeldBy(one)) /\ one.leaf_size <= MaxLeafSize /\ one.leaf_size # 0
       /\ NoGrowth(one)
       /\ one.buffer[Full].records = <<>> /\ one.buffer[TmpFull].records = <<>>
       /\ Distinct(HeldBy(one))
       /\ Entries(HeldBy(one)) = Entries(HeldBy(n)) \cup {r0}
       /\ one.buffer[Partial].records =
              (IF task.mode = Partial THEN Append(n.buffer[Partial].records, r0)
               ELSE n.buffer[Partial].records)
  <2>1. /\ n.box = NoBox => ~n.has_partial
        /\ n.leaf_size = Len(HeldBy(n)) /\ NoGrowth(n)
        /\ n.buffer[Full].records = <<>> /\ n.buffer[TmpFull].records = <<>>
        /\ Distinct(HeldBy(n))
    BY <1>3, Zenon DEF LeafBuild
  <2>2. n.box # NoBox => box = n.box
    BY SMTT(30)
  <2>3. Types /\ n \in NodeType
    BY <1>2, <1>3, Zenon
  <2> PICK mode : mode = task.mode
    BY SMTT(30)
  <2>4. mode \in {Partial, TmpPartial} /\ one.buffer = AddToNodeBuffer(n.buffer, r0, mode)
    BY <1>4, <1>11
  <2>5. /\ one.leaf_size = Len(HeldBy(one)) /\ one.leaf_size <= MaxLeafSize /\ one.leaf_size # 0
        /\ NoGrowth(one)
        /\ one.buffer[Full].records = <<>> /\ one.buffer[TmpFull].records = <<>>
        /\ Distinct(HeldBy(one))
        /\ Entries(HeldBy(one)) = Entries(HeldBy(n)) \cup {r0}
        /\ one.buffer[Partial].records =
              (IF mode = Partial THEN Append(n.buffer[Partial].records, r0)
               ELSE n.buffer[Partial].records)
    <3>1. /\ one \in NodeType /\ one.box = box /\ one.leaf_size = n.leaf_size + 1
          /\ one.has_partial = n.has_partial
      BY ONLY <1>11
    <3>2. r0 \in Records /\ r0 \notin Entries(HeldBy(n))
      BY ONLY <1>4, <1>6
    <3>3. n.leaf_size < MaxLeafSize
      BY ONLY <1>9
    <3>4. Stores(one, n, r0, mode)
      BY ONLY <1>8, <2>1, <2>2, <2>3, <2>4, <3>1, <3>2, <3>3 DEF Stores
    <3> QED
      BY ONLY <2>3, <3>4, StoreLeaf
  <2> QED
    BY <2>5, Zenon
<1>23. one.has_partial <=> one.box # NoBox /\ PartOf(one) \in DOMAIN files
  <2>1. CASE n.box # NoBox
    BY <1>3, <1>11, <2>1, ZenonT(60) DEF LeafBuild, PartOf
  <2>2. CASE n.box = NoBox
    <3>1. ~one.has_partial
      BY <1>3, <1>11, <2>2, Zenon DEF LeafBuild
    <3>2. ASSUME PartOf(one) \in DOMAIN files PROVE FALSE
      <4>1. PICK q \in Leaves : tree[q].box # NoBox /\ PartOf(one) = PartOf(tree[q])
        BY <1>1, <3>2, Zenon DEF Building, Owned
      <4>2. q # p
        BY <2>2, <4>1, SMTT(30)
      <4>3. one.box = tree[q].box
        BY <4>1, Zenon DEF PartOf, File
      <4>4. tree[q].box = Box(sax, InheritedMask(p))
        BY <1>11, <2>2, <4>3
      <4> QED
        BY <1>1, <4>2, <4>4, NamesApart
    <3> QED
      BY <3>1, <3>2, Zenon
  <2> QED
    BY <2>1, <2>2, Zenon
<1>24. LeafBuild(p)'
  <2>1. \A r \in Entries(one.buffer[Partial].records) : Given(r)'
    <3>1. \A r \in Entries(n.buffer[Partial].records) : Given(r)
      BY <1>3, Zenon DEF LeafBuild
    <3>2. CASE task.mode = Partial
      <4>1. n.buffer[Partial].records \in Seq(Records)
        BY <1>3, NodeParts, Zenon DEF Modes
      <4>2. Entries(one.buffer[Partial].records) = Entries(n.buffer[Partial].records) \cup {r0}
        <5>1. PICK t : t = n.buffer[Partial].records
          BY Zenon
        <5>2. one.buffer[Partial].records = Append(t, r0)
          BY <1>22, <3>2, <5>1, Zenon
        <5>3. Entries(Append(t, r0)) = Entries(t) \cup {r0}
          BY ONLY <1>4, <4>1, <5>1, AppendEntries
        <5> QED
          BY ONLY <5>1, <5>2, <5>3
      <4> QED
        BY <1>5, <1>16, <3>1, <3>2, <4>2, Zenon
    <3>3. CASE task.mode # Partial
      BY <1>16, <1>22, <3>1, <3>3, ZenonT(60)
    <3> QED
      BY <3>2, <3>3, Zenon
  <2>2. ASSUME NEW r \in Entries(HeldBy(one))
        PROVE  /\ r \in DOMAIN words' /\ OnRoute(p, words[r])'
               /\ ~Awaiting(r)' /\ r \notin Entries(Hand')
    <3>1. CASE r = r0
      BY <1>0, <1>1, <1>5, <1>14, <1>16, <1>18, <3>1, Zenon
    <3>2. CASE r # r0
      <4>1. r \in Entries(HeldBy(n))
        BY <1>22, <3>2, Zenon
      <4>2. r \in DOMAIN words /\ OnRoute(p, words[r]) /\ ~Awaiting(r) /\ r \notin Entries(Hand)
        BY <1>3, <4>1, Zenon DEF LeafBuild
      <4> QED
        BY <1>0, <1>1, <1>14, <1>16, <1>18, <4>2, Zenon
    <3> QED
      BY <3>1, <3>2
  <2>3. ~one.has_full /\ one.box # NoBox
    <3>1. ~tree[p].has_full
      BY ONLY <1>3 DEF LeafBuild
    <3> QED
      BY ONLY <1>8, <1>11, <1>30, <3>1
  <2>4. tree'[p] = one /\ at' = at /\ files' = files
    BY ONLY <1>0, <1>12
  <2>5. HeldBy(one)' = HeldBy(one)
    BY ONLY <2>4, SMTT(30) DEF HeldBy, PartialFile, ReadFile
  <2>6. PartOf(one)' = PartOf(one)
    BY DEF PartOf
  <2> QED
    BY ONLY <1>1, <1>16, <1>22, <1>23, <2>1, <2>2, <2>3, <2>4, <2>5, <2>6 DEF LeafBuild, PartOf
<1>25. ASSUME NEW q \in Leaves, q # p PROVE LeafBuild(q)'
  <2>1. LeafBuild(q)
    BY <1>1 DEF Building
  <2>2. q \in Nodes /\ tree'[q] = tree[q] /\ HeldBy(tree[q])' = HeldBy(tree[q])
    BY <1>12, <1>21, <1>25, LeafIsNode, Zenon
  <2>3. ASSUME NEW r \in Entries(HeldBy(tree[q]))
        PROVE  /\ r \in DOMAIN words' /\ OnRoute(q, words[r])'
               /\ ~Awaiting(r)' /\ r \notin Entries(Hand')
    <3>1. r \in DOMAIN words /\ OnRoute(q, words[r]) /\ ~Awaiting(r) /\ r \notin Entries(Hand)
      BY <2>1, <2>3 DEF LeafBuild
    <3> QED
      BY <1>0, <1>1, <1>14, <1>16, <1>18, <2>2, <3>1, Zenon
  <2> QED
    BY <1>0, <1>16, <2>1, <2>2, <2>3, Zenon DEF LeafBuild, PartOf
<1>26. Owned'
  <2>1. ASSUME NEW f \in DOMAIN files
        PROVE  \E q \in Leaves : tree'[q].box # NoBox /\ f = PartOf(tree'[q])
    <3>1. PICK q \in Leaves : tree[q].box # NoBox /\ f = PartOf(tree[q])
      BY <1>1, SMTT(30) DEF Building, Owned
    <3>2. tree'[q].box = tree[q].box
      <4>1. CASE q = p
        <5>1. tree'[q] = one /\ tree[q] = n /\ box = n.box
          BY <1>12, <1>30, <3>1, <4>1, Zenon
        <5> QED
          BY ONLY <1>11, <5>1
      <4>2. CASE q # p
        BY <1>12, <3>1, <4>2, LeafIsNode, Zenon
      <4> QED
        BY <4>1, <4>2
    <3> QED
      BY <3>1, <3>2, SMTT(30) DEF PartOf
  <2> QED
    BY <1>0, <1>14, <2>1, Zenon DEF Owned, PartOf
<1>27. Kept'
  <2>1. ASSUME NEW r \in DOMAIN words
        PROVE  Awaiting(r)' \/ r \in Entries(Hand') \/ \E q \in Leaves : r \in Entries(HeldBy(tree[q])')
    <3>1. CASE r = r0
      <4>1. r \in Entries(HeldBy(tree[p])')
        BY <1>20, <1>22, <3>1, ZenonT(60)
      <4> QED
        BY <1>1, <4>1
    <3>2. CASE r # r0
      <4>1. Awaiting(r) \/ r \in Entries(Hand) \/ \E q \in Leaves : r \in Entries(HeldBy(tree[q]))
        BY <1>1 DEF Building, Kept
      <4>2. \A q \in Leaves : r \in Entries(HeldBy(tree[q])) => r \in Entries(HeldBy(tree[q])')
        BY <1>20, <1>21, <1>22, Zenon
      <4> QED
        BY <1>1, <1>16, <1>18, <3>2, <4>1, <4>2, Zenon
    <3> QED
      BY <3>1, <3>2, SMTT(30)
  <2> QED
    BY <1>0, <1>14, <2>1, Zenon DEF Kept
<1> QED
  BY <1>0, <1>1, <1>14, <1>15, <1>17, <1>19, <1>24, <1>25, <1>26, <1>27, Zenon DEF DiskInv, Main, Building
-----------------------------------------------------------------------------
(* split_node.                                                             *)

\* The tree with leaf p split on segment s.
SplitAt(p, s, mask) ==
    /\ p \in Leaves /\ s \in Segments
    /\ mask \in [Segments -> 0 .. Bits - 1]
    /\ mask = [InheritedMask(p) EXCEPT ![s] = @ + 1]
    /\ Nodes' = Nodes \cup {Append(p, 0), Append(p, 1)}
    /\ ~tree'[p].is_leaf /\ tree'[p].split_mask = mask /\ tree'[p].splitpoint = s
    /\ tree'[p].box = tree[p].box
    /\ \A q \in Nodes : q # p => tree'[q] = tree[q]
    /\ \A x \in {0, 1} : Append(p, x) \notin Nodes => tree'[Append(p, x)] = NewLeaf
    /\ words' = words /\ fbl' = fbl

LEMMA SplitLeaves ==
    ASSUME Statics, NEW p, NEW s, NEW mask, SplitAt(p, s, mask)
    PROVE  /\ p \in Paths /\ p \in Nodes /\ Len(p) \in Nat \ {0}
           /\ \A x \in {0, 1} : /\ Append(p, x) \notin Nodes
                                /\ tree'[Append(p, x)] = NewLeaf
           /\ Leaves' = (Leaves \ {p}) \cup {Append(p, 0), Append(p, 1)}
           /\ Nodes \ Leaves \subseteq Nodes' \ Leaves'
           /\ p \in Nodes' \ Leaves'
<1>0. Shape
  BY DEF Statics
<1>1. p \in Leaves /\ p \in Nodes
  BY LeafIsNode DEF SplitAt
<1>2. p \in Paths /\ Len(p) \in Nat \ {0}
  BY <1>0, <1>1, NodeFacts
<1>3. ASSUME NEW x \in {0, 1} PROVE Append(p, x) \notin Nodes
  <2>1. SUFFICES ASSUME Append(p, x) \in Nodes PROVE FALSE
    OBVIOUS
  <2> PICK c : c = Append(p, x)
    OBVIOUS
  <2>2. Len(c) = Len(p) + 1 /\ Pre(c, Len(p)) = p
    BY <1>2, ChildFacts
  <2>3. Len(p) \in 1 .. Len(c) - 1
    BY <1>2, <2>2
  <2>4. Pre(c, Len(p)) \in Nodes \ Leaves
    BY <1>0, <2>1, <2>3, NodeFacts
  <2> QED
    BY <1>1, <2>2, <2>4
<1>4. \A x \in {0, 1} : tree'[Append(p, x)] = NewLeaf
  BY <1>3 DEF SplitAt
<1>5. Leaves' = (Leaves \ {p}) \cup {Append(p, 0), Append(p, 1)}
  <2>1. \A q \in Nodes : tree'[q].is_leaf <=> tree[q].is_leaf /\ q # p
    BY <1>1 DEF SplitAt
  <2>2. Nodes' = Nodes \cup {Append(p, 0), Append(p, 1)}
    BY DEF SplitAt
  <2>3. tree'[Append(p, 0)].is_leaf /\ tree'[Append(p, 1)].is_leaf
    BY <1>4, NewLeafFacts
  <2>4. Leaves' = {q \in Nodes' : tree'[q].is_leaf}
    BY DEF Leaves
  <2>5. Leaves = {q \in Nodes : tree[q].is_leaf}
    BY DEF Leaves
  <2>6. Append(p, 0) \notin Nodes /\ Append(p, 1) \notin Nodes
    BY <1>3
  <2> QED
    BY ONLY <1>1, <2>1, <2>2, <2>3, <2>4, <2>5, <2>6
<1>6. Nodes' = Nodes \cup {Append(p, 0), Append(p, 1)}
  BY DEF SplitAt
<1>7. Append(p, 0) \notin Nodes /\ Append(p, 1) \notin Nodes
  BY <1>3
<1>8. Nodes \ Leaves \subseteq Nodes' \ Leaves' /\ p \in Nodes' \ Leaves'
  BY ONLY <1>1, <1>5, <1>6, <1>7
<1> QED
  BY <1>1, <1>2, <1>3, <1>4, <1>5, <1>8

\* Routes and inherited masks after the split.
LEMMA SplitRoutes ==
    ASSUME Statics, NEW p, NEW s, NEW mask, SplitAt(p, s, mask)
    PROVE  /\ \A q \in Nodes : /\ InheritedMask(q)' = InheritedMask(q)
                               /\ \A d \in 1 .. Len(q) - 1 :
                                      tree'[Pre(q, d)].split_mask = tree[Pre(q, d)].split_mask
                               /\ \A w : OnRoute(q, w)' <=> OnRoute(q, w)
           /\ \A x \in {0, 1} :
                  /\ InheritedMask(Append(p, x))' = mask
                  /\ \A w : OnRoute(Append(p, x), w)' <=> OnRoute(p, w) /\ Branch(w, mask, s) = x
<1>0. Shape
  BY DEF Statics
<1>1. p \in Leaves /\ p \in Nodes /\ p \in Paths /\ Len(p) \in Nat \ {0}
  BY SplitLeaves DEF SplitAt
<1>2. \A q \in Nodes \ Leaves : /\ tree'[q].split_mask = tree[q].split_mask
                                /\ tree'[q].splitpoint = tree[q].splitpoint
  BY <1>1 DEF SplitAt
<1>3. \A q \in Nodes : /\ InheritedMask(q)' = InheritedMask(q)
                       /\ \A d \in 1 .. Len(q) - 1 :
                              tree'[Pre(q, d)].split_mask = tree[Pre(q, d)].split_mask
                       /\ \A w : OnRoute(q, w)' <=> OnRoute(q, w)
  BY <1>0, <1>2, Frame
<1>4. ASSUME NEW x \in {0, 1}
      PROVE  /\ InheritedMask(Append(p, x))' = mask
             /\ \A w : OnRoute(Append(p, x), w)' <=> OnRoute(p, w) /\ Branch(w, mask, s) = x
  <2> PICK c : c = Append(p, x)
    OBVIOUS
  <2>1. /\ Len(c) = Len(p) + 1 /\ c[Len(p) + 1] = x
        /\ \A j \in 1 .. Len(p) : c[j] = p[j]
        /\ \A d \in 0 .. Len(p) : Pre(c, d) = Pre(p, d)
        /\ Pre(c, Len(p)) = p /\ Parent(c) = p
    BY <1>1, ChildFacts
  <2>2. tree'[p].split_mask = mask /\ tree'[p].splitpoint = s
    BY DEF SplitAt
  <2> PICK k : k = Len(p)
    OBVIOUS
  <2>3. k \in Nat \ {0} /\ Len(c) = k + 1 /\ Len(p) = k
    BY <1>1, <2>1
  <2>4. InheritedMask(c)' = mask
    <3>1. Len(c) # 1
      BY ONLY <2>3
    <3> QED
      BY <2>1, <2>2, <3>1 DEF InheritedMask
  <2>5. ASSUME NEW w PROVE OnRoute(c, w)' <=> OnRoute(p, w) /\ Branch(w, mask, s) = x
    <3>1. OnRoute(p, w)' <=> OnRoute(p, w)
      BY <1>1, <1>3
    <3>2. c[1] = p[1] /\ c[k + 1] = x
      BY <2>1, <2>3
    <3>3. Turn(p, w)' = Branch(w, mask, s)
      BY <2>2 DEF Turn
    <3>4. ASSUME NEW d \in 1 .. k - 1 PROVE c[d + 1] = p[d + 1] /\ Pre(c, d) = Pre(p, d)
      <4>1. d + 1 \in 1 .. k /\ d \in 0 .. k
        BY <2>3
      <4> QED
        BY <2>1, <2>3, <4>1
    <3>5. Pre(c, k) = p
      BY <2>1
    <3>6. OnRoute(c, w)' <=> /\ c[1] = MaskOf(w)
                             /\ \A d \in 1 .. k : c[d + 1] = Turn(Pre(c, d), w)'
      <4>1. 1 .. Len(c) - 1 = 1 .. k
        BY ONLY <2>3
      <4> QED
        BY <4>1 DEF OnRoute
    <3>7. OnRoute(p, w)' <=> /\ p[1] = MaskOf(w)
                             /\ \A d \in 1 .. k - 1 : p[d + 1] = Turn(Pre(p, d), w)'
      BY <2>3 DEF OnRoute
    <3>8. \A d : d \in 1 .. k <=> d \in 1 .. k - 1 \/ d = k
      BY <2>3
    <3>9. \A d \in 1 .. k - 1 : Turn(Pre(c, d), w)' = Turn(Pre(p, d), w)'
      BY <3>4
    <3>10. Turn(Pre(c, k), w)' = Branch(w, mask, s)
      BY <3>3, <3>5
    <3> QED
      BY ONLY <3>1, <3>2, <3>4, <3>6, <3>7, <3>8, <3>9, <3>10
  <2> QED
    BY <2>4, <2>5
<1> QED
  BY <1>3, <1>4

LEMMA SplitShape ==
    ASSUME Statics, NEW p, NEW s, NEW mask, SplitAt(p, s, mask)
    PROVE  Shape'
<1>0. Shape /\ fbl' = fbl
  BY DEF Statics, SplitAt
<1>1. /\ p \in Paths /\ p \in Nodes /\ Len(p) \in Nat \ {0}
      /\ Nodes' = Nodes \cup {Append(p, 0), Append(p, 1)}
      /\ Nodes \ Leaves \subseteq Nodes' \ Leaves' /\ p \in Nodes' \ Leaves'
      /\ Leaves' = (Leaves \ {p}) \cup {Append(p, 0), Append(p, 1)}
  BY SplitLeaves DEF SplitAt
<1>2. ASSUME NEW q \in Nodes
      PROVE  /\ q \in Paths /\ q # <<>> /\ q[1] \in Masks /\ fbl'[q[1]].initialized
             /\ \A d \in 1 .. Len(q) - 1 : Pre(q, d) \in Nodes' \ Leaves'
  BY <1>0, <1>1 DEF Shape
<1>3. ASSUME NEW x \in {0, 1}
      PROVE  LET c == Append(p, x) IN
             /\ c \in Paths /\ c # <<>> /\ c[1] \in Masks /\ fbl'[c[1]].initialized
             /\ \A d \in 1 .. Len(c) - 1 : Pre(c, d) \in Nodes' \ Leaves'
  <2> PICK c : c = Append(p, x)
    OBVIOUS
  <2>1. /\ c \in Paths /\ Len(c) = Len(p) + 1
        /\ \A j \in 1 .. Len(p) : c[j] = p[j]
        /\ \A d \in 0 .. Len(p) : Pre(c, d) = Pre(p, d)
        /\ Pre(c, Len(p)) = p
    BY <1>1, ChildFacts
  <2>2. 1 \in 1 .. Len(p) /\ c # <<>>
    BY <1>1, <2>1
  <2>3. c[1] = p[1]
    BY <2>1, <2>2
  <2>4. ASSUME NEW d \in 1 .. Len(c) - 1 PROVE Pre(c, d) \in Nodes' \ Leaves'
    <3>1. CASE d = Len(p)
      BY <1>1, <2>1, <3>1
    <3>2. CASE d # Len(p)
      <4>1. d \in 1 .. Len(p) - 1 /\ d \in 0 .. Len(p)
        BY <1>1, <2>1, <3>2
      <4>2. Pre(p, d) \in Nodes' \ Leaves'
        BY <1>1, <1>2, <4>1
      <4> QED
        BY <2>1, <4>1, <4>2
    <3> QED
      BY <3>1, <3>2
  <2> QED
    BY <1>1, <1>2, <2>1, <2>2, <2>3, <2>4
<1>4. \A q \in Nodes' : /\ q \in Paths /\ q # <<>> /\ q[1] \in Masks
                        /\ fbl'[q[1]].initialized
                        /\ \A d \in 1 .. Len(q) - 1 : Pre(q, d) \in Nodes' \ Leaves'
  <2> SUFFICES ASSUME NEW q \in Nodes'
               PROVE  /\ q \in Paths /\ q # <<>> /\ q[1] \in Masks
                      /\ fbl'[q[1]].initialized
                      /\ \A d \in 1 .. Len(q) - 1 : Pre(q, d) \in Nodes' \ Leaves'
    OBVIOUS
  <2>1. CASE q \in Nodes
    BY <1>2, <2>1
  <2>2. CASE q = Append(p, 0)
    BY <1>3, <2>2
  <2>3. CASE q = Append(p, 1)
    BY <1>3, <2>3
  <2> QED
    BY <1>1, <2>1, <2>2, <2>3
<1>5. ASSUME NEW q \in Nodes' \ Leaves'
      PROVE  Append(q, 0) \in Nodes' /\ Append(q, 1) \in Nodes' /\ tree'[q].splitpoint \in Segments
  <2>1. CASE q = p
    BY <1>1, <2>1 DEF SplitAt
  <2>2. CASE q # p
    <3>1. q \in Nodes \ Leaves
      BY <1>1, <2>2
    <3>2. tree'[q] = tree[q]
      BY <2>2, <3>1 DEF SplitAt
    <3> QED
      BY <1>0, <1>1, <3>1, <3>2 DEF Shape
  <2> QED
    BY <2>1, <2>2
<1> QED
  BY <1>4, <1>5 DEF Shape

LEMMA SplitKeepsRoutes ==
    ASSUME Statics, NEW p, NEW s, NEW mask, SplitAt(p, s, mask)
    PROVE  Routes'
<1>0. Shape /\ Routes /\ Types /\ fbl' = fbl /\ words' = words /\ s \in Segments
      /\ mask \in [Segments -> 0 .. Bits - 1]
  BY DEF Statics, SplitAt
<1>1. /\ p \in Leaves /\ p \in Paths /\ p \in Nodes /\ Len(p) \in Nat \ {0}
      /\ Nodes' = Nodes \cup {Append(p, 0), Append(p, 1)}
      /\ Leaves' = (Leaves \ {p}) \cup {Append(p, 0), Append(p, 1)}
  BY SplitLeaves DEF SplitAt
<1>2. \A q \in Nodes : \A w : OnRoute(q, w)' <=> OnRoute(q, w)
  BY SplitRoutes
<1>3. \A x \in {0, 1} : \A w : OnRoute(Append(p, x), w)' <=> OnRoute(p, w) /\ Branch(w, mask, s) = x
  BY SplitRoutes
<1>4. ASSUME NEW x \in {0, 1}
      PROVE  LET c == Append(p, x) IN
             /\ Len(c) = Len(p) + 1 /\ c[Len(p) + 1] = x
             /\ \A j \in 1 .. Len(p) : c[j] = p[j]
             /\ \A d \in 0 .. Len(p) : Pre(c, d) = Pre(p, d)
             /\ Pre(c, Len(c)) = c
  <2> PICK c : c = Append(p, x)
    OBVIOUS
  <2>1. /\ c \in Paths /\ Len(c) = Len(p) + 1 /\ c[Len(p) + 1] = x
        /\ \A j \in 1 .. Len(p) : c[j] = p[j]
        /\ \A d \in 0 .. Len(p) : Pre(c, d) = Pre(p, d)
    BY <1>1, ChildFacts
  <2>2. 0 \in 0 .. Len(c)
    BY <1>1, <2>1
  <2>3. Pre(c, Len(c)) = c
    BY <2>1, <2>2, PrefixFacts
  <2> QED
    BY <2>1, <2>3
<1>5. ASSUME NEW q \in Nodes, NEW x \in {0, 1}
      PROVE  Above(q, Append(p, x)) \/ \E d \in Nat : Part(Append(p, x), q, d)
  <2> PICK c : c = Append(p, x)
    OBVIOUS
  <2>0. Len(q) \in Nat
    BY <1>0, NodeFacts
  <2>1. CASE Above(q, p)
    <3>1. Len(q) \in 0 .. Len(p)
      BY <1>1, <2>0, <2>1 DEF Above
    <3> QED
      BY <1>1, <1>4, <2>1, <3>1 DEF Above
  <2>2. ASSUME NEW d \in Nat, Part(p, q, d) PROVE Part(c, q, d)
    <3>1. d \in 0 .. Len(p) /\ d + 1 \in 1 .. Len(p) /\ d < Len(p)
      BY <1>1, <2>2 DEF Part
    <3>2. Len(c) = Len(p) + 1 /\ c[d + 1] = p[d + 1] /\ Pre(c, d) = Pre(p, d)
      BY <1>4, <3>1
    <3>3. d < Len(c)
      BY <1>1, <3>1, <3>2
    <3> QED
      BY <2>2, <3>2, <3>3 DEF Part
  <2> QED
    BY <1>0, <1>1, <2>1, <2>2 DEF Routes
<1>6. ASSUME NEW l \in Leaves \ {p}, NEW x \in {0, 1}
      PROVE  \E d \in Nat : Part(l, Append(p, x), d)
  <2> PICK c : c = Append(p, x)
    OBVIOUS
  <2>1. ~Above(p, l)
    BY <1>0, <1>1, AboveFacts
  <2>2. PICK d \in Nat : Part(l, p, d)
    BY <1>0, <1>1, <2>1 DEF Routes
  <2>3. d \in 0 .. Len(p) /\ d + 1 \in 1 .. Len(p) /\ d < Len(p)
    BY <1>1, <2>2 DEF Part
  <2>4. Len(c) = Len(p) + 1 /\ c[d + 1] = p[d + 1] /\ Pre(c, d) = Pre(p, d)
    BY <1>4, <2>3
  <2>5. d < Len(c)
    BY <1>1, <2>3, <2>4
  <2>6. Part(l, c, d)
    BY <2>2, <2>4, <2>5 DEF Part
  <2> QED
    BY <2>6
<1>7. ASSUME NEW x \in {0, 1}, NEW y \in {0, 1}, x # y
      PROVE  Part(Append(p, x), Append(p, y), Len(p))
  <2>1. Len(p) \in 0 .. Len(p) /\ Len(p) < Len(p) + 1
    BY <1>1
  <2> QED
    BY <1>4, <1>7, <2>1 DEF Part
<1>8. ASSUME NEW x \in {0, 1}
      PROVE  Above(Append(p, x), Append(p, x))
  <2>1. Len(Append(p, x)) <= Len(Append(p, x))
    BY <1>1, <1>4
  <2> QED
    BY <1>4, <2>1 DEF Above
<1>9. ASSUME NEW l \in Leaves', NEW q \in Nodes' PROVE Above(q, l) \/ \E d \in Nat : Part(l, q, d)
  <2>1. CASE l \in Leaves \ {p} /\ q \in Nodes
    BY <1>0, <2>1 DEF Routes
  <2>2. CASE l \in Leaves \ {p} /\ q \notin Nodes
    BY <1>1, <1>6, <2>2
  <2>3. ASSUME NEW x \in {0, 1}, l = Append(p, x), q \in Nodes
        PROVE  Above(q, l) \/ \E d \in Nat : Part(l, q, d)
    BY <1>5, <2>3
  <2>4. ASSUME NEW x \in {0, 1}, NEW y \in {0, 1}, l = Append(p, x), q = Append(p, y)
        PROVE  Above(q, l) \/ \E d \in Nat : Part(l, q, d)
    <3>1. CASE x = y
      BY <1>8, <2>4, <3>1
    <3>2. CASE x # y
      <4>1. Part(l, q, Len(p))
        BY <1>7, <2>4, <3>2
      <4> QED
        BY <1>1, <4>1
    <3> QED
      BY <3>1, <3>2
  <2>5. /\ l \in Leaves \ {p} \/ \E x \in {0, 1} : l = Append(p, x)
        /\ q \in Nodes \/ \E y \in {0, 1} : q = Append(p, y)
    BY <1>1
  <2> QED
    BY <2>1, <2>2, <2>3, <2>4, <2>5
<1>10. ASSUME NEW sax \in Words, fbl[MaskOf(sax)].initialized
       PROVE  \E l \in Leaves' : OnRoute(l, sax)'
  <2>1. PICK l \in Leaves : OnRoute(l, sax)
    BY <1>0, <1>10 DEF Routes
  <2>2. CASE l # p
    <3>1. l \in Leaves' /\ l \in Nodes
      BY <1>1, <2>2, LeafIsNode
    <3> QED
      BY <1>2, <2>1, <3>1
  <2>3. CASE l = p
    <3>1. Branch(sax, mask, s) \in {0, 1}
      <4>1. sax[s] \in [1 .. Bits -> {0, 1}]
        BY <1>0 DEF Words
      <4>2. mask[s] \in 0 .. Bits - 1
        BY <1>0
      <4>3. mask[s] + 1 \in 1 .. Bits
        BY <4>2, BitsAssumption
      <4> QED
        BY <4>1, <4>3 DEF Branch
    <3> PICK x : x = Branch(sax, mask, s)
      OBVIOUS
    <3>2. OnRoute(Append(p, x), sax)'
      BY <1>3, <2>1, <2>3, <3>1
    <3>3. Append(p, x) \in Leaves'
      BY <1>1, <3>1
    <3> QED
      BY <3>2, <3>3
  <2> QED
    BY <2>2, <2>3
<1>11. \A r \in DOMAIN words' : fbl'[MaskOf(words'[r])].initialized
  BY <1>0 DEF Routes
<1> QED
  BY <1>0, <1>9, <1>10, <1>11 DEF Routes

LEMMA SplitKeepsBits ==
    ASSUME Statics, NEW p, NEW s, NEW mask, SplitAt(p, s, mask)
    PROVE  SplitBits' /\ Boxed'
<1>0. Shape /\ Types /\ SplitBits /\ Boxed /\ s \in Segments
      /\ mask = [InheritedMask(p) EXCEPT ![s] = @ + 1]
  BY DEF Statics, SplitAt
<1>1. /\ p \in Leaves /\ p \in Paths /\ p \in Nodes /\ Len(p) \in Nat \ {0}
      /\ Nodes' = Nodes \cup {Append(p, 0), Append(p, 1)}
      /\ \A x \in {0, 1} : tree'[Append(p, x)] = NewLeaf
  BY SplitLeaves DEF SplitAt
<1>2. \A q \in Nodes : /\ InheritedMask(q)' = InheritedMask(q)
                       /\ \A d \in 1 .. Len(q) - 1 :
                              tree'[Pre(q, d)].split_mask = tree[Pre(q, d)].split_mask
                       /\ \A w : OnRoute(q, w)' <=> OnRoute(q, w)
  BY SplitRoutes
<1>3. \A x \in {0, 1} :
         /\ InheritedMask(Append(p, x))' = mask
         /\ \A w : OnRoute(Append(p, x), w)' <=> OnRoute(p, w) /\ Branch(w, mask, s) = x
  BY SplitRoutes
<1> PICK old : old = InheritedMask(p)
  OBVIOUS
<1>4. old \in [Segments -> 0 .. Bits - 1]
  BY <1>0, <1>1, MaskType
<1>5. /\ mask[s] = old[s] + 1 /\ old[s] \in Nat
      /\ \A t \in Segments : t # s => mask[t] = old[t]
      /\ \A t \in Segments : old[t] \in Int /\ old[t] <= mask[t]
  BY <1>0, <1>4
<1>6. ASSUME NEW q \in Nodes
      PROVE  /\ \A d \in 1 .. Len(q) - 1 : \A t \in Segments :
                    tree'[Pre(q, d)].split_mask[t] <= InheritedMask(q)'[t]
             /\ \A v, w \in Words : OnRoute(q, v)' /\ OnRoute(q, w)' =>
                    \A t \in Segments : \A b \in 1 .. InheritedMask(q)'[t] + 1 : v[t][b] = w[t][b]
  BY <1>0, <1>2 DEF SplitBits
<1>7. ASSUME NEW x \in {0, 1}
      PROVE  LET c == Append(p, x) IN
             \A d \in 1 .. Len(c) - 1 : \A t \in Segments :
                    tree'[Pre(c, d)].split_mask[t] <= InheritedMask(c)'[t]
  <2> PICK c : c = Append(p, x)
    OBVIOUS
  <2>1. /\ Len(c) = Len(p) + 1
        /\ \A d \in 0 .. Len(p) : Pre(c, d) = Pre(p, d)
        /\ Pre(c, Len(p)) = p
    BY <1>1, ChildFacts
  <2> SUFFICES ASSUME NEW d \in 1 .. Len(c) - 1, NEW t \in Segments
               PROVE  tree'[Pre(c, d)].split_mask[t] <= mask[t]
    BY <1>3
  <2>2. CASE d = Len(p)
    <3>1. tree'[Pre(c, d)].split_mask = mask
      BY <2>1, <2>2 DEF SplitAt
    <3>2. mask[t] \in Int
      BY <1>4, <1>5
    <3> QED
      BY <3>1, <3>2
  <2>3. CASE d # Len(p)
    <3>1. d \in 1 .. Len(p) - 1 /\ d \in 0 .. Len(p)
      BY <1>1, <2>1, <2>3
    <3>2. Pre(c, d) = Pre(p, d) /\ tree'[Pre(p, d)].split_mask = tree[Pre(p, d)].split_mask
      BY <1>1, <1>2, <2>1, <3>1
    <3>3. tree[Pre(p, d)].split_mask[t] <= old[t]
      BY <1>0, <1>1, <3>1 DEF SplitBits
    <3>4. tree[Pre(p, d)].split_mask[t] \in Int
      <4>1. Pre(p, d) \in Nodes
        BY <1>0, <1>1, <3>1, NodeFacts
      <4>2. tree[Pre(p, d)].split_mask \in [Segments -> 0 .. Bits - 1]
        BY <1>0, <4>1 DEF Types, NodeType
      <4> QED
        BY <4>2
    <3>5. old[t] \in Int /\ old[t] <= mask[t] /\ mask[t] \in Int
      BY <1>4, <1>5
    <3> PICK a : a = tree[Pre(p, d)].split_mask[t]
      OBVIOUS
    <3>6. a <= mask[t]
      BY <3>3, <3>4, <3>5
    <3> QED
      BY <3>2, <3>6
  <2> QED
    BY <2>2, <2>3
<1>8. ASSUME NEW x \in {0, 1}, NEW v \in Words, NEW w \in Words,
             OnRoute(Append(p, x), v)', OnRoute(Append(p, x), w)',
             NEW t \in Segments, NEW b \in 1 .. mask[t] + 1
      PROVE  v[t][b] = w[t][b]
  <2>1. OnRoute(p, v) /\ OnRoute(p, w) /\ Branch(v, mask, s) = x /\ Branch(w, mask, s) = x
    BY <1>3, <1>8
  <2>2. \A a \in 1 .. old[t] + 1 : v[t][a] = w[t][a]
    BY <1>0, <1>1, <2>1 DEF SplitBits
  <2>3. CASE b \in 1 .. old[t] + 1
    BY <2>2, <2>3
  <2>4. CASE b \notin 1 .. old[t] + 1
    <3>1. t = s
      BY <1>4, <1>5, <2>4
    <3>2. b = mask[s] + 1
      BY <1>4, <1>5, <2>4, <3>1
    <3> QED
      BY <2>1, <3>1, <3>2 DEF Branch
  <2> QED
    BY <2>3, <2>4
<1>9. SplitBits'
  <2> SUFFICES ASSUME NEW q \in Nodes'
               PROVE  /\ \A d \in 1 .. Len(q) - 1 : \A t \in Segments :
                             tree'[Pre(q, d)].split_mask[t] <= InheritedMask(q)'[t]
                      /\ \A v, w \in Words : OnRoute(q, v)' /\ OnRoute(q, w)' =>
                             \A t \in Segments : \A b \in 1 .. InheritedMask(q)'[t] + 1 :
                                 v[t][b] = w[t][b]
    BY DEF SplitBits
  <2>1. CASE q \in Nodes
    BY <1>6, <2>1
  <2>2. ASSUME NEW x \in {0, 1}, q = Append(p, x)
        PROVE  /\ \A d \in 1 .. Len(q) - 1 : \A t \in Segments :
                      tree'[Pre(q, d)].split_mask[t] <= InheritedMask(q)'[t]
               /\ \A v, w \in Words : OnRoute(q, v)' /\ OnRoute(q, w)' =>
                      \A t \in Segments : \A b \in 1 .. InheritedMask(q)'[t] + 1 :
                          v[t][b] = w[t][b]
    <3>1. \A d \in 1 .. Len(q) - 1 : \A t \in Segments :
               tree'[Pre(q, d)].split_mask[t] <= InheritedMask(q)'[t]
      BY <1>7, <2>2
    <3>2. InheritedMask(q)' = mask
      BY <1>3, <2>2
    <3>3. \A v, w \in Words : OnRoute(q, v)' /\ OnRoute(q, w)' =>
              \A t \in Segments : \A b \in 1 .. mask[t] + 1 : v[t][b] = w[t][b]
      BY <1>8, <2>2
    <3> QED
      BY <3>1, <3>2, <3>3
  <2> QED
    BY <1>1, <2>1, <2>2
<1>10. Boxed'
  <2> SUFFICES ASSUME NEW q \in Nodes', tree'[q].box # NoBox
               PROVE  \E w \in Words : OnRoute(q, w)' /\ tree'[q].box = Box(w, InheritedMask(q)')
    BY DEF Boxed
  <2>1. q \in Nodes
    BY <1>1, NewLeafFacts
  <2>2. tree'[q].box = tree[q].box
    BY <2>1 DEF SplitAt
  <2>3. \E w \in Words : OnRoute(q, w) /\ tree[q].box = Box(w, InheritedMask(q))
    BY <1>0, <2>1, <2>2 DEF Boxed
  <2> QED
    BY <1>2, <2>1, <2>2, <2>3
<1> QED
  BY <1>9, <1>10

\* The split buffer.
LEMMA TasksFacts ==
    ASSUME NEW s \in Seq(Records), NEW mode \in {Partial, TmpPartial}, NEW child,
           \A r \in Entries(s) : child[r] \in Paths
    PROVE  /\ Tasks(s, mode, child) \in Seq(CallType)
           /\ RecordsOf(Tasks(s, mode, child)) = s
           /\ \A c \in Entries(Tasks(s, mode, child)) :
                  c.record \in Entries(s) /\ c.mode = mode /\ c.from = child[c.record]
<1> PICK t : t = Tasks(s, mode, child)
  OBVIOUS
<1>1. /\ DOMAIN t = DOMAIN s
      /\ \A n \in DOMAIN s : t[n] = [record |-> s[n], mode |-> mode, from |-> child[s[n]], again |-> TRUE]
      /\ t = [n \in 1 .. Len(s) |-> t[n]]
  BY DEF Tasks
<1>2. \A n \in DOMAIN s : s[n] \in Records /\ s[n] \in Entries(s)
  BY DEF Entries
<1>3. \A n \in DOMAIN s : t[n] \in CallType /\ t[n].record = s[n] /\ t[n].mode = mode /\ t[n].from = child[s[n]]
  <2> SUFFICES ASSUME NEW n \in DOMAIN s
               PROVE  t[n] \in CallType /\ t[n].record = s[n] /\ t[n].mode = mode
                      /\ t[n].from = child[s[n]]
    OBVIOUS
  <2> PICK x : x = s[n]
    OBVIOUS
  <2> PICK y : y = child[x]
    OBVIOUS
  <2>1. x \in Records /\ y \in Paths /\ mode \in {Partial, TmpPartial}
    BY <1>2
  <2>2. t[n] = [record |-> x, mode |-> mode, from |-> y, again |-> TRUE]
    BY <1>1
  <2>3. [record |-> x, mode |-> mode, from |-> y, again |-> TRUE] \in CallType
    BY ONLY <2>1 DEF CallType
  <2> QED
    BY <2>2, <2>3
<1>4. t \in Seq(CallType)
  <2>1. Len(s) \in Nat /\ DOMAIN s = 1 .. Len(s)
    OBVIOUS
  <2>2. \A n \in 1 .. Len(s) : t[n] \in CallType
    BY <1>3, <2>1
  <2> QED
    BY ONLY <1>1, <2>1, <2>2
<1>5. RecordsOf(t) = s
  <2>1. RecordsOf(t) = [n \in DOMAIN s |-> s[n]]
    BY <1>1, <1>3 DEF RecordsOf
  <2>2. [n \in DOMAIN s |-> s[n]] = s
    OBVIOUS
  <2> QED
    BY <2>1, <2>2
<1>6. \A c \in Entries(t) : c.record \in Entries(s) /\ c.mode = mode /\ c.from = child[c.record]
  <2> SUFFICES ASSUME NEW c \in Entries(t)
               PROVE  c.record \in Entries(s) /\ c.mode = mode /\ c.from = child[c.record]
    OBVIOUS
  <2>1. PICK n \in DOMAIN s : c = t[n]
    BY <1>1 DEF Entries
  <2> QED
    BY <1>2, <1>3, <2>1
<1> QED
  BY <1>4, <1>5, <1>6

\* The records of three buffers and a record more, in front of other calls.
Joins(e, a, b, c, d) ==
    /\ e \in Seq(CallType)
    /\ Entries(e) = Entries(a) \cup Entries(b) \cup Entries(c) \cup Entries(d)
    /\ RecordsOf(e) = RecordsOf(a) \o RecordsOf(b) \o RecordsOf(c) \o RecordsOf(d)

LEMMA JoinedCalls ==
    ASSUME NEW a \in Seq(CallType), NEW b \in Seq(CallType), NEW c \in Seq(CallType),
           NEW d \in Seq(CallType)
    PROVE  Joins(a \o b \o c \o d, a, b, c, d)
<1> PICK e : e = a \o b
  OBVIOUS
<1>1. e \in Seq(CallType) /\ Entries(e) = Entries(a) \cup Entries(b)
  BY ConcatFacts
<1>2. RecordsOf(e) = RecordsOf(a) \o RecordsOf(b)
  BY RecordsFacts
<1> PICK f : f = e \o c
  OBVIOUS
<1>3. f \in Seq(CallType) /\ Entries(f) = Entries(e) \cup Entries(c)
  BY <1>1, ConcatFacts, ZenonT(60)
<1>4. RecordsOf(f) = RecordsOf(e) \o RecordsOf(c)
  BY <1>1, RecordsFacts
<1>5. f \o d \in Seq(CallType) /\ Entries(f \o d) = Entries(f) \cup Entries(d)
  BY <1>3, ConcatFacts, ZenonT(60)
<1>6. RecordsOf(f \o d) = RecordsOf(f) \o RecordsOf(d)
  BY <1>3, RecordsFacts
<1>7. e = a \o b /\ f = e \o c
  OBVIOUS
<1> QED
 BY ONLY <1>1, <1>2, <1>3, <1>4, <1>5, <1>6, <1>7 DEF Joins

Apart(a, b, c, d) ==
    /\ a \in Seq(Records) /\ b \in Seq(Records) /\ c \in Seq(Records) /\ d \in Seq(Records)
    /\ Distinct(b \o c) /\ Distinct(a) /\ Distinct(d) /\ Entries(b \o c) \cap Entries(a) = {}
    /\ (Entries(b \o c) \cup Entries(a)) \cap Entries(d) = {}

LEMMA ConcatSame ==
    ASSUME NEW a, NEW b, NEW c, NEW d, Apart(a, b, c, d)
    PROVE  /\ a \o c \o b \o d \in Seq(Records)
           /\ Distinct(a \o c \o b \o d)
           /\ Entries(a \o c \o b \o d) = Entries(b \o c) \cup Entries(a) \cup Entries(d)
<1> PICK S : S = Records
  OBVIOUS
<1>0. /\ a \in Seq(S) /\ b \in Seq(S) /\ c \in Seq(S) /\ d \in Seq(S)
      /\ Distinct(b \o c) /\ Distinct(a) /\ Distinct(d) /\ Entries(b \o c) \cap Entries(a) = {}
      /\ (Entries(b \o c) \cup Entries(a)) \cap Entries(d) = {}
  BY DEF Apart
<1> USE <1>0
<1>1. /\ Entries(b \o c) = Entries(b) \cup Entries(c)
      /\ Distinct(b) /\ Distinct(c) /\ Entries(b) \cap Entries(c) = {}
  BY ConcatFacts
<1> PICK e : e = a \o c
  OBVIOUS
<1>2. /\ e \in Seq(S) /\ Entries(e) = Entries(a) \cup Entries(c)
      /\ Distinct(e) <=> Distinct(a) /\ Distinct(c) /\ Entries(a) \cap Entries(c) = {}
  BY ConcatFacts
<1>3. Distinct(e)
  BY ONLY <1>0, <1>1, <1>2
<1> PICK f : f = e \o b
  OBVIOUS
<1>4. /\ f \in Seq(S) /\ Entries(f) = Entries(e) \cup Entries(b)
      /\ Distinct(f) <=> Distinct(e) /\ Distinct(b) /\ Entries(e) \cap Entries(b) = {}
  <2>1. b \in Seq(S)
    OBVIOUS
  <2>2. /\ e \o b \in Seq(S) /\ Entries(e \o b) = Entries(e) \cup Entries(b)
        /\ Distinct(e \o b) <=> Distinct(e) /\ Distinct(b) /\ Entries(e) \cap Entries(b) = {}
    BY ONLY <1>2, <2>1, ConcatFacts
  <2> QED
    BY <2>2
<1>5. Distinct(f) /\ Entries(f) = Entries(b \o c) \cup Entries(a)
  BY ONLY <1>0, <1>1, <1>2, <1>3, <1>4
<1>6. /\ f \o d \in Seq(S) /\ Entries(f \o d) = Entries(f) \cup Entries(d)
      /\ Distinct(f \o d) <=> Distinct(f) /\ Distinct(d) /\ Entries(f) \cap Entries(d) = {}
  <2>1. d \in Seq(S)
    OBVIOUS
  <2> QED
    BY ONLY <1>4, <2>1, ConcatFacts
<1>7. Distinct(f \o d)
  BY <1>5, <1>6
<1> QED
  BY <1>5, <1>6, <1>7

LEMMA Regrouped ==
    ASSUME NEW S, NEW a \in Seq(S), NEW b \in Seq(S), NEW c \in Seq(S)
    PROVE  (a \o b) \o c = a \o (b \o c)
<1> PICK e : e = a \o b
  OBVIOUS
<1> PICK f : f = b \o c
  OBVIOUS
<1>1. /\ e \in Seq(S) /\ Len(e) = Len(a) + Len(b)
      /\ \A n \in 1 .. Len(a) : e[n] = a[n]
      /\ \A n \in Len(a) + 1 .. Len(a) + Len(b) : e[n] = b[n - Len(a)]
  OBVIOUS
<1>2. /\ f \in Seq(S) /\ Len(f) = Len(b) + Len(c)
      /\ \A n \in 1 .. Len(b) : f[n] = b[n]
      /\ \A n \in Len(b) + 1 .. Len(b) + Len(c) : f[n] = c[n - Len(b)]
  OBVIOUS
<1> PICK x, y, z : x = Len(a) /\ y = Len(b) /\ z = Len(c)
  OBVIOUS
<1>3. x \in Nat /\ y \in Nat /\ z \in Nat /\ x = Len(a) /\ y = Len(b) /\ z = Len(c)
  OBVIOUS
<1> PICK g : g = e \o c
  OBVIOUS
<1> PICK h : h = a \o f
  OBVIOUS
<1>8. /\ \A n \in 1 .. x : e[n] = a[n]
      /\ \A n \in x + 1 .. x + y : e[n] = b[n - x]
      /\ \A n \in 1 .. y : f[n] = b[n]
      /\ \A n \in y + 1 .. y + z : f[n] = c[n - y]
  BY ONLY <1>1, <1>2, <1>3
<1>4. /\ g \in Seq(S) /\ Len(g) = x + y + z
      /\ \A n \in 1 .. x + y : g[n] = e[n]
      /\ \A n \in x + y + 1 .. x + y + z : g[n] = c[n - (x + y)]
  BY <1>1, <1>3
<1>5. /\ h \in Seq(S) /\ Len(h) = x + y + z
      /\ \A n \in 1 .. x : h[n] = a[n]
      /\ \A n \in x + 1 .. x + y + z : h[n] = f[n - x]
  BY <1>2, <1>3
<1>6. ASSUME NEW n \in 1 .. x + y + z PROVE g[n] = h[n]
  <2>1. CASE n \in 1 .. x
    <3>1. n \in 1 .. x + y
      BY ONLY <1>3, <2>1
    <3> QED
      BY ONLY <1>4, <1>5, <1>8, <2>1, <3>1
  <2>2. CASE n \in x + 1 .. x + y
    <3>1. n - x \in 1 .. y /\ n \in 1 .. x + y /\ n \in x + 1 .. x + y + z
      BY ONLY <1>3, <2>2
    <3> QED
      <4>1. g[n] = e[n] /\ e[n] = b[n - x]
        BY ONLY <1>4, <1>8, <2>2, <3>1
      <4>2. h[n] = f[n - x] /\ f[n - x] = b[n - x]
        BY ONLY <1>5, <1>8, <3>1
      <4> QED
        BY ONLY <4>1, <4>2
  <2>3. CASE n \in x + y + 1 .. x + y + z
    <3>1. n - x \in y + 1 .. y + z /\ (n - x) - y = n - (x + y) /\ n \in x + 1 .. x + y + z
      BY ONLY <1>3, <2>3
    <3> QED
      <4>1. g[n] = c[n - (x + y)]
        BY ONLY <1>4, <2>3
      <4>2. h[n] = f[n - x] /\ f[n - x] = c[(n - x) - y]
        BY ONLY <1>5, <1>8, <3>1
      <4> QED
        BY ONLY <3>1, <4>1, <4>2
  <2> QED
    BY <1>3, <1>6, <2>1, <2>2, <2>3
<1>7. g = h
  BY ONLY <1>3, <1>4, <1>5, <1>6
<1> QED
  BY <1>7

LEMMA NoTasks ==
    ASSUME NEW mode, NEW child
    PROVE  Tasks(<<>>, mode, child) = <<>>
<1> PICK t : t = Tasks(<<>>, mode, child)
  OBVIOUS
<1>1. DOMAIN <<>> = 1 .. 0
  OBVIOUS
<1>2. t = [n \in 1 .. 0 |-> [record |-> <<>>[n], mode |-> mode, from |-> child[<<>>[n]], again |-> TRUE]]
  BY <1>1 DEF Tasks
<1>3. t = [n \in 1 .. 0 |-> t[n]] /\ \A n \in 1 .. 0 : t[n] \in {}
  BY <1>2
<1>4. t \in Seq(Nat) /\ Len(t) = 0
  <2>1. \A n \in 1 .. 0 : t[n] \in Nat
    BY <1>3
  <2>2. t \in [1 .. 0 -> Nat]
    BY <1>3, <2>1, Zenon
  <2> QED
    BY ONLY <2>2
<1> QED
  BY <1>4, EmptyIffNoEntries

LEMMA SplitStep == ASSUME DiskInv, NEW s \in Segments, Split(s) PROVE DiskInv'
<1> PICK task : task = Head(adding)
  OBVIOUS
<1> PICK sax : sax = words[task.record]
  OBVIOUS
<1> PICK p : p = LeafFor(task.from, sax)
  OBVIOUS
<1> PICK n : n = tree[p]
  OBVIOUS
<1> PICK r0 : r0 = task.record
  OBVIOUS
<1> PICK old : old = InheritedMask(p)
  OBVIOUS
<1> PICK mask : mask = [old EXCEPT ![s] = @ + 1]
  OBVIOUS
<1> PICK child : child = [r \in DOMAIN words |-> Append(p, Branch(words[r], mask, s))]
  OBVIOUS
<1> PICK filed : filed = Len(ReadFile(File(n.box, Partial)))
  OBVIOUS
<1> PICK again : again = [task EXCEPT !.from = p]
  OBVIOUS
<1> PICK rest : rest = Tail(adding)
  BY Zenon
<1>0. /\ adding # <<>> /\ ~exited /\ IsFull(n) /\ s \in Splittable(old)
      /\ tree' = [q \in Nodes \cup {Append(p, 0), Append(p, 1)} |->
                       IF q = p THEN NodeSplit(n, filed, NewBuffer, mask, s)
                       ELSE IF q \in Nodes THEN tree[q] ELSE NewLeaf]
      /\ files' = FilesLeft(p)
      /\ adding' = SplitBuffer(p, child) \o <<again>> \o rest
      /\ UNCHANGED <<words, hard, fbl, index_idx, at, loading, phase, exited, stale, torn>>
  BY Zenon DEF Split, NodeSplit
<1>1. /\ Statics /\ phase = "build" /\ Building
      /\ task \in CallType /\ GoodCall(task) /\ sax \in Words
      /\ rest \in Seq(CallType)
      /\ \A c \in Entries(rest) : c \in CallType /\ GoodCall(c)
      /\ r0 \in Entries(Hand)
      /\ \A r : r \in Entries(Hand) <=> r = r0 \/ r \in Entries(RecordsOf(rest))
      /\ Distinct(RecordsOf(rest))
      /\ r0 \notin Entries(RecordsOf(rest))
      /\ p \in Leaves /\ p \in Nodes /\ OnRoute(p, sax)
      /\ at.j \in DOMAIN MasksInOrder /\ at.i # 0 /\ p[1] = Current
  BY <1>0, FirstCall, ZenonT(60)
<1>2. Types /\ Shape /\ Routes /\ SplitBits /\ Boxed
  BY <1>1, SMTT(30) DEF Statics
<1>3. n \in NodeType /\ LeafBuild(p) /\ n.is_leaf /\ tree[p] = n
  BY <1>1, <1>2 DEF Types, Building, Leaves
<1>4. /\ n.box # NoBox /\ PartialFile(n) = ReadFile(PartOf(n))
      /\ n.buffer[Full].records = <<>> /\ n.buffer[TmpFull].records = <<>>
  <2>1. n.leaf_size # 0
    <3>1. n.leaf_size \in Nat
      BY <1>3 DEF NodeType
    <3>2. n.leaf_size >= MaxLeafSize
      BY <1>0, Zenon DEF IsFull
    <3> QED
      BY <3>1, <3>2, MaxLeafSizeAssumption, SMTT(30)
  <2>2. n.box # NoBox
    BY <1>3, <2>1, Zenon DEF LeafBuild
  <2>3. n.has_partial <=> PartOf(n) \in DOMAIN files
    BY <1>3, <2>2, Zenon DEF LeafBuild
  <2>4. PartialFile(n) = ReadFile(PartOf(n))
    BY <2>3, SMTT(30) DEF PartialFile, ReadFile, PartOf
  <2> QED
    BY <1>3, <2>2, <2>4, Zenon DEF LeafBuild
<1>5. /\ old \in [Segments -> 0 .. Bits - 1] /\ mask \in [Segments -> 0 .. Bits - 1]
  <2>1. old \in [Segments -> 0 .. Bits - 1]
    BY <1>1, <1>2, MaskType
  <2>2. old[s] + 1 <= Bits - 1
    BY <1>0, Zenon DEF Splittable
  <2>3. old[s] + 1 \in 0 .. Bits - 1
    BY <2>1, <2>2, BitsAssumption, SMTT(30)
  <2> QED
    BY <2>1, <2>3, Zenon
<1>6. filed \in Nat /\ filed = Len(ReadFile(PartOf(n)))
  <2>1. filed = Len(ReadFile(PartOf(n)))
    BY SMTT(30) DEF PartOf
  <2>2. ReadFile(PartOf(n)) \in Seq(Records)
    BY <1>2, ReadType, SMTT(30)
  <2> QED
    BY <2>1, <2>2, SMTT(30)
<1> PICK one : one = NodeSplit(n, filed, NewBuffer, mask, s)
  OBVIOUS
<1>7. one \in NodeType /\ ~one.is_leaf /\ one.box = n.box /\ one.split_mask = mask /\ one.splitpoint = s
  <2>1. NewBuffer \in BufferType
    BY NewBufferType
  <2> QED
    <3>1. one = NodeSplit(n, filed, NewBuffer, mask, s) /\ s \in Segments
      BY Zenon
    <3> QED
      BY ONLY <1>3, <1>5, <1>6, <2>1, <3>1, SplitInto, SMTT(30)
<1>8. /\ Nodes' = Nodes \cup {Append(p, 0), Append(p, 1)}
      /\ tree' \in [Nodes' -> NodeType] /\ tree'[p] = one
      /\ \A q \in Nodes : q # p => tree'[q] = tree[q]
      /\ \A x \in {0, 1} : Append(p, x) \notin Nodes => tree'[Append(p, x)] = NewLeaf
  <2>1. tree' = [q \in Nodes \cup {Append(p, 0), Append(p, 1)} |->
                       IF q = p THEN one ELSE IF q \in Nodes THEN tree[q] ELSE NewLeaf]
    BY <1>0, Zenon
  <2>2. Nodes' = Nodes \cup {Append(p, 0), Append(p, 1)}
    BY <2>1, ZenonT(60) DEF Nodes
  <2>3. tree \in [Nodes -> NodeType]
    BY <1>2 DEF Types
  <2>4. tree' \in [Nodes' -> NodeType]
    BY <1>7, <2>1, <2>2, <2>3, NewLeafFacts, ZenonT(60)
  <2>5. tree'[p] = one /\ \A q \in Nodes : q # p => tree'[q] = tree[q]
    BY <1>1, <2>1, Zenon
  <2>6. \A x \in {0, 1} : Append(p, x) \notin Nodes => tree'[Append(p, x)] = NewLeaf
    <3> SUFFICES ASSUME NEW x \in {0, 1}, Append(p, x) \notin Nodes
                 PROVE  tree'[Append(p, x)] = NewLeaf
      OBVIOUS
    <3> PICK c : c = Append(p, x)
      BY Zenon
    <3>1. c \in Nodes \cup {Append(p, 0), Append(p, 1)} /\ c # p /\ c \notin Nodes
      BY <1>1, Zenon
    <3> QED
      BY <2>1, <3>1, Zenon
  <2> QED
    BY <2>2, <2>4, <2>5, <2>6, Zenon
<1>9. SplitAt(p, s, mask)
  BY <1>0, <1>1, <1>3, <1>5, <1>7, <1>8, Zenon DEF SplitAt
<1>10. /\ p \in Paths
       /\ Leaves' = (Leaves \ {p}) \cup {Append(p, 0), Append(p, 1)}
       /\ \A x \in {0, 1} : tree'[Append(p, x)] = NewLeaf
  BY <1>1, <1>9, SplitLeaves, Zenon
<1>11. /\ \A q \in Nodes : \A w : OnRoute(q, w)' <=> OnRoute(q, w)
       /\ \A x \in {0, 1} : \A w :
              OnRoute(Append(p, x), w)' <=> OnRoute(p, w) /\ Branch(w, mask, s) = x
  BY ONLY <1>1, <1>9, SplitRoutes
<1>12. Shape' /\ Routes' /\ SplitBits' /\ Boxed'
  BY <1>1, <1>9, SplitShape, SplitKeepsRoutes, SplitKeepsBits, Zenon
\* Each record of the leaf and its child.
<1>13. ASSUME NEW r \in DOMAIN words, OnRoute(p, words[r])
       PROVE  child[r] \in Nodes' /\ OnRoute(child[r], words[r])' /\ child[r] \in Paths
  <2>1. words[r] \in Words
    <3>1. words \in Seq(Words) /\ r \in DOMAIN words
      BY <1>2, <1>13, Zenon DEF Types
    <3> QED
      BY ONLY <3>1
  <2>2. Branch(words[r], mask, s) \in {0, 1}
    <3>1. words[r][s] \in [1 .. Bits -> {0, 1}]
      BY <2>1, Zenon DEF Words
    <3>2. mask[s] + 1 \in 1 .. Bits
      <4>1. mask[s] \in 0 .. Bits - 1
        BY <1>5, Zenon
      <4> QED
        BY ONLY <4>1, BitsAssumption
    <3> QED
      BY <3>1, <3>2, Zenon DEF Branch
  <2> PICK x : x = Branch(words[r], mask, s)
    OBVIOUS
  <2>3. child[r] = Append(p, x) /\ x \in {0, 1}
    BY <2>2, Zenon
  <2>4. OnRoute(Append(p, x), words[r])'
    <3> PICK w : w = words[r]
      OBVIOUS
    <3>1. OnRoute(Append(p, x), w)' <=> OnRoute(p, w) /\ Branch(w, mask, s) = x
      BY <1>11, <2>3, ZenonT(60)
    <3>2. w = words'[r]
      BY <1>0, Zenon
    <3>3. OnRoute(Append(p, x), w)'
      BY <1>13, <3>1
    <3> QED
      BY <1>0, <3>3, ZenonT(60)
  <2>5. Append(p, x) \in Nodes' /\ Append(p, x) \in Paths
    BY <1>8, <1>10, <2>3, ChildFacts, ZenonT(60)
  <2> QED
    BY <1>0, <2>3, <2>4, <2>5, ZenonT(60)
<1> PICK fs : fs = ReadFile(PartOf(n))
  OBVIOUS
<1> PICK ps : ps = n.buffer[Partial].records
  BY Zenon
<1> PICK ts : ts = n.buffer[TmpPartial].records
  BY Zenon
<1>14. /\ fs \in Seq(Records) /\ ps \in Seq(Records) /\ ts \in Seq(Records)
       /\ HeldBy(n) = (ps \o ts) \o fs
  <2>1. Partial \in Modes /\ TmpPartial \in Modes
    BY Zenon DEF Modes
  <2> QED
    BY <1>2, <1>3, <1>4, <2>1, ReadType, NodeParts, Zenon DEF HeldBy, FlushedPartial
<1>15. /\ Entries(HeldBy(n)) = Entries(ps \o ts) \cup Entries(fs)
       /\ Entries(ps \o ts) = Entries(ps) \cup Entries(ts)
       /\ Distinct(ps \o ts) /\ Distinct(fs) /\ Entries(ps \o ts) \cap Entries(fs) = {}
  <2> PICK h : h = ps \o ts
    BY Zenon
  <2>1. h \in Seq(Records) /\ Entries(h) = Entries(ps) \cup Entries(ts)
    <3>1. h = ps \o ts
      BY Zenon
    <3> QED
      BY ONLY <1>14, <3>1, ConcatFacts
  <2>2. Distinct(h \o fs)
    BY <1>3, <1>14, Zenon DEF LeafBuild
  <2>3. /\ Entries(h \o fs) = Entries(h) \cup Entries(fs)
        /\ Distinct(h \o fs) <=> Distinct(h) /\ Distinct(fs) /\ Entries(h) \cap Entries(fs) = {}
    BY ONLY <1>14, <2>1, ConcatFacts
  <2> QED
    BY <1>14, <2>1, <2>2, <2>3, Zenon
<1>16. \A r \in Entries(HeldBy(n)) : /\ r \in DOMAIN words /\ OnRoute(p, words[r])
                                     /\ ~Awaiting(r) /\ r \notin Entries(Hand)
  BY <1>3, Zenon DEF LeafBuild
<1> PICK rs : rs = Reverse(fs)
  BY Zenon
<1>17. /\ rs \in Seq(Records) /\ Entries(rs) = Entries(fs) /\ Distinct(rs)
  <2>1. rs = Reverse(fs)
    BY Zenon
  <2> QED
    BY ONLY <1>14, <1>15, <2>1, ReverseFacts
<1> PICK a : a = Tasks(rs, TmpPartial, child)
  BY Zenon
<1> PICK b : b = Tasks(ts, TmpPartial, child)
  BY Zenon
<1> PICK c : c = Tasks(ps, Partial, child)
  BY Zenon
<1>18. \A r \in Entries(rs) \cup Entries(ts) \cup Entries(ps) :
           /\ r \in Entries(HeldBy(n)) /\ r \in DOMAIN words /\ OnRoute(p, words[r])
           /\ child[r] \in Paths
  <2>1. \A r \in DOMAIN words : OnRoute(p, words[r]) => child[r] \in Paths
    BY ONLY <1>13
  <2> QED
    BY ONLY <1>15, <1>16, <1>17, <2>1
<1>41. /\ a = Tasks(rs, TmpPartial, child) /\ b = Tasks(ts, TmpPartial, child)
       /\ c = Tasks(ps, Partial, child)
       /\ TmpPartial \in {Partial, TmpPartial} /\ Partial \in {Partial, TmpPartial}
       /\ \A r \in Entries(rs) : child[r] \in Paths
       /\ \A r \in Entries(ts) : child[r] \in Paths
       /\ \A r \in Entries(ps) : child[r] \in Paths
  <2>1. /\ a = Tasks(rs, TmpPartial, child) /\ b = Tasks(ts, TmpPartial, child)
        /\ c = Tasks(ps, Partial, child)
    BY Zenon
  <2> QED
    BY ONLY <1>18, <2>1
<1>19. /\ a \in Seq(CallType) /\ RecordsOf(a) = rs
       /\ \A e \in Entries(a) : e.record \in Entries(rs) /\ e.mode = TmpPartial /\ e.from = child[e.record]
  BY ONLY <1>17, <1>41, TasksFacts
<1>20. /\ b \in Seq(CallType) /\ RecordsOf(b) = ts
       /\ \A e \in Entries(b) : e.record \in Entries(ts) /\ e.mode = TmpPartial /\ e.from = child[e.record]
  BY ONLY <1>14, <1>41, TasksFacts
<1>21. /\ c \in Seq(CallType) /\ RecordsOf(c) = ps
       /\ \A e \in Entries(c) : e.record \in Entries(ps) /\ e.mode = Partial /\ e.from = child[e.record]
  BY ONLY <1>14, <1>41, TasksFacts
<1>22. SplitBuffer(p, child) = a \o b \o c
  <2>1. Tasks(<<>>, TmpFull, child) = <<>> /\ Tasks(<<>>, Full, child) = <<>>
    BY NoTasks, Zenon
  <2>2. SplitBuffer(p, child) = a \o b \o <<>> \o c \o <<>>
    BY <1>3, <1>4, <2>1, Zenon DEF SplitBuffer, PartOf
  <2>3. PICK ab : ab = a \o b
    BY Zenon
  <2>4. ab \in Seq(CallType)
    BY ONLY <1>19, <1>20, <2>3, ConcatFacts
  <2>5. ab \o <<>> = ab
    BY <2>4, NoneAdded, Zenon
  <2>6. ab \o c \in Seq(CallType)
    BY ONLY <1>21, <2>4, ConcatFacts
  <2>7. (ab \o c) \o <<>> = ab \o c
    BY <2>6, NoneAdded, Zenon
  <2> QED
    BY ONLY <2>2, <2>3, <2>5, <2>7
<1>23. again \in CallType /\ again.record = r0 /\ again.mode = task.mode /\ again.from = p
  BY <1>1, <1>10, Zenon DEF CallType
<1> PICK d : d = <<again>> \o rest
  BY Zenon
<1>24. /\ d \in Seq(CallType) /\ Entries(d) = {again} \cup Entries(rest)
       /\ RecordsOf(d) = <<r0>> \o RecordsOf(rest)
  <2>1. <<again>> \in Seq(CallType) /\ Entries(<<again>>) = {again} /\ RecordsOf(<<again>>) = <<r0>>
    BY <1>23, OneCall, Zenon
  <2> PICK o : o = <<again>>
    BY Zenon
  <2>2. o \in Seq(CallType) /\ rest \in Seq(CallType)
    BY <1>1, <2>1, Zenon
  <2>3. o \o rest \in Seq(CallType) /\ Entries(o \o rest) = Entries(o) \cup Entries(rest)
    BY ONLY <2>2, ConcatFacts
  <2>4. RecordsOf(o \o rest) = RecordsOf(o) \o RecordsOf(rest)
    BY ONLY <2>2, RecordsFacts
  <2> QED
    BY <2>1, <2>3, <2>4, Zenon
<1> PICK hs : hs = <<r0>> \o RecordsOf(rest)
  BY Zenon
<1>25. hs \in Seq(Records) /\ Distinct(hs) /\ \A r : r \in Entries(hs) <=> r \in Entries(Hand)
  <2>1. r0 \in Records /\ RecordsOf(rest) \in Seq(Records)
    BY <1>1, RecordsFacts, Zenon DEF CallType
  <2>2. <<r0>> \in Seq(Records) /\ Entries(<<r0>>) = {r0} /\ Distinct(<<r0>>)
    BY <2>1, OneEntry, Zenon
  <2> PICK o : o = <<r0>>
    BY Zenon
  <2> PICK q : q = RecordsOf(rest)
    BY Zenon
  <2>3. o \in Seq(Records) /\ q \in Seq(Records)
    BY <2>1, <2>2, Zenon
  <2>4. /\ o \o q \in Seq(Records) /\ Entries(o \o q) = Entries(o) \cup Entries(q)
        /\ Distinct(o \o q) <=> Distinct(o) /\ Distinct(q) /\ Entries(o) \cap Entries(q) = {}
    BY ONLY <2>3, ConcatFacts
  <2> QED
    BY <1>1, <2>2, <2>4, Zenon
<1>26. /\ adding' = a \o b \o c \o d
  <2> PICK abc : abc = a \o b \o c
    BY Zenon
  <2>1. adding' = abc \o <<again>> \o rest
    BY <1>0, <1>22, Zenon
  <2>2. abc \in Seq(CallType)
    <3>1. PICK ab : ab = a \o b
      BY Zenon
    <3>2. ab \in Seq(CallType)
      BY ONLY <1>19, <1>20, <3>1, ConcatFacts
    <3>3. ab \o c \in Seq(CallType)
      BY ONLY <1>21, <3>2, ConcatFacts
    <3>4. abc = a \o b \o c
      BY Zenon
    <3> QED
      BY ONLY <3>1, <3>3, <3>4
  <2>3. <<again>> \in Seq(CallType) /\ rest \in Seq(CallType)
    BY <1>1, <1>23, OneCall, Zenon
  <2>4. abc \o <<again>> \o rest = abc \o (<<again>> \o rest)
    <3>0. PICK o : o = <<again>>
      BY Zenon
    <3>1. (abc \o o) \o rest = abc \o (o \o rest)
      BY ONLY <2>2, <2>3, <3>0, Regrouped
    <3> QED
      BY ONLY <3>0, <3>1
  <2> QED
    BY <2>1, <2>4, Zenon
<1>27. /\ adding' \in Seq(CallType) /\ adding' # <<>>
       /\ Entries(adding') = Entries(a) \cup Entries(b) \cup Entries(c) \cup {again} \cup Entries(rest)
       /\ Hand' = rs \o ts \o ps \o hs
  <2>1. /\ a \o b \o c \o d \in Seq(CallType)
        /\ Entries(a \o b \o c \o d) = Entries(a) \cup Entries(b) \cup Entries(c) \cup Entries(d)
        /\ RecordsOf(a \o b \o c \o d)
                  = RecordsOf(a) \o RecordsOf(b) \o RecordsOf(c) \o RecordsOf(d)
    <3>1. a \in Seq(CallType) /\ b \in Seq(CallType) /\ c \in Seq(CallType) /\ d \in Seq(CallType)
      BY ONLY <1>19, <1>20, <1>21, <1>24
    <3>2. Joins(a \o b \o c \o d, a, b, c, d)
      BY ONLY <3>1, JoinedCalls
    <3> QED
      BY ONLY <3>2 DEF Joins
  <2>2. again \in Entries(adding')
    BY <1>24, <1>26, <2>1, Zenon
  <2>3. adding' # <<>>
    BY <2>2, NoEntries, Zenon
  <2>4. Hand' = RecordsOf(adding')
    BY Zenon DEF Hand
  <2> QED
    BY <1>19, <1>20, <1>21, <1>24, <1>26, <2>1, <2>3, <2>4, ZenonT(60)
<1>28. /\ Distinct(Hand')
       /\ \A r : r \in Entries(Hand') <=> r \in Entries(HeldBy(n)) \/ r \in Entries(Hand)
  <2>1. /\ Entries(ps \o ts) \cap Entries(rs) = {}
        /\ (Entries(ps \o ts) \cup Entries(rs)) \cap Entries(hs) = {}
    BY <1>15, <1>16, <1>17, <1>25, ZenonT(60)
  <2>2. /\ rs \in Seq(Records) /\ Distinct(rs)
    BY <1>17, Zenon
  <2>4. Distinct(hs) /\ Distinct(ps \o ts) /\ hs \in Seq(Records)
    BY ONLY <1>15, <1>25
  <2>3. /\ Distinct(rs \o ts \o ps \o hs)
        /\ Entries(rs \o ts \o ps \o hs) = Entries(ps \o ts) \cup Entries(rs) \cup Entries(hs)
    <3>1. Apart(rs, ps, ts, hs)
      BY ONLY <1>14, <2>1, <2>2, <2>4 DEF Apart
    <3> QED
      BY ONLY <3>1, ConcatSame
  <2> QED
    BY ONLY <1>15, <1>17, <1>25, <1>27, <2>3
<1>29. /\ files' = [f \in DOMAIN files \ {PartOf(n)} |-> files[f]]
       /\ DOMAIN files' = DOMAIN files \ {PartOf(n)}
       /\ \A f \in DOMAIN files \ {PartOf(n)} : files'[f] = files[f]
  BY <1>0, <1>3, Zenon DEF FilesLeft, Restrict, PartOf
<1>30. Types'
  <2>1. files' \in [DOMAIN files' -> Seq(Records)]
    BY <1>2, <1>29, Zenon DEF Types
  <2> QED
    BY <1>0, <1>2, <1>8, <1>27, <2>1, Zenon DEF Types
<1>31. Statics'
  BY <1>12, <1>30, Zenon DEF Statics
<1>32. Current' = Current /\ InBuffer' = InBuffer
       /\ (\A r : Given(r)' <=> Given(r)) /\ \A r : Awaiting(r)' <=> Awaiting(r)
  BY <1>0, Zenon DEF Current, InBuffer, Given, Awaiting
<1>33. Soft' /\ Loop'
  <2>1. Soft'
    BY <1>0, <1>1, Zenon DEF Building, Soft
  <2>2. Loop'
    BY <1>0, <1>1, <1>32, Zenon DEF Building, Loop
  <2> QED
    BY <2>1, <2>2, Zenon
<1>34. Calls'
  <2>1. ASSUME NEW e, NEW r, e.record = r, r \in Entries(HeldBy(n)), e.from = child[r],
               e.mode = Partial => r \in Entries(ps)
        PROVE  GoodCall(e)'
    <3>1. r \in DOMAIN words /\ OnRoute(p, words[r]) /\ ~Awaiting(r)
      BY <1>16, <2>1, Zenon
    <3>2. MaskOf(words[r]) = Current
      BY <1>1, <3>1, Zenon DEF OnRoute
    <3>3. child[r] \in Nodes' /\ OnRoute(child[r], words[r])'
      BY <1>13, <3>1, Zenon
    <3>4. e.mode = Partial => Given(r)
      BY <1>3, <2>1, Zenon DEF LeafBuild
    <3> QED
      BY <1>0, <1>32, <2>1, <3>1, <3>2, <3>3, <3>4, Zenon DEF GoodCall
  <2>2. ASSUME NEW e \in Entries(a) PROVE GoodCall(e)'
    <3>1. e.record \in Entries(HeldBy(n)) /\ e.from = child[e.record] /\ e.mode # Partial
      BY <1>18, <1>19, ZenonT(60) DEF TmpPartial, Partial
    <3> QED
      BY <2>1, <3>1, Zenon
  <2>3. ASSUME NEW e \in Entries(b) PROVE GoodCall(e)'
    <3>1. e.record \in Entries(HeldBy(n)) /\ e.from = child[e.record] /\ e.mode # Partial
      BY <1>18, <1>20, ZenonT(60) DEF TmpPartial, Partial
    <3> QED
      BY <2>1, <3>1, Zenon
  <2>4. ASSUME NEW e \in Entries(c) PROVE GoodCall(e)'
    <3>1. e.record \in Entries(HeldBy(n)) /\ e.from = child[e.record] /\ e.record \in Entries(ps)
      BY <1>18, <1>21, Zenon
    <3> QED
      BY <2>1, <3>1, Zenon
  <2>5. ASSUME NEW e \in Entries(rest) PROVE GoodCall(e)'
    <3>1. GoodCall(e)
      BY <1>1, Zenon
    <3> QED
      BY <1>0, <1>8, <1>11, <1>32, <3>1, Zenon DEF GoodCall
  <2>6. GoodCall(again)'
    <3>1. GoodCall(task) /\ p \in Nodes' /\ OnRoute(p, sax)'
      BY <1>1, <1>8, <1>11, Zenon
    <3>2. again.record = r0 /\ again.mode = task.mode /\ again.from = p
      BY <1>23, Zenon
    <3>3. words' = words /\ sax = words[r0]
      BY <1>0, Zenon
    <3>4. OnRoute(p, words[r0])'
      BY <3>1, <3>3, Zenon
    <3> QED
      BY <1>32, <3>1, <3>2, <3>3, <3>4, Zenon DEF GoodCall
  <2>7. \A e \in Entries(adding') : GoodCall(e)'
    BY <1>27, <2>2, <2>3, <2>4, <2>5, <2>6, Zenon
  <2> QED
    BY <1>28, <2>7, Zenon DEF Calls
<1>35. ASSUME NEW q \in Leaves, q # p
       PROVE  /\ q \in Nodes /\ tree'[q] = tree[q] /\ LeafBuild(q)
              /\ tree[q].box # NoBox => PartOf(tree[q]) # PartOf(n)
              /\ HeldBy(tree[q])' = HeldBy(tree[q])
  <2>1. q \in Nodes /\ tree'[q] = tree[q] /\ LeafBuild(q)
    BY <1>1, <1>8, <1>35, LeafIsNode, Zenon DEF Building
  <2>2. tree[q].box # NoBox => tree[q].box # n.box
    BY <1>1, <1>3, <1>35, NamesApart, Zenon
  <2>3. tree[q].box # NoBox => PartOf(tree[q]) # PartOf(n)
    BY <2>2, Zenon DEF PartOf, File
  <2>4. tree[q].has_partial => tree[q].box # NoBox
    BY <2>1, Zenon DEF LeafBuild
  <2>5. PartialFile(tree[q])' = PartialFile(tree[q])
    <3>1. CASE tree[q].has_partial
      <4>1. ReadFile(PartOf(tree[q]))' = ReadFile(PartOf(tree[q]))
        BY <1>29, <2>1, <2>3, <2>4, <3>1, Zenon DEF ReadFile, PartOf
      <4> QED
        BY <2>1, <4>1, Zenon DEF PartialFile, PartOf
    <3>2. CASE ~tree[q].has_partial
      BY <2>1, <3>2, Zenon DEF PartialFile
    <3> QED
      BY <3>1, <3>2, Zenon
  <2>6. HeldBy(tree[q])' = HeldBy(tree[q])
    BY <2>1, <2>5, Zenon DEF HeldBy
  <2> QED
    BY <2>1, <2>3, <2>6, Zenon
<1>36. ASSUME NEW q \in Leaves, q # p PROVE LeafBuild(q)'
  <2>1. /\ q \in Nodes /\ tree'[q] = tree[q] /\ LeafBuild(q)
        /\ tree[q].box # NoBox => PartOf(tree[q]) # PartOf(n)
        /\ HeldBy(tree[q])' = HeldBy(tree[q])
    BY <1>35, <1>36, Zenon
  <2>2. ASSUME NEW r \in Entries(HeldBy(tree[q]))
        PROVE  /\ r \in DOMAIN words' /\ OnRoute(q, words[r])'
               /\ ~Awaiting(r)' /\ r \notin Entries(Hand')
    <3>1. r \in DOMAIN words /\ OnRoute(q, words[r]) /\ ~Awaiting(r) /\ r \notin Entries(Hand)
      BY <2>1, <2>2, Zenon DEF LeafBuild
    <3>2. r \notin Entries(HeldBy(n))
      BY <1>1, <1>2, <1>16, <1>36, <3>1, OneLeaf, Zenon
    <3> QED
      BY <1>0, <1>11, <1>28, <1>32, <2>1, <3>1, <3>2, Zenon
  <2>3. tree[q].has_partial <=> tree[q].box # NoBox /\ PartOf(tree[q]) \in DOMAIN files'
    BY <1>29, <2>1, Zenon DEF LeafBuild
  <2>4. PartOf(tree[q])' = PartOf(tree[q])
    BY <2>1, Zenon DEF PartOf
  <2> QED
    BY <1>0, <1>32, <2>1, <2>2, <2>3, <2>4, Zenon DEF LeafBuild
<1>37. ASSUME NEW x \in {0, 1} PROVE LeafBuild(Append(p, x))'
  <2> PICK q : q = Append(p, x)
    BY Zenon
  <2>1. tree'[q] = NewLeaf
    BY <1>10, Zenon
  <2>2. /\ NewLeaf.box = NoBox /\ NewLeaf.leaf_size = 0
        /\ NewLeaf.buffer = NewBuffer /\ ~NewLeaf.has_full /\ ~NewLeaf.has_partial
    BY NewLeafFacts, Zenon
  <2>3. /\ HeldBy(NewLeaf) = <<>> /\ FlushedPartial(NewLeaf.buffer) = <<>> /\ NoGrowth(NewLeaf)
        /\ NewLeaf.buffer[Full].records = <<>> /\ NewLeaf.buffer[TmpFull].records = <<>>
        /\ NewLeaf.buffer[Partial].records = <<>>
    BY <2>2, FreshLeaf, Zenon
  <2>4. HeldBy(tree[q])' = <<>>
    BY <2>1, <2>2, <2>3, Zenon DEF HeldBy, PartialFile
  <2>5. Len(<<>>) = 0 /\ 0 <= MaxLeafSize
    BY ONLY MaxLeafSizeAssumption
  <2>6. /\ tree'[q].buffer[Full].records = <<>> /\ tree'[q].buffer[TmpFull].records = <<>>
        /\ tree'[q].buffer[Partial].records = <<>> /\ FlushedPartial(tree'[q].buffer) = <<>>
        /\ ~tree'[q].has_full /\ ~tree'[q].has_partial /\ tree'[q].box = NoBox
        /\ tree'[q].leaf_size = 0
    BY ONLY <2>1, <2>2, <2>3
  <2>7. NoGrowth(tree[q])'
    BY ONLY <2>1, <2>3 DEF NoGrowth
  <2>8. Entries(<<>>) = {} /\ Distinct(<<>>)
    BY ONLY NoEntries
  <2>9. /\ tree'[q].leaf_size = Len(HeldBy(tree[q])') /\ tree'[q].leaf_size <= MaxLeafSize
        /\ Distinct(HeldBy(tree[q])') /\ Entries(HeldBy(tree[q])') = {}
        /\ Entries(tree'[q].buffer[Partial].records) = {}
    BY ONLY <2>4, <2>5, <2>6, <2>8
  <2>10. LeafBuild(q)'
    BY ONLY <2>6, <2>7, <2>9 DEF LeafBuild
  <2> QED
    BY <2>10, Zenon
<1>38. \A q \in Leaves' : LeafBuild(q)'
  BY <1>10, <1>36, <1>37, Zenon
<1>39. Owned'
  <2>1. ASSUME NEW f \in DOMAIN files'
        PROVE  \E q \in Leaves' : tree'[q].box # NoBox /\ f = PartOf(tree'[q])
    <3>1. f \in DOMAIN files /\ f # PartOf(n)
      BY <1>29, Zenon
    <3>2. PICK q \in Leaves : tree[q].box # NoBox /\ f = PartOf(tree[q])
      BY <1>1, <3>1, Zenon DEF Building, Owned
    <3>3. q # p
      BY <1>3, <3>1, <3>2, Zenon
    <3>4. tree'[q] = tree[q] /\ q \in Leaves'
      BY <1>10, <1>35, <3>3, Zenon
    <3> QED
      BY <3>2, <3>4, Zenon
  <2> QED
    BY <2>1, Zenon DEF Owned, PartOf
<1>40. Kept'
  <2>1. ASSUME NEW r \in DOMAIN words
        PROVE  Awaiting(r)' \/ r \in Entries(Hand') \/ \E q \in Leaves' : r \in Entries(HeldBy(tree[q])')
    <3>1. Awaiting(r) \/ r \in Entries(Hand) \/ \E q \in Leaves : r \in Entries(HeldBy(tree[q]))
      BY <1>1, Zenon DEF Building, Kept
    <3>2. ASSUME NEW q \in Leaves, r \in Entries(HeldBy(tree[q]))
          PROVE  r \in Entries(Hand') \/ \E l \in Leaves' : r \in Entries(HeldBy(tree[l])')
      <4>1. CASE q = p
        BY <1>3, <1>28, <3>2, <4>1, Zenon
      <4>2. CASE q # p
        <5>1. HeldBy(tree[q])' = HeldBy(tree[q]) /\ q \in Leaves'
          BY <1>10, <1>35, <4>2, Zenon
        <5>2. r \in Entries(HeldBy(tree[q])')
          BY <3>2, <5>1, Zenon
        <5> QED
          BY <5>1, <5>2, Zenon
      <4> QED
        BY <4>1, <4>2, Zenon
    <3> QED
      BY <1>28, <1>32, <3>1, <3>2, Zenon
  <2> QED
    BY <1>0, <2>1, Zenon DEF Kept
<1> QED
  BY <1>0, <1>1, <1>31, <1>33, <1>34, <1>38, <1>39, <1>40, Zenon DEF DiskInv, Main, Building

\* split_node gives up: the leaf has lost its file and its buffers.
LEMMA ExitStep == ASSUME DiskInv, Exit PROVE DiskInv'
<1> PICK task : task = Head(adding)
  OBVIOUS
<1> PICK sax : sax = words[task.record]
  OBVIOUS
<1> PICK p : p = LeafFor(task.from, sax)
  OBVIOUS
<1> PICK n : n = tree[p]
  OBVIOUS
<1>0. /\ adding # <<>> /\ ~exited /\ exited' = TRUE
      /\ files' = FilesLeft(p)
      /\ tree' = [tree EXCEPT ![p].buffer = NewBuffer, ![p].leaf_size = 0]
      /\ UNCHANGED <<words, hard, fbl, index_idx, at, loading, phase, stale, torn>>
  BY Zenon DEF Exit
<1>1. Statics /\ phase = "build" /\ Building /\ p \in Leaves /\ p \in Nodes
  BY <1>0, FirstCall
<1>2. Types /\ Shape /\ Routes
  BY <1>1 DEF Statics
<1>3. n \in NodeType /\ LeafBuild(p) /\ n.is_leaf /\ tree[p] = n /\ tree \in [Nodes -> NodeType]
  BY <1>1, <1>2 DEF Types, Building, Leaves
<1>4. TypeOK /\ HardBufferHeld
  BY InvTypeOK, InvHardBufferHeld
<1> PICK one : one = [n EXCEPT !.buffer = NewBuffer, !.leaf_size = 0]
  OBVIOUS
<1>5. /\ Nodes' = Nodes /\ tree'[p] = one /\ \A q \in Nodes : q # p => tree'[q] = tree[q]
  <2>1. tree' = [tree EXCEPT ![p] = one]
    BY <1>0, <1>1, <1>3
  <2> QED
    BY <1>1, <1>3, <2>1, SMTT(30) DEF Nodes
<1>6. /\ one.is_leaf = n.is_leaf /\ one.buffer = NewBuffer /\ one.leaf_size = 0
      /\ one.has_full = n.has_full /\ one.has_partial = n.has_partial /\ one.box = n.box
  BY <1>3 DEF NodeType
<1>7. Leaves' = Leaves
  BY <1>3, <1>5, <1>6, ZenonT(60) DEF Leaves
<1>8. ASSUME NEW q \in Leaves, q # p PROVE tree'[q] = tree[q]
  BY <1>5, <1>8, LeafIsNode
<1>9. \A m \in Modes : one.buffer[m].records = <<>> /\ one.buffer[m].max = 0
  BY <1>6 DEF NewBuffer
<1>10. HardBufferHeld'
  <2>1. ASSUME NEW q \in Leaves
        PROVE  ToSet(tree'[q].buffer[Full].records \o tree'[q].buffer[Partial].records) \subseteq ToSet(hard')
    <3>1. CASE q # p
      <4>1. tree'[q] = tree[q] /\ hard' = hard
        BY <1>0, <1>8, <3>1, Zenon
      <4> QED
        BY <1>4, <4>1 DEF HardBufferHeld
    <3>2. CASE q = p
      <4>1. tree'[q].buffer[Full].records \o tree'[q].buffer[Partial].records = <<>>
        <5>1. <<>> \o <<>> = <<>>
          BY NoneAdded
        <5> QED
          BY <1>5, <1>9, <3>2, <5>1, Zenon DEF Modes
      <4> QED
        BY <4>1, SameEntries, NoEntries
    <3> QED
      BY <3>1, <3>2
  <2> QED
    BY <1>7, <2>1 DEF HardBufferHeld
<1>11. TypeOK'
  <2>1. ASSUME NEW q \in Leaves
        PROVE  /\ tree'[q].leaf_size <= MaxLeafSize
               /\ \A m \in Modes : tree'[q].buffer[m].max \in {0, InitialBufferSize}
    <3>1. CASE q # p
      BY <1>4, <1>8, <3>1 DEF TypeOK
    <3>2. CASE q = p
      <4>1. tree'[q] = one /\ one.leaf_size = 0
        BY <1>5, <1>6, <3>2
      <4>2. 0 <= MaxLeafSize
        BY ONLY MaxLeafSizeAssumption, SMTT(30)
      <4> QED
        BY ONLY <1>9, <4>1, <4>2
    <3> QED
      BY <3>1, <3>2
  <2>2. exited' \in BOOLEAN /\ exited'
    BY <1>0
  <2> QED
    BY <1>0, <1>4, <1>5, <1>7, <2>1, <2>2, Zenon DEF TypeOK
<1> QED
  BY <1>0, <1>1, <1>10, <1>11 DEF DiskInv, GivenUp, Building
-----------------------------------------------------------------------------
(* Flushing leaves: what the files and the nodes become.                   *)

Named(t, ps) == \A p, q \in ps : p # q /\ t[p].box # NoBox => t[p].box # t[q].box
Unchanged(g, f) == /\ f \in DOMAIN g <=> f \in DOMAIN files
                   /\ f \in DOMAIN files => g[f] = files[f]
Took(g, f, records) == IF records = <<>> THEN Unchanged(g, f)
                       ELSE f \in DOMAIN g /\ g[f] = Appended(f, records)
Kinds == {Full, Partial}
FileGrows(t, ps, p, kind) == p \in ps /\ t[p].box # NoBox /\ FlushedTo(kind, t[p]) # <<>>
GrownNames(t, ps) == {File(t[p].box, Full) : p \in {q \in ps : FileGrows(t, ps, q, Full)}}
                     \cup {File(t[p].box, Partial) : p \in {q \in ps : FileGrows(t, ps, q, Partial)}}

LEMMA GrownFacts ==
    ASSUME NEW t, NEW ps, Named(t, ps)
    PROVE  /\ \A f \in GrownNames(t, ps) :
                  \E p \in ps : \E kind \in Kinds : FileGrows(t, ps, p, kind) /\ f = File(t[p].box, kind)
           /\ \A p \in ps : \A kind \in Kinds :
                  t[p].box # NoBox =>
                      /\ File(t[p].box, kind) \in GrownNames(t, ps) <=> FlushedTo(kind, t[p]) # <<>>
                      /\ (CHOOSE q \in ps : t[q].box = File(t[p].box, kind)[1]) = p
                      /\ File(t[p].box, kind)[2] = kind
<1>1. \A f \in GrownNames(t, ps) :
          \E p \in ps : \E kind \in Kinds : FileGrows(t, ps, p, kind) /\ f = File(t[p].box, kind)
  BY DEF GrownNames, Kinds
<1>2. ASSUME NEW p \in ps, NEW kind \in Kinds, t[p].box # NoBox
      PROVE  /\ File(t[p].box, kind) \in GrownNames(t, ps) <=> FlushedTo(kind, t[p]) # <<>>
             /\ (CHOOSE q \in ps : t[q].box = File(t[p].box, kind)[1]) = p
             /\ File(t[p].box, kind)[2] = kind
  <2>1. File(t[p].box, kind)[1] = t[p].box /\ File(t[p].box, kind)[2] = kind
    BY DEF File
  <2>2. \A q \in ps : t[q].box = t[p].box => q = p
    BY <1>2 DEF Named
  <2>3. (CHOOSE q \in ps : t[q].box = File(t[p].box, kind)[1]) = p
    <3>1. (CHOOSE q \in ps : t[q].box = t[p].box) = p
      BY <2>2
    <3> QED
      BY <2>1, <3>1
  <2>4. ASSUME File(t[p].box, kind) \in GrownNames(t, ps) PROVE FlushedTo(kind, t[p]) # <<>>
    <3>1. PICK q \in ps, k \in Kinds : FileGrows(t, ps, q, k) /\ File(t[p].box, kind) = File(t[q].box, k)
      BY <1>1, <2>4
    <3>2. t[q].box = t[p].box /\ k = kind
      BY <3>1 DEF File
    <3>3. q = p
      BY <2>2, <3>2
    <3> QED
      BY <3>1, <3>2, <3>3 DEF FileGrows
  <2>5. ASSUME FlushedTo(kind, t[p]) # <<>> PROVE File(t[p].box, kind) \in GrownNames(t, ps)
    <3>1. FileGrows(t, ps, p, kind)
      BY <1>2, <2>5 DEF FileGrows
    <3>2. CASE kind = Full
      BY <3>1, <3>2 DEF GrownNames
    <3>3. CASE kind = Partial
      BY <3>1, <3>3 DEF GrownNames
    <3> QED
      BY <3>2, <3>3 DEF Kinds
  <2> QED
    BY <2>1, <2>3, <2>4, <2>5
<1> QED
  BY <1>1, <1>2

LEMMA FlushedToType ==
    ASSUME NEW n \in NodeType, NEW kind \in Kinds
    PROVE  FlushedTo(kind, n) \in Seq(Records)
  BY NodeParts DEF FlushedTo

\* What a file takes in keeps its type; of what a torn file takes in nothing can
\* be read, and any other has it all.
LEMMA AppendedFacts ==
    ASSUME Types, NEW f, NEW records \in Seq(Records)
    PROVE  /\ ReadFile(f) \in Seq(Records) /\ Appended(f, records) \in Seq(Records)
           /\ f \notin torn => Appended(f, records) = ReadFile(f) \o records
           /\ f \notin torn => Entries(Appended(f, records)) = Entries(ReadFile(f)) \cup Entries(records)
           /\ f \in torn => Entries(Appended(f, records)) \subseteq Entries(ReadFile(f)) \cup {Garbage}
<1> PICK h : h = ReadFile(f)
  OBVIOUS
<1> PICK b : b = IF f \in torn THEN [n \in DOMAIN records |-> Garbage] ELSE records
  OBVIOUS
<1>1. h \in Seq(Records) /\ Appended(f, records) = h \o b
  BY ReadType DEF Appended
<1>2. b \in Seq(Records) /\ (f \in torn => Entries(b) \subseteq {Garbage})
  <2>1. [n \in DOMAIN records |-> Garbage] \in Seq(Records)
    BY DEF Records, Garbage
  <2>2. Entries([n \in DOMAIN records |-> Garbage]) \subseteq {Garbage}
    BY DEF Entries
  <2> QED
    BY <2>1, <2>2
<1>3. h \o b \in Seq(Records) /\ Entries(h \o b) = Entries(h) \cup Entries(b)
  BY ONLY <1>1, <1>2, ConcatFacts
<1> QED
  BY <1>1, <1>2, <1>3

LEMMA FilesFacts ==
    ASSUME Types, NEW t, NEW ps, \A p \in ps : t[p] \in NodeType, Named(t, ps),
           NEW g, g = FilesFlushed(t, ps)
    PROVE  /\ g \in [DOMAIN g -> Seq(Records)]
           /\ DOMAIN files \subseteq DOMAIN g
           /\ \A p \in ps : \A kind \in Kinds :
                  t[p].box # NoBox => Took(g, File(t[p].box, kind), FlushedTo(kind, t[p]))
           /\ \A f : (\A p \in ps : \A kind \in Kinds : t[p].box # NoBox => f # File(t[p].box, kind))
                         => Unchanged(g, f)
<1> PICK names : names = GrownNames(t, ps)
  OBVIOUS
<1>1. g = [f \in DOMAIN files \cup names |->
              IF f \in names
              THEN Appended(f, FlushedTo(f[2], t[CHOOSE p \in ps : t[p].box = f[1]]))
              ELSE files[f]]
  <2>1. \A kind : {q \in ps : FileGrows(t, ps, q, kind)}
                    = {p \in ps : t[p].box # NoBox /\ FlushedTo(kind, t[p]) # <<>>}
    BY DEF FileGrows
  <2> QED
    BY <2>1 DEF FilesFlushed, GrownNames
<1>2. /\ DOMAIN g = DOMAIN files \cup names
      /\ \A f \in DOMAIN files \ names : g[f] = files[f]
  BY <1>1
<1>3. ASSUME NEW p \in ps, NEW kind \in Kinds, t[p].box # NoBox
      PROVE  LET f == File(t[p].box, kind) IN
             /\ f \in names <=> FlushedTo(kind, t[p]) # <<>>
             /\ f \in names => g[f] = Appended(f, FlushedTo(kind, t[p]))
  <2> PICK f : f = File(t[p].box, kind)
    OBVIOUS
  <2>1. /\ f \in names <=> FlushedTo(kind, t[p]) # <<>>
        /\ (CHOOSE q \in ps : t[q].box = f[1]) = p /\ f[2] = kind
    BY <1>3, GrownFacts
  <2>2. ASSUME f \in names PROVE g[f] = Appended(f, FlushedTo(kind, t[p]))
    <3>1. g[f] = Appended(f, FlushedTo(f[2], t[CHOOSE q \in ps : t[q].box = f[1]]))
      BY <1>1, <2>2
    <3> QED
      BY <2>1, <3>1
  <2> QED
    BY <2>1, <2>2
<1>4. ASSUME NEW p \in ps, NEW kind \in Kinds, t[p].box # NoBox
      PROVE  Took(g, File(t[p].box, kind), FlushedTo(kind, t[p]))
  <2> PICK f : f = File(t[p].box, kind)
    OBVIOUS
  <2> PICK records : records = FlushedTo(kind, t[p])
    OBVIOUS
  <2>1. /\ f \in names <=> records # <<>>
        /\ f \in names => g[f] = Appended(f, records)
    BY <1>3, <1>4
  <2>2. CASE records = <<>>
    BY <1>2, <2>1, <2>2 DEF Took, Unchanged
  <2>3. CASE records # <<>>
    BY <1>2, <2>1, <2>3 DEF Took
  <2> QED
    BY <2>2, <2>3
<1>5. \A f \in names : \E p \in ps : \E kind \in Kinds :
          t[p].box # NoBox /\ f = File(t[p].box, kind)
  BY GrownFacts DEF FileGrows
<1>6. ASSUME NEW f, \A p \in ps : \A kind \in Kinds : t[p].box # NoBox => f # File(t[p].box, kind)
      PROVE  Unchanged(g, f)
  <2>1. f \notin names
    BY <1>5, <1>6
  <2> QED
    BY <1>2, <2>1 DEF Unchanged
<1>7. ASSUME NEW f \in DOMAIN g PROVE g[f] \in Seq(Records)
  <2>1. CASE f \in names
    <3>1. PICK p \in ps, kind \in Kinds : t[p].box # NoBox /\ f = File(t[p].box, kind)
      BY <1>5, <2>1
    <3>2. g[f] = Appended(f, FlushedTo(kind, t[p])) /\ FlushedTo(kind, t[p]) \in Seq(Records)
      BY <1>3, <2>1, <3>1, FlushedToType
    <3> QED
      BY <3>2, AppendedFacts
  <2>2. CASE f \notin names
    BY <1>2, <1>7, <2>2 DEF Types
  <2> QED
    BY <2>1, <2>2
<1>8. g = [f \in DOMAIN g |-> g[f]]
  BY <1>1
<1> QED
  BY <1>2, <1>4, <1>6, <1>7, <1>8

\* A node after its leaf has been flushed.
LEMMA NodeFlushed ==
    ASSUME NEW t, NEW ps, NEW p \in DOMAIN t, t[p] \in NodeType
    PROVE  LET n == t[p]
               one == TreeFlushed(t, ps)[p]
           IN  /\ p \notin ps => one = n
               /\ one \in NodeType /\ one.is_leaf = n.is_leaf /\ one.box = n.box
               /\ one.leaf_size = n.leaf_size /\ one.split_mask = n.split_mask
               /\ one.splitpoint = n.splitpoint
               /\ \A m \in Modes : one.buffer[m].max = n.buffer[m].max
               /\ p \in ps => \A m \in Modes : one.buffer[m].records = <<>>
               /\ p \in ps /\ n.box # NoBox =>
                      /\ one.has_partial <=> n.has_partial \/ FlushedPartial(n.buffer) # <<>>
                      /\ one.has_full <=> n.has_full \/ FlushedFull(n.buffer) # <<>>
               /\ n.box = NoBox => one.has_partial = n.has_partial /\ one.has_full = n.has_full
<1> PICK n : n = t[p]
  OBVIOUS
<1> PICK one : one = TreeFlushed(t, ps)[p]
  OBVIOUS
<1>0. n \in NodeType /\ n.buffer \in BufferType
  BY NodeParts
<1> PICK cleared : cleared = ClearNodeBuffer(n.buffer)
  OBVIOUS
<1>1. /\ cleared \in BufferType
      /\ \A m \in Modes : cleared[m].records = <<>> /\ cleared[m].max = n.buffer[m].max
  BY <1>0, ClearFacts
<1>2. CASE p \notin ps
  <2>1. one = n
    BY <1>2 DEF TreeFlushed
  <2> QED
    BY <1>0, <1>2, <2>1
<1>3. CASE p \in ps /\ n.box = NoBox
  <2>1. one = [n EXCEPT !.buffer = ClearNodeBuffer(@)]
    BY <1>3 DEF TreeFlushed
  <2>2. one = [n EXCEPT !.buffer = cleared]
    BY <1>0, <2>1 DEF NodeType
  <2>3. /\ one \in NodeType /\ one.is_leaf = n.is_leaf /\ one.box = n.box
        /\ one.leaf_size = n.leaf_size /\ one.split_mask = n.split_mask
        /\ one.splitpoint = n.splitpoint /\ one.buffer = cleared
        /\ one.has_partial = n.has_partial /\ one.has_full = n.has_full
    BY ONLY <1>0, <1>1, <2>2 DEF NodeType
  <2> QED
    BY <1>1, <1>3, <2>3
<1>4. CASE p \in ps /\ n.box # NoBox
  <2> PICK x : x = (n.has_partial \/ FlushedPartial(n.buffer) # <<>>)
    OBVIOUS
  <2> PICK y : y = (n.has_full \/ FlushedFull(n.buffer) # <<>>)
    OBVIOUS
  <2>0. n.has_partial \in BOOLEAN /\ n.has_full \in BOOLEAN
    BY <1>0 DEF NodeType
  <2>1. one = [Flagged(n) EXCEPT !.buffer = ClearNodeBuffer(@)]
    BY <1>4 DEF TreeFlushed
  <2>2. Flagged(n) = [n EXCEPT !.has_partial = x, !.has_full = y]
    BY <1>0, <2>0 DEF Flagged, NodeType
  <2>3. Flagged(n).buffer = n.buffer /\ DOMAIN Flagged(n) = DOMAIN n
    BY <1>0, <2>2 DEF NodeType
  <2>4. one = [n EXCEPT !.has_partial = x, !.has_full = y, !.buffer = cleared]
    BY <1>0, <2>1, <2>2, <2>3 DEF NodeType
  <2>5. x \in BOOLEAN /\ y \in BOOLEAN
    OBVIOUS
  <2>6. /\ one \in NodeType /\ one.is_leaf = n.is_leaf /\ one.box = n.box
        /\ one.leaf_size = n.leaf_size /\ one.split_mask = n.split_mask
        /\ one.splitpoint = n.splitpoint /\ one.buffer = cleared
        /\ one.has_partial = x /\ one.has_full = y
    BY ONLY <1>0, <1>1, <2>4, <2>5 DEF NodeType
  <2> QED
    BY <1>1, <1>4, <2>6
<1> QED
  BY <1>2, <1>3, <1>4
-----------------------------------------------------------------------------
(* The end of a soft buffer.                                               *)

LEMMA FlushBufferFull ==
    ASSUME DiskInv, FlushBuffer, InBuffer # <<>>
    PROVE  DiskInv'
<1> PICK ps : ps = LeavesOf(Current)
  OBVIOUS
<1>0. /\ at.j \in DOMAIN MasksInOrder /\ adding = <<>> /\ ~exited /\ at.i = Len(InBuffer)
      /\ at' = [j |-> at.j + 1, i |-> 0]
      /\ tree' = TreeFlushed(tree, ps)
      /\ files' = FilesFlushed(tree, ps)
      /\ fbl' = [fbl EXCEPT ![Current] = [@ EXCEPT !.records = <<>>, !.max = 0]]
      /\ UNCHANGED <<words, hard, index_idx, adding, loading, phase, exited, stale, torn>>
  BY DEF FlushBuffer, Flushing
<1>1. Statics /\ Types /\ Shape /\ Routes /\ phase = "build" /\ Building
  BY <1>0, BuildingNow
<1>2. /\ Current \in Masks /\ at.j \in 1 .. Len(MasksInOrder) /\ Len(MasksInOrder) \in Nat
      /\ \A k \in DOMAIN MasksInOrder : MasksInOrder[k] = Current => k = at.j
  BY <1>0, MasksAssumption DEF Current
<1>3. ps \subseteq Leaves /\ ps \subseteq Nodes /\ \A p \in Leaves : p \in ps <=> p[1] = Current
  BY LeafIsNode DEF LeavesOf
<1>4. tree \in [Nodes -> NodeType]
  BY <1>1 DEF Types
<1>5. Named(tree, ps)
  BY <1>1, <1>3, NamesApart DEF Named
<1>6. /\ files' \in [DOMAIN files' -> Seq(Records)]
      /\ DOMAIN files \subseteq DOMAIN files'
      /\ \A p \in ps : \A kind \in Kinds :
             tree[p].box # NoBox => Took(files', File(tree[p].box, kind), FlushedTo(kind, tree[p]))
      /\ \A f : (\A p \in ps : \A kind \in Kinds : tree[p].box # NoBox => f # File(tree[p].box, kind))
                    => Unchanged(files', f)
  <2>1. \A p \in ps : tree[p] \in NodeType
    BY <1>3, <1>4
  <2> PICK g : g = files'
    OBVIOUS
  <2>2. g = FilesFlushed(tree, ps)
    BY <1>0
  <2>3. /\ g \in [DOMAIN g -> Seq(Records)]
        /\ DOMAIN files \subseteq DOMAIN g
        /\ \A p \in ps : \A kind \in Kinds :
               tree[p].box # NoBox => Took(g, File(tree[p].box, kind), FlushedTo(kind, tree[p]))
        /\ \A f : (\A p \in ps : \A kind \in Kinds : tree[p].box # NoBox => f # File(tree[p].box, kind))
                      => Unchanged(g, f)
    BY ONLY <1>1, <1>5, <2>1, <2>2, FilesFacts
  <2> QED
    BY <2>3
<1>7. Nodes' = Nodes
  BY <1>0 DEF Nodes, TreeFlushed
<1>8. ASSUME NEW p \in Nodes
      PROVE  /\ p \notin ps => tree'[p] = tree[p]
             /\ tree'[p] \in NodeType /\ tree'[p].is_leaf = tree[p].is_leaf
             /\ tree'[p].box = tree[p].box
             /\ tree'[p].leaf_size = tree[p].leaf_size
             /\ tree'[p].split_mask = tree[p].split_mask
             /\ tree'[p].splitpoint = tree[p].splitpoint
             /\ \A m \in Modes : tree'[p].buffer[m].max = tree[p].buffer[m].max
             /\ p \in ps => \A m \in Modes : tree'[p].buffer[m].records = <<>>
             /\ p \in ps /\ tree[p].box # NoBox =>
                    /\ tree'[p].has_partial <=> tree[p].has_partial \/ FlushedPartial(tree[p].buffer) # <<>>
                    /\ tree'[p].has_full <=> tree[p].has_full \/ FlushedFull(tree[p].buffer) # <<>>
             /\ tree[p].box = NoBox => /\ tree'[p].has_partial = tree[p].has_partial
                                       /\ tree'[p].has_full = tree[p].has_full
  <2>1. p \in DOMAIN tree /\ tree[p] \in NodeType
    BY <1>4 DEF Nodes
  <2>2. tree'[p] = TreeFlushed(tree, ps)[p]
    BY <1>0
  <2> QED
    BY ONLY <2>1, <2>2, NodeFlushed
<1>9. fbl' \in [Masks -> SoftType]
      /\ (\A m \in Masks : fbl'[m].initialized <=> fbl[m].initialized)
      /\ fbl'[Current].records = <<>> /\ \A m \in Masks : m # Current => fbl'[m] = fbl[m]
  <2>1. fbl \in [Masks -> SoftType]
    BY <1>1 DEF Types
  <2> PICK b : b = fbl[Current]
    OBVIOUS
  <2> PICK e : e = [b EXCEPT !.records = <<>>, !.max = 0]
    OBVIOUS
  <2>2. b \in SoftType
    BY <1>2, <2>1
  <2>3. e \in SoftType /\ e.records = <<>> /\ e.initialized = b.initialized
    <3>1. <<>> \in Seq(Records) /\ 0 \in Nat
      OBVIOUS
    <3>2. e = [b EXCEPT !.records = <<>>, !.max = 0]
      OBVIOUS
    <3> QED
      BY ONLY <2>2, <3>1, <3>2 DEF SoftType
  <2>4. fbl' = [fbl EXCEPT ![Current] = e]
    BY <1>0, <1>2, <2>1
  <2> QED
    BY <1>2, <2>1, <2>3, <2>4
<1>10. at' \in [j : 0 .. Len(MasksInOrder) + 1, i : Nat] /\ at'.j = at.j + 1 /\ at'.i = 0
  BY <1>0, <1>2
<1>11. Types'
  <2>1. tree' = [p \in Nodes |-> tree'[p]]
    BY <1>0 DEF Nodes, TreeFlushed
  <2>2. tree' \in [Nodes' -> NodeType]
    BY <1>7, <1>8, <2>1
  <2> QED
    BY <1>0, <1>1, <1>6, <1>9, <1>10, <2>2 DEF Types
<1>12. /\ Leaves' = Leaves
       /\ \A q \in Nodes : \A w : OnRoute(q, w)' <=> OnRoute(q, w)
       /\ Shape' /\ Routes' /\ SplitBits' /\ Boxed'
  <2>1. \A q \in Nodes : fbl'[q[1]].initialized
    BY <1>1, <1>9, NodeFacts
  <2>2. words' = words
    BY <1>0
  <2>3. /\ \A q \in Nodes : tree'[q].is_leaf = tree[q].is_leaf
        /\ \A q \in Nodes : tree'[q].box = tree[q].box
        /\ \A q \in Nodes \ Leaves : /\ tree'[q].split_mask = tree[q].split_mask
                                     /\ tree'[q].splitpoint = tree[q].splitpoint
    BY <1>8
  <2> QED
    BY ONLY <1>1, <1>7, <1>9, <2>1, <2>2, <2>3, SameTree
<1>13. Statics'
  BY <1>11, <1>12 DEF Statics
<1>14. /\ \A r : ~Given(r)'
       /\ \A r : Given(r) <=> r \in Entries(InBuffer)
       /\ \A r : Awaiting(r)' <=> Awaiting(r)
  <2>1. 1 .. at'.i = {}
    BY <1>10
  <2>2. \A r : ~Given(r)'
    BY <2>1 DEF Given
  <2>3. InBuffer \in Seq(Records)
    BY <1>1, <1>2 DEF InBuffer, Types, SoftType
  <2>4. \A r : Given(r) <=> r \in Entries(InBuffer)
    BY <1>0, <2>3 DEF Given, Entries
  <2>5. ASSUME NEW r PROVE Awaiting(r)' <=> Awaiting(r)
    <3>1. Awaiting(r) <=> (\E m \in Masks : r \in Entries(fbl[m].records)) /\ r \notin Entries(fbl[Current].records)
      BY <2>4 DEF Awaiting, InBuffer
    <3>2. Awaiting(r)' <=> \E m \in Masks : r \in Entries(fbl'[m].records)
      BY <2>2 DEF Awaiting
    <3>3. Entries(fbl'[Current].records) = {}
      BY <1>9, NoEntries
    <3>4. \A m \in Masks : r \in Entries(fbl[m].records) => MaskOf(words[r]) = m
      BY <1>1 DEF Building, Soft
    <3>5. \A m \in Masks : m # Current => Entries(fbl'[m].records) = Entries(fbl[m].records)
      BY <1>9
    <3> QED
      BY ONLY <1>2, <3>1, <3>2, <3>3, <3>4, <3>5
  <2> QED
    BY <2>2, <2>4, <2>5
<1>15. Soft'
  <2>1. ASSUME NEW m \in Masks
        PROVE  /\ Distinct(fbl'[m].records)
               /\ fbl'[m].records # <<>> => fbl'[m].initialized
               /\ \A r \in Entries(fbl'[m].records) :
                      r \in DOMAIN words /\ MaskOf(words[r]) = m /\ r \in Entries(hard)
    <3>1. CASE m = Current
      BY <1>9, <3>1, NoEntries
    <3>2. CASE m # Current
      BY <1>1, <1>9, <3>2 DEF Building, Soft
    <3> QED
      BY <3>1, <3>2
  <2> QED
    BY <1>0, <1>1, <2>1 DEF Building, Soft
<1>16. Loop'
  <2>1. \A k \in DOMAIN MasksInOrder : k < at'.j => fbl'[MasksInOrder[k]].records = <<>>
    <3> SUFFICES ASSUME NEW k \in DOMAIN MasksInOrder, k < at'.j
                 PROVE  fbl'[MasksInOrder[k]].records = <<>>
      OBVIOUS
    <3>1. k \in Nat /\ MasksInOrder[k] \in Masks
      BY MasksAssumption
    <3>2. k = at.j \/ k < at.j
      BY <1>2, <1>10, <3>1
    <3>3. CASE k = at.j
      BY <1>9, <3>3 DEF Current
    <3>4. CASE k < at.j
      BY <1>1, <1>9, <3>1, <3>4 DEF Building, Loop
    <3> QED
      BY <3>2, <3>3, <3>4
  <2>2. at'.j \in DOMAIN MasksInOrder => at'.i <= Len(InBuffer')
    <3> SUFFICES ASSUME at'.j \in DOMAIN MasksInOrder PROVE 0 <= Len(InBuffer')
      BY <1>10
    <3>1. MasksInOrder[at'.j] \in Masks
      BY MasksAssumption
    <3>2. InBuffer' \in Seq(Records)
      BY <1>9, <3>1 DEF InBuffer, Current, SoftType
    <3> QED
      BY <3>2
  <2> QED
    BY <1>0, <1>10, <2>1, <2>2 DEF Loop
<1>17. Hand' = Hand /\ Entries(adding) = {}
  BY <1>0, NoEntries DEF Hand
<1>18. Calls'
  BY <1>0, <1>1, <1>17 DEF Building, Calls
\* What is in a leaf stays in it.
<1>19. ASSUME NEW p \in Leaves
       PROVE  /\ LeafBuild(p) /\ p \in Nodes /\ tree[p] \in NodeType
              /\ FlushedFull(tree[p].buffer) = <<>>
              /\ p \notin ps => FlushedPartial(tree[p].buffer) = <<>>
              /\ HeldBy(tree[p]) = FlushedPartial(tree[p].buffer) \o PartialFile(tree[p])
  <2>1. LeafBuild(p) /\ p \in Nodes /\ tree[p] \in NodeType
    BY <1>1, <1>4, LeafIsNode DEF Building
  <2>2. FlushedFull(tree[p].buffer) = <<>>
    BY <2>1, NodeParts DEF LeafBuild
  <2>3. p \notin ps => FlushedPartial(tree[p].buffer) = <<>>
    BY <1>3, <2>1 DEF LeafBuild
  <2> QED
    BY <2>1, <2>2, <2>3 DEF HeldBy
<1>20. ASSUME NEW p \in Leaves, p \notin ps
       PROVE  /\ tree'[p] = tree[p] /\ HeldBy(tree[p])' = HeldBy(tree[p])
              /\ tree[p].box # NoBox => Unchanged(files', PartOf(tree[p]))
  <2>1. p \in Nodes /\ tree'[p] = tree[p] /\ LeafBuild(p)
    BY <1>8, <1>19, <1>20
  <2>2. ASSUME tree[p].box # NoBox PROVE Unchanged(files', PartOf(tree[p]))
    <3>1. \A q \in ps : tree[q].box # NoBox => tree[p].box # tree[q].box
      BY <1>1, <1>3, <1>20, <2>2, NamesApart
    <3>2. \A q \in ps : \A kind \in Kinds : tree[q].box # NoBox => PartOf(tree[p]) # File(tree[q].box, kind)
      BY <3>1 DEF PartOf, File
    <3> QED
      BY <1>6, <3>2
  <2>3. PartialFile(tree[p])' = PartialFile(tree[p])
    <3>1. CASE tree[p].has_partial
      <4>1. tree[p].box # NoBox /\ PartOf(tree[p]) \in DOMAIN files
        BY <2>1, <3>1 DEF LeafBuild
      <4> QED
        BY <2>1, <2>2, <3>1, <4>1 DEF PartialFile, PartOf, ReadFile, Unchanged
    <3>2. CASE ~tree[p].has_partial
      BY <2>1, <3>2 DEF PartialFile
    <3> QED
      BY <3>1, <3>2
  <2> QED
    BY <2>1, <2>2, <2>3 DEF HeldBy
<1>21. ASSUME NEW p \in ps
       PROVE  /\ p \in Leaves /\ p \in Nodes
              /\ FlushedPartial(tree'[p].buffer) = <<>>
              /\ tree[p].box # NoBox => (tree'[p].has_partial <=> PartOf(tree[p]) \in DOMAIN files')
              /\ Len(HeldBy(tree[p])') = Len(HeldBy(tree[p]))
              /\ Entries(HeldBy(tree[p])') = Entries(HeldBy(tree[p]))
              /\ Distinct(HeldBy(tree[p])')
  <2> PICK n : n = tree[p]
    OBVIOUS
  <2>1. p \in Leaves /\ p \in Nodes /\ LeafBuild(p) /\ n \in NodeType
    BY <1>3, <1>19
  <2>2. FlushedPartial(tree'[p].buffer) = <<>>
    <3>1. tree'[p].buffer[Partial].records = <<>> /\ tree'[p].buffer[TmpPartial].records = <<>>
      BY <1>8, <2>1 DEF Modes
    <3> QED
      BY <3>1, NoneAdded DEF FlushedPartial
  <2> PICK a : a = FlushedPartial(n.buffer)
    OBVIOUS
  <2> PICK c : c = PartialFile(n)
    OBVIOUS
  <2> PICK d : d = PartialFile(tree[p])'
    OBVIOUS
  <2>3. a \in Seq(Records) /\ c \in Seq(Records) /\ HeldBy(n) = a \o c
    BY <1>1, <2>1, NodeParts, HeldParts DEF HeldBy
  <2>4. HeldBy(tree[p])' = <<>> \o d
    BY <2>2 DEF HeldBy
  <2>5. CASE n.box = NoBox
    <3>1. ~n.has_partial /\ HeldBy(n) = <<>>
      <4>1. ~n.has_partial /\ Len(HeldBy(n)) = 0
        BY <2>1, <2>5 DEF LeafBuild
      <4>2. HeldBy(n) \in Seq(Records)
        BY <1>1, <2>1, HeldParts
      <4> QED
        BY <4>1, <4>2, EmptyIffNoEntries
    <3>2. ~tree'[p].has_partial
      BY <1>8, <2>1, <2>5, <3>1
    <3>3. d = <<>>
      BY <3>2 DEF PartialFile
    <3>4. HeldBy(tree[p])' = <<>>
      BY <2>4, <3>3, NoneAdded
    <3> QED
      BY <2>1, <2>2, <2>5, <3>1, <3>4, NoEntries
  <2>6. CASE n.box # NoBox
    <3>1. n.has_partial <=> PartOf(n) \in DOMAIN files
      BY <2>1, <2>6 DEF LeafBuild
    <3>2. tree'[p].has_partial <=> n.has_partial \/ a # <<>>
      BY <1>8, <2>1, <2>6
    <3>3. /\ Took(files', PartOf(n), a)
          /\ Appended(PartOf(n), a) = ReadFile(PartOf(n)) \o a
      <4>1. Took(files', PartOf(n), a)
        BY <1>6, <2>6 DEF PartOf, Kinds, FlushedTo, Full, Partial
      <4>2. torn = {} /\ a \in Seq(Records)
        BY <1>1, <2>3 DEF Building
      <4> QED
        BY <1>1, <4>1, <4>2, AppendedFacts
    <3>4. c = ReadFile(PartOf(n))
      BY <3>1 DEF PartialFile, ReadFile, PartOf
    <3>5. tree'[p].has_partial <=> PartOf(n) \in DOMAIN files'
      BY <3>1, <3>2, <3>3 DEF Took, Unchanged
    <3>6. tree'[p].box = n.box
      BY <1>8, <2>1
    <3>7. d = IF PartOf(n) \in DOMAIN files' THEN files'[PartOf(n)] ELSE <<>>
      BY <3>5, <3>6 DEF PartialFile, ReadFile, PartOf
    <3>8. d = c \o a
      <4>1. CASE a = <<>>
        <5>1. d = c
          BY <3>3, <3>4, <3>7, <4>1 DEF Took, Unchanged, ReadFile
        <5>2. c \o <<>> = c
          BY <2>3, NoneAdded
        <5> QED
          BY <4>1, <5>1, <5>2
      <4>2. CASE a # <<>>
        BY <3>3, <3>4, <3>7, <4>2 DEF Took
      <4> QED
        BY <4>1, <4>2
    <3>9. /\ Len(a \o c) = Len(a) + Len(c) /\ Entries(a \o c) = Entries(a) \cup Entries(c)
          /\ Distinct(a \o c) <=> Distinct(a) /\ Distinct(c) /\ Entries(a) \cap Entries(c) = {}
      BY ONLY <2>3, ConcatFacts
    <3>10. /\ Len(c \o a) = Len(c) + Len(a) /\ Entries(c \o a) = Entries(c) \cup Entries(a)
           /\ Distinct(c \o a) <=> Distinct(c) /\ Distinct(a) /\ Entries(c) \cap Entries(a) = {}
           /\ c \o a \in Seq(Records)
      BY ONLY <2>3, ConcatFacts
    <3>11. HeldBy(tree[p])' = c \o a
      <4>1. <<>> \o (c \o a) = c \o a
        BY ONLY <3>10, NoneAdded
      <4> QED
        BY <2>4, <3>8, <4>1
    <3>12. Distinct(a \o c)
      BY <2>1, <2>3 DEF LeafBuild
    <3>13. Len(a) \in Nat /\ Len(c) \in Nat
      BY <2>3
    <3>14. /\ Len(c \o a) = Len(a \o c) /\ Entries(c \o a) = Entries(a \o c)
           /\ Distinct(c \o a)
      BY ONLY <3>9, <3>10, <3>12, <3>13
    <3> QED
      BY <2>1, <2>2, <2>3, <3>5, <3>11, <3>14
  <2> QED
    BY <2>5, <2>6
<1>22. ASSUME NEW p \in Leaves
       PROVE  /\ FlushedPartial(tree'[p].buffer) = <<>>
              /\ tree'[p].buffer[Partial].records = <<>>
              /\ Len(HeldBy(tree[p])') = Len(HeldBy(tree[p]))
              /\ Entries(HeldBy(tree[p])') = Entries(HeldBy(tree[p]))
              /\ Distinct(HeldBy(tree[p])')
              /\ tree[p].box # NoBox => (tree'[p].has_partial <=> PartOf(tree[p]) \in DOMAIN files')
  <2>1. CASE p \in ps
    <3>1. tree'[p].buffer[Partial].records = <<>>
      BY <1>8, <1>21, <2>1 DEF Modes
    <3> QED
      BY <1>21, <2>1, <3>1
  <2>2. CASE p \notin ps
    <3>1. /\ tree'[p] = tree[p] /\ HeldBy(tree[p])' = HeldBy(tree[p])
          /\ tree[p].box # NoBox => Unchanged(files', PartOf(tree[p]))
      BY <1>20, <2>2
    <3>2. FlushedPartial(tree[p].buffer) = <<>> /\ LeafBuild(p) /\ tree[p] \in NodeType
      BY <1>19, <2>2
    <3>3. tree[p].buffer[Partial].records = <<>>
      <4>1. \A r \in Entries(tree[p].buffer[Partial].records) : r \in Entries(FlushedPartial(tree[p].buffer))
        <5> PICK x, y : x = tree[p].buffer[Partial].records /\ y = tree[p].buffer[TmpPartial].records
          OBVIOUS
        <5>1. x \in Seq(Records) /\ y \in Seq(Records) /\ FlushedPartial(tree[p].buffer) = x \o y
          BY <3>2, NodeParts DEF FlushedPartial, Modes
        <5>2. Entries(x \o y) = Entries(x) \cup Entries(y)
          BY ONLY <5>1, ConcatFacts
        <5> QED
          BY <5>1, <5>2
      <4>2. tree[p].buffer[Partial].records \in Seq(Records)
        BY <3>2, NodeParts DEF Modes
      <4> QED
        BY <3>2, <4>1, <4>2, NoEntries, EmptyIffNoEntries, SMTT(30)
    <3>4. Distinct(HeldBy(tree[p]))
      BY <3>2 DEF LeafBuild
    <3>5. tree[p].box # NoBox => (tree[p].has_partial <=> PartOf(tree[p]) \in DOMAIN files)
      BY <3>2 DEF LeafBuild
    <3> QED
      BY <3>1, <3>2, <3>3, <3>4, <3>5 DEF Unchanged
  <2> QED
    BY <2>1, <2>2
<1>23. ASSUME NEW p \in Leaves PROVE LeafBuild(p)'
  <2> PICK n : n = tree[p]
    OBVIOUS
  <2> PICK one : one = tree'[p]
    OBVIOUS
  <2>1. LeafBuild(p) /\ p \in Nodes /\ n \in NodeType /\ FlushedFull(n.buffer) = <<>>
    BY <1>19
  <2>2. /\ one.box = n.box /\ one.leaf_size = n.leaf_size
        /\ \A m \in Modes : one.buffer[m].max = n.buffer[m].max
    BY <1>8, <2>1
  <2>3. one.buffer[Full].records = <<>> /\ one.buffer[TmpFull].records = <<>> /\ ~one.has_full
    <3>1. n.buffer[Full].records = <<>> /\ n.buffer[TmpFull].records = <<>> /\ ~n.has_full
      BY <2>1 DEF LeafBuild
    <3>2. CASE p \notin ps
      BY <1>20, <3>1, <3>2
    <3>3. CASE p \in ps
      <4>1. one.buffer[Full].records = <<>> /\ one.buffer[TmpFull].records = <<>>
        BY <1>8, <2>1, <3>3 DEF Modes
      <4>2. ~one.has_full
        BY <1>8, <2>1, <3>1, <3>3
      <4> QED
        BY <4>1, <4>2
    <3> QED
      BY <3>2, <3>3
  <2>4. NoGrowth(n) /\ n.leaf_size = Len(HeldBy(n)) /\ n.leaf_size <= MaxLeafSize
        /\ (n.leaf_size = 0 <=> n.box = NoBox)
        /\ (n.has_partial <=> n.box # NoBox /\ PartOf(n) \in DOMAIN files)
    BY <2>1 DEF LeafBuild
  <2>5. NoGrowth(tree[p])'
    BY <2>2, <2>4 DEF NoGrowth, Fresh
  <2>6. /\ FlushedPartial(one.buffer) = <<>> /\ one.buffer[Partial].records = <<>>
        /\ Len(HeldBy(tree[p])') = Len(HeldBy(n)) /\ Entries(HeldBy(tree[p])') = Entries(HeldBy(n))
        /\ Distinct(HeldBy(tree[p])')
        /\ n.box # NoBox => (one.has_partial <=> PartOf(n) \in DOMAIN files')
    BY <1>22
  <2>7. one.has_partial <=> one.box # NoBox /\ PartOf(one) \in DOMAIN files'
    <3>1. PartOf(one) = PartOf(n)
      BY <2>2 DEF PartOf
    <3>2. CASE n.box = NoBox
      <4>1. ~n.has_partial /\ one.has_partial = n.has_partial
        BY <1>8, <2>1, <2>4, <3>2
      <4> QED
        BY <2>2, <3>2, <4>1
    <3>3. CASE n.box # NoBox
      BY <2>2, <2>6, <3>1, <3>3
    <3> QED
      BY <3>2, <3>3
  <2>8. PartOf(tree[p])' = PartOf(one)
    BY DEF PartOf
  <2>9. ASSUME NEW r \in Entries(HeldBy(n))
        PROVE  /\ r \in DOMAIN words' /\ OnRoute(p, words[r])'
               /\ ~Awaiting(r)' /\ r \notin Entries(Hand')
    <3>1. r \in DOMAIN words /\ OnRoute(p, words[r]) /\ ~Awaiting(r) /\ r \notin Entries(Hand)
      BY <2>1, <2>9 DEF LeafBuild
    <3> QED
      BY <1>0, <1>12, <1>14, <1>17, <2>1, <3>1
  <2>10. Entries(one.buffer[Partial].records) = {}
    BY <2>6, NoEntries
  <2>11. one = tree'[p]
    OBVIOUS
  <2> QED
    BY ONLY <2>2, <2>3, <2>4, <2>5, <2>6, <2>7, <2>8, <2>9, <2>10, <2>11 DEF LeafBuild
<1>24. Owned'
  <2> SUFFICES ASSUME NEW f \in DOMAIN files'
               PROVE  \E q \in Leaves : tree'[q].box # NoBox /\ f = PartOf(tree'[q])
    BY <1>12 DEF Owned, PartOf
  <2>1. CASE f \in DOMAIN files
    <3>1. PICK q \in Leaves : tree[q].box # NoBox /\ f = PartOf(tree[q])
      BY <1>1, <2>1 DEF Building, Owned
    <3>2. tree'[q].box = tree[q].box
      BY <1>8, LeafIsNode
    <3> QED
      BY <3>1, <3>2 DEF PartOf
  <2>2. CASE f \notin DOMAIN files
    <3>1. ~Unchanged(files', f)
      BY <2>2 DEF Unchanged
    <3>2. PICK q \in ps, kind \in Kinds : tree[q].box # NoBox /\ f = File(tree[q].box, kind)
      BY <1>6, <3>1
    <3>3. kind # Full
      <4>1. ASSUME kind = Full PROVE FALSE
        <5>1. FlushedTo(Full, tree[q]) = <<>>
          BY <1>3, <1>19 DEF FlushedTo
        <5>2. Took(files', f, FlushedTo(kind, tree[q]))
          BY <1>6, <3>2
        <5> QED
          BY <3>1, <4>1, <5>1, <5>2 DEF Took
      <4> QED
        BY <4>1
    <3>4. f = PartOf(tree[q]) /\ q \in Leaves
      BY <1>3, <3>2, <3>3 DEF PartOf, Kinds
    <3>5. tree'[q].box = tree[q].box
      BY <1>8, <3>4, LeafIsNode
    <3> QED
      BY <3>2, <3>4, <3>5 DEF PartOf
  <2> QED
    BY <2>1, <2>2
<1>25. Kept'
  <2>1. ASSUME NEW r \in DOMAIN words
        PROVE  Awaiting(r)' \/ r \in Entries(Hand') \/ \E q \in Leaves : r \in Entries(HeldBy(tree[q])')
    <3>1. Awaiting(r) \/ r \in Entries(Hand) \/ \E q \in Leaves : r \in Entries(HeldBy(tree[q]))
      BY <1>1 DEF Building, Kept
    <3> QED
      BY <1>14, <1>17, <1>22, <3>1
  <2> QED
    BY <1>0, <1>12, <2>1 DEF Kept
<1> QED
  BY <1>0, <1>1, <1>12, <1>13, <1>15, <1>16, <1>18, <1>23, <1>24, <1>25 DEF DiskInv, Main, Building

LEMMA FlushBufferStep == ASSUME DiskInv, FlushBuffer PROVE DiskInv'
<1>1. CASE InBuffer # <<>>
  BY <1>1, FlushBufferFull
<1>2. CASE InBuffer = <<>>
  <2>0. /\ at.j \in DOMAIN MasksInOrder /\ adding = <<>> /\ ~exited /\ at.i = Len(InBuffer)
        /\ at' = [j |-> at.j + 1, i |-> 0]
        /\ UNCHANGED <<words, hard, fbl, tree, files, index_idx, adding, loading, phase, exited, stale, torn>>
    BY <1>2 DEF FlushBuffer, Flushing
  <2>1. phase = "build" /\ Building
    BY <2>0, BuildingNow
  <2>2. at.i = 0
    BY <1>2, <2>0, NoneAdded
  <2>3. /\ at.j \in 1 .. Len(MasksInOrder) /\ Len(MasksInOrder) \in Nat
    BY <2>0, MasksAssumption
  <2>4. at' \in [j : 0 .. Len(MasksInOrder) + 1, i : Nat] /\ at'.i = 0 /\ at'.j = at.j + 1
    BY <2>0, <2>3
  <2>5. \A k \in DOMAIN MasksInOrder : k < at'.j => fbl[MasksInOrder[k]].records = <<>>
    <3> SUFFICES ASSUME NEW k \in DOMAIN MasksInOrder, k < at'.j
                 PROVE  fbl[MasksInOrder[k]].records = <<>>
      OBVIOUS
    <3>1. k \in Nat
      BY MasksAssumption
    <3>2. k = at.j \/ k < at.j
      BY <2>3, <2>4, <3>1
    <3> QED
      BY <1>2, <2>1, <3>2 DEF Building, Loop, InBuffer, Current
  <2> QED
    BY <2>0, <2>1, <2>2, <2>4, <2>5, LoopMoves
<1> QED
  BY <1>1, <1>2
-----------------------------------------------------------------------------
(* From building to querying.                                              *)

LEMMA QueryNext ==
    ASSUME Statics', ~exited', exited' \in BOOLEAN, phase' = "query",
           hard' = <<>>, adding' = <<>>, at' = NotFlushing,
           \A m \in Masks : fbl'[m].records = <<>>,
           \A p \in Leaves' : Complete(tree'[p], files', Mine(p)', stale', torn'),
           index_idx' # NotWritten => DOMAIN index_idx' = Nodes',
           index_idx' # NotWritten =>
               \A p \in Leaves' : LeafWritten(index_idx'[p], tree'[p], files', Mine(p)'),
           index_idx' # NotWritten =>
               \A p \in Nodes' \ Leaves' : InnerWritten(index_idx'[p], tree'[p])
    PROVE  DiskInv'
<1>1. ASSUME NEW p
      PROVE  /\ Complete(tree[p], files, Mine(p), stale, torn)' <=> Complete(tree'[p], files', Mine(p)', stale', torn')
             /\ LeafWritten(index_idx[p], tree[p], files, Mine(p))'
                    <=> LeafWritten(index_idx'[p], tree'[p], files', Mine(p)')
             /\ InnerWritten(index_idx[p], tree[p])' <=> InnerWritten(index_idx'[p], tree'[p])
  OBVIOUS
<1>2. WrittenInv'
  BY <1>1 DEF WrittenInv
<1>3. Querying'
  BY <1>1, <1>2 DEF Querying
<1> QED
  BY <1>3 DEF DiskInv, Main

LEMMA BuildComplete ==
    ASSUME Statics, Building, at = NotFlushing, hard = <<>>
    PROVE  /\ adding = <<>>
           /\ \A m \in Masks : fbl[m].records = <<>>
           /\ \A p \in Leaves : Complete(tree[p], files, Mine(p), stale, torn)
<1>1. Types /\ Shape /\ Routes /\ Soft /\ Loop /\ Owned /\ Kept /\ ~stale /\ torn = {}
  BY DEF Statics, Building
<1>2. at.j \notin DOMAIN MasksInOrder /\ at.i = 0
  BY MasksAssumption DEF NotFlushing
<1>3. adding = <<>> /\ Entries(Hand) = {}
  <2>1. adding = <<>>
    BY <1>1, <1>2 DEF Loop
  <2>2. Hand = <<>>
    BY <2>1 DEF Hand, RecordsOf
  <2> QED
    BY <2>1, <2>2, NoEntries
<1>4. ASSUME NEW m \in Masks PROVE fbl[m].records = <<>> /\ Entries(fbl[m].records) = {}
  <2>1. fbl[m].records \in Seq(Records)
    BY <1>1 DEF Types, SoftType
  <2>2. Entries(fbl[m].records) = {}
    BY <1>1, NoEntries DEF Soft
  <2> QED
    BY <2>1, <2>2, EmptyIffNoEntries
<1>5. \A r : ~Awaiting(r) /\ ~Given(r)
  BY <1>2, <1>4 DEF Awaiting, Given
<1>6. ASSUME NEW p \in Leaves PROVE Complete(tree[p], files, Mine(p), stale, torn)
  <2> PICK n : n = tree[p]
    OBVIOUS
  <2> PICK x, y : x = n.buffer[Partial].records /\ y = n.buffer[TmpPartial].records
    OBVIOUS
  <2>1. LeafBuild(p) /\ n \in NodeType /\ p \in Nodes
    BY <1>1, LeafIsNode DEF Types, Building
  <2>2. /\ n.buffer[Full].records = <<>> /\ n.buffer[TmpFull].records = <<>> /\ ~n.has_full
        /\ n.leaf_size = Len(HeldBy(n)) /\ n.leaf_size <= MaxLeafSize
        /\ n.leaf_size = 0 <=> n.box = NoBox
        /\ n.has_partial <=> n.box # NoBox /\ PartOf(n) \in DOMAIN files
        /\ NoGrowth(n) /\ Distinct(HeldBy(n))
        /\ FlushedPartial(n.buffer) = <<>>
        /\ \A r \in Entries(HeldBy(n)) : r \in DOMAIN words /\ OnRoute(p, words[r])
    BY <1>2, <2>1 DEF LeafBuild
  <2>3. x = <<>> /\ y = <<>>
    <3>1. x \in Seq(Records) /\ y \in Seq(Records) /\ x \o y = <<>>
      BY <2>1, <2>2, NodeParts DEF FlushedPartial, Modes
    <3>2. Entries(x \o y) = Entries(x) \cup Entries(y)
      BY ONLY <3>1, ConcatFacts
    <3>3. Entries(x) = {} /\ Entries(y) = {}
      BY <3>1, <3>2, NoEntries
    <3> QED
      BY ONLY <3>1, <3>3, EmptyIffNoEntries
  <2>4. \A m \in Modes : n.buffer[m].records = <<>>
    BY <2>2, <2>3 DEF Modes
  <2>5. HeldBy(n) = PartialFile(n) /\ HeldBy(n) \in Seq(Records)
    <3>1. PartialFile(n) \in Seq(Records) /\ HeldBy(n) \in Seq(Records)
      BY <1>1, <2>1, HeldParts
    <3>2. HeldBy(n) = <<>> \o PartialFile(n)
      BY <2>2 DEF HeldBy
    <3> QED
      BY <3>1, <3>2, NoneAdded
  <2>6. Entries(HeldBy(n)) = Mine(p)
    <3>1. ASSUME NEW r \in Mine(p) PROVE r \in Entries(HeldBy(n))
      <4>1. r \in DOMAIN words /\ OnRoute(p, words[r])
        BY <3>1 DEF Mine
      <4>2. PICK q \in Leaves : r \in Entries(HeldBy(tree[q]))
        BY <1>1, <1>3, <1>5, <4>1 DEF Kept
      <4>3. OnRoute(q, words[r])
        BY <4>2 DEF Building, LeafBuild
      <4>4. p = q
        BY <1>1, <4>1, <4>3, OneLeaf
      <4> QED
        BY <4>2, <4>4
    <3> QED
      BY <2>2, <3>1 DEF Mine
  <2>7. ASSUME n.box # NoBox, FullOf(n) \in DOMAIN files PROVE FALSE
    <3>1. PICK q \in Leaves : FullOf(n) = PartOf(tree[q])
      BY <1>1, <2>7 DEF Owned
    <3> QED
      BY <3>1 DEF FullOf, PartOf, File, Full, Partial
  <2>8. ASSUME n.has_partial PROVE HeldBy(n) = files[PartOf(n)]
    BY <2>2, <2>5, <2>8 DEF PartialFile, ReadFile, PartOf
  <2>9. ASSUME ~n.has_partial PROVE n.leaf_size = 0 /\ Mine(p) = {}
    <3>1. HeldBy(n) = <<>>
      BY <2>5, <2>9 DEF PartialFile
    <3> QED
      BY <2>2, <2>6, <3>1, NoEntries
  <2> PICK all : all = Mine(p)
    OBVIOUS
  <2>10. Complete(n, files, all, stale, torn)
    <3>1. all = Mine(p)
      OBVIOUS
    <3> QED
      BY ONLY <1>1, <2>2, <2>4, <2>6, <2>7, <2>8, <2>9, <3>1 DEF Complete, Whole, Modes
  <2> QED
    BY <2>10
<1> QED
  BY <1>3, <1>4, <1>6

LEMMA BuildEndsStep == ASSUME DiskInv, BuildEnds PROVE DiskInv'
<1>0. /\ at = NotFlushing /\ ~exited /\ phase = "build" /\ hard = <<>> /\ phase' = "query"
      /\ UNCHANGED <<words, hard, fbl, tree, files, index_idx, at, adding, exited, stale, torn>>
  BY DEF BuildEnds, Idle, memory, calls
<1>1. Statics /\ Types /\ Building
  BY <1>0, BuildingNow
<1>2. /\ adding = <<>>
      /\ \A m \in Masks : fbl[m].records = <<>>
      /\ \A p \in Leaves : Complete(tree[p], files, Mine(p), stale, torn)
  BY <1>0, <1>1, BuildComplete
<1>3. Types'
  BY <1>0, <1>1 DEF Types, Nodes
<1>4. Statics' /\ Nodes' = Nodes /\ Leaves' = Leaves /\ \A q \in Nodes : Mine(q)' = Mine(q)
  BY <1>0, <1>1, <1>3, TreeUnchanged
<1>5. index_idx' = NotWritten
  BY <1>0, <1>1 DEF Building
<1>6. \A p \in Leaves' : Complete(tree'[p], files', Mine(p)', stale', torn')
  BY <1>0, <1>2, <1>4, LeafIsNode
<1>7. exited' \in BOOLEAN /\ ~exited'
  BY <1>0 DEF DiskInv
<1> QED
  BY ONLY <1>0, <1>2, <1>4, <1>5, <1>6, <1>7, QueryNext
-----------------------------------------------------------------------------
(* Loading and flushing leaves.                                            *)

\* What loading and flushing change of a node: its buffers and its flags.
SameNode(one, n) == /\ one \in NodeType /\ one.is_leaf = n.is_leaf /\ one.box = n.box
                    /\ one.leaf_size = n.leaf_size /\ one.split_mask = n.split_mask
                    /\ one.splitpoint = n.splitpoint

LEMMA LoadedFacts ==
    ASSUME Types, NEW n \in NodeType
    PROVE  LET one == Loaded(n)
               s == n.buffer[TmpPartial].records \o PartialFile(n)
           IN  /\ SameNode(one, n) /\ one.has_full = n.has_full /\ ~one.has_partial
               /\ \A m \in {Partial, TmpPartial} : /\ one.buffer[m].records = <<>>
                                                   /\ one.buffer[m].max = n.buffer[m].max
               /\ n.buffer[Partial].records = <<>> =>
                      /\ one.buffer[Full] = n.buffer[Full]
                      /\ s = <<>> => one.buffer[TmpFull] = n.buffer[TmpFull]
                      /\ n.buffer[TmpFull].records = <<>> =>
                             /\ one.buffer[TmpFull].records \in Seq(Records)
                             /\ Len(one.buffer[TmpFull].records) = Len(s)
                             /\ Entries(one.buffer[TmpFull].records) = Entries(s)
                             /\ Distinct(s) => Distinct(one.buffer[TmpFull].records)
                             /\ Fresh(n.buffer[TmpFull]) /\ Len(s) <= InitialBufferSize =>
                                    Fresh(one.buffer[TmpFull])
<1> PICK s : s = n.buffer[TmpPartial].records \o PartialFile(n)
  OBVIOUS
<1> PICK b : b = n.buffer
  OBVIOUS
<1> PICK a : a = [b EXCEPT ![Partial].records = <<>>, ![TmpPartial].records = <<>>]
  OBVIOUS
<1> PICK u : u = ByPosition(b[Partial].records)
  OBVIOUS
<1> PICK v : v = ByPosition(s)
  OBVIOUS
<1> PICK full : full = AddAll(a, u, Full)
  OBVIOUS
<1> PICK all : all = AddAll(full, v, TmpFull)
  OBVIOUS
<1> PICK one : one = Loaded(n)
  OBVIOUS
<1>1. b \in BufferType /\ \A m \in Modes : b[m] \in [records : Seq(Records), max : Nat]
  BY NodeParts, SMTT(30) DEF BufferType
<1>2. s \in Seq(Records)
  <2> PICK x, y : x = n.buffer[TmpPartial].records /\ y = PartialFile(n)
    BY SMTT(30)
  <2>1. x \in Seq(Records) /\ y \in Seq(Records) /\ s = x \o y
    BY NodeParts, HeldParts DEF Modes
  <2>2. x \o y \in Seq(Records)
    BY ONLY <2>1, ConcatFacts
  <2> QED
    BY <2>1, <2>2, SMTT(30)
<1>3. /\ a \in BufferType
      /\ a[Full] = b[Full] /\ a[TmpFull] = b[TmpFull]
      /\ \A m \in {Partial, TmpPartial} : a[m].records = <<>> /\ a[m].max = b[m].max
  <2>1. a = [b EXCEPT ![Partial] = [b[Partial] EXCEPT !.records = <<>>],
                      ![TmpPartial] = [b[TmpPartial] EXCEPT !.records = <<>>]]
    BY <1>1 DEF Modes, Partial, TmpPartial, BufferType
  <2> PICK c : c = [b[Partial] EXCEPT !.records = <<>>]
    OBVIOUS
  <2> PICK d : d = [b[TmpPartial] EXCEPT !.records = <<>>]
    OBVIOUS
  <2>2. b[Partial] \in [records : Seq(Records), max : Nat] /\ b[TmpPartial] \in [records : Seq(Records), max : Nat]
    BY <1>1 DEF Modes
  <2>3. /\ c \in [records : Seq(Records), max : Nat] /\ c.records = <<>> /\ c.max = b[Partial].max
        /\ d \in [records : Seq(Records), max : Nat] /\ d.records = <<>> /\ d.max = b[TmpPartial].max
    BY <2>2, NoneAdded
  <2>4. a = [b EXCEPT ![Partial] = c, ![TmpPartial] = d]
    BY <2>1
  <2>5. DOMAIN b = Modes
    BY <1>1 DEF BufferType
  <2> QED
    BY ONLY <1>1, <2>3, <2>4, <2>5, SMTT(30) DEF BufferType, Modes, Full, Partial, TmpFull, TmpPartial
<1>4. /\ u \in Seq(Records)
      /\ b[Partial].records = <<>> => u = <<>>
      /\ v \in Seq(Records) /\ Len(v) = Len(s) /\ Entries(v) = Entries(s)
      /\ Distinct(s) => Distinct(v)
      /\ s = <<>> => v = <<>>
  <2> PICK w : w = b[Partial].records
    OBVIOUS
  <2>1. w \in Seq(Records)
    BY <1>1, SMTT(30) DEF Modes
  <2>2. u \in Seq(Records) /\ Entries(u) = Entries(w)
    BY <2>1, PositionFacts DEF Records
  <2>3. w = <<>> => u = <<>>
    BY <2>1, <2>2, EmptyIffNoEntries
  <2>4. /\ v \in Seq(Records) /\ Len(v) = Len(s) /\ Entries(v) = Entries(s)
        /\ Distinct(s) => Distinct(v)
    BY <1>2, PositionFacts DEF Records
  <2>5. s = <<>> => v = <<>>
    BY <1>2, <2>4, EmptyIffNoEntries
  <2> QED
    BY <2>2, <2>3, <2>4, <2>5
<1>5. Gathered(full, a, u, Full, Len(u)) /\ (u = <<>> => full = a)
  <2>1. Full \in {Full, TmpFull}
    OBVIOUS
  <2> QED
    BY ONLY <1>3, <1>4, <2>1, full = AddAll(a, u, Full), AllGathered
<1>6. full \in BufferType /\ (\A m \in Modes : m # Full => full[m] = a[m])
  BY <1>5, Zenon DEF Gathered
<1>7. Gathered(all, full, v, TmpFull, Len(v)) /\ (v = <<>> => all = full)
  <2>1. TmpFull \in {Full, TmpFull}
    OBVIOUS
  <2> QED
    BY ONLY <1>4, <1>6, <2>1, all = AddAll(full, v, TmpFull), AllGathered, SMTT(30)
<1>8. /\ all \in BufferType /\ (\A m \in Modes : m # TmpFull => all[m] = full[m])
      /\ full[TmpFull].records = <<>> =>
           /\ Len(all[TmpFull].records) = Len(v)
           /\ \A k \in 1 .. Len(v) : all[TmpFull].records[k] = v[k]
           /\ Fresh(full[TmpFull]) /\ Len(v) <= InitialBufferSize => Fresh(all[TmpFull])
  BY <1>7, Zenon DEF Gathered
<1>9. one = [n EXCEPT !.buffer = all, !.has_partial = FALSE]
  BY DEF Loaded
<1>10. /\ SameNode(one, n) /\ one.has_full = n.has_full /\ ~one.has_partial /\ one.buffer = all
  BY ONLY <1>8, <1>9, n \in NodeType DEF NodeType, SameNode
<1>11. \A m \in {Partial, TmpPartial} : all[m].records = <<>> /\ all[m].max = b[m].max
  <2>1. \A m \in {Partial, TmpPartial} : m \in Modes /\ m # Full /\ m # TmpFull
    BY DEF Modes, Full, Partial, TmpFull, TmpPartial
  <2> QED
    BY ONLY <1>3, <1>6, <1>8, <2>1
<1>12. ASSUME b[Partial].records = <<>>
       PROVE  /\ all[Full] = b[Full] /\ full[TmpFull] = b[TmpFull]
              /\ s = <<>> => all[TmpFull] = b[TmpFull]
  <2>1. full = a
    BY <1>4, <1>5, <1>12
  <2>2. all[Full] = full[Full]
    BY <1>8, Zenon DEF Modes, Full, TmpFull
  <2>3. s = <<>> => all = full
    BY <1>4, <1>7
  <2> QED
    BY <1>3, <2>1, <2>2, <2>3
<1>13. ASSUME b[Partial].records = <<>>, b[TmpFull].records = <<>>
       PROVE  /\ all[TmpFull].records \in Seq(Records)
              /\ Len(all[TmpFull].records) = Len(s)
              /\ Entries(all[TmpFull].records) = Entries(s)
              /\ Distinct(s) => Distinct(all[TmpFull].records)
              /\ Fresh(b[TmpFull]) /\ Len(s) <= InitialBufferSize => Fresh(all[TmpFull])
  <2> PICK r : r = all[TmpFull].records
    OBVIOUS
  <2>1. r \in Seq(Records)
    BY <1>8, Zenon DEF BufferType, Modes
  <2>2. Len(r) = Len(v) /\ (\A k \in 1 .. Len(v) : r[k] = v[k])
        /\ (Fresh(b[TmpFull]) /\ Len(v) <= InitialBufferSize => Fresh(all[TmpFull]))
    BY <1>8, <1>12, <1>13, Zenon
  <2>3. r = v
    <3>1. v \in Seq(Records)
      BY <1>4
    <3>2. Len(r) = Len(v) /\ \A k \in 1 .. Len(v) : r[k] = v[k]
      BY <2>2, Zenon
    <3> QED
      BY ONLY <2>1, <3>1, <3>2, SMTT(30)
  <2> QED
    BY <1>4, <2>1, <2>2, <2>3, Zenon
<1> QED
  BY <1>10, <1>11, <1>12, <1>13, Zenon

\* A complete leaf stays complete when it is loaded.
LEMMA LoadedComplete ==
    ASSUME Types, NEW n \in NodeType, NEW all, NEW st, NEW tn, Complete(n, files, all, st, tn)
    PROVE  Complete(Loaded(n), files, all, st, tn)
<1> PICK one : one = Loaded(n)
  OBVIOUS
<1> PICK s : s = n.buffer[TmpPartial].records \o PartialFile(n)
  OBVIOUS
<1> PICK loaded : loaded = n.buffer[TmpFull].records
  OBVIOUS
<1> PICK r : r = one.buffer[TmpFull].records
  OBVIOUS
<1>1. /\ SameNode(one, n) /\ one.has_full = n.has_full /\ ~one.has_partial
      /\ \A m \in {Partial, TmpPartial} : /\ one.buffer[m].records = <<>>
                                          /\ one.buffer[m].max = n.buffer[m].max
      /\ n.buffer[Partial].records = <<>> =>
             /\ one.buffer[Full] = n.buffer[Full]
             /\ s = <<>> => one.buffer[TmpFull] = n.buffer[TmpFull]
             /\ n.buffer[TmpFull].records = <<>> =>
                    /\ r \in Seq(Records)
                    /\ Len(r) = Len(s) /\ Entries(r) = Entries(s)
                    /\ Distinct(s) => Distinct(r)
                    /\ Fresh(n.buffer[TmpFull]) /\ Len(s) <= InitialBufferSize =>
                           Fresh(one.buffer[TmpFull])
  BY LoadedFacts
<1>2. /\ NoGrowth(n) /\ \A m \in Modes \ {TmpFull} : n.buffer[m].records = <<>>
      /\ n.leaf_size <= MaxLeafSize
      /\ n.box = NoBox => ~n.has_partial /\ ~n.has_full /\ loaded = <<>>
      /\ n.box # NoBox /\ PartOf(n) \in DOMAIN files => Whole(files[PartOf(n)], n, all)
      /\ n.box # NoBox /\ FullOf(n) \in tn => st
      /\ n.box # NoBox /\ FullOf(n) \in DOMAIN files =>
            /\ Partly(files[FullOf(n)], all, FullOf(n) \in tn)
            /\ n.has_full /\ FullOf(n) \notin tn => all \subseteq Entries(files[FullOf(n)])
            /\ ~st => Whole(files[FullOf(n)], n, all) /\ n.has_full
      /\ loaded # <<>> => Whole(loaded, n, all) /\ ~n.has_partial /\ ~n.has_full
      /\ n.has_partial => PartOf(n) \in DOMAIN files /\ ~n.has_full
      /\ n.has_full => FullOf(n) \in DOMAIN files
      /\ ~n.has_partial /\ ~n.has_full /\ loaded = <<>> => n.leaf_size = 0 /\ all = {}
  BY DEF Complete
<1>3. n.buffer[Partial].records = <<>> /\ n.buffer[TmpPartial].records = <<>> /\ n.buffer[Full].records = <<>>
  BY <1>2 DEF Modes, Full, Partial, TmpFull, TmpPartial
<1>4. one.box = n.box /\ one.leaf_size = n.leaf_size /\ PartOf(one) = PartOf(n) /\ FullOf(one) = FullOf(n)
  BY <1>1 DEF SameNode, PartOf, FullOf
<1>5. s = PartialFile(n) /\ s \in Seq(Records) /\ n.leaf_size \in Nat
  <2>1. PartialFile(n) \in Seq(Records) /\ n.leaf_size \in Nat
    BY HeldParts DEF NodeType
  <2>2. s = <<>> \o PartialFile(n)
    BY <1>3
  <2> QED
    BY <2>1, <2>2, NoneAdded
<1>6. \A m \in Modes \ {TmpFull} : one.buffer[m].records = <<>> /\ Fresh(one.buffer[m])
  <2>1. ASSUME NEW m \in {Partial, TmpPartial} PROVE one.buffer[m].records = <<>> /\ Fresh(one.buffer[m])
    BY <1>1, <1>2, <2>1 DEF NoGrowth, Fresh, Modes
  <2>2. one.buffer[Full].records = <<>> /\ Fresh(one.buffer[Full])
    BY <1>1, <1>2, <1>3 DEF NoGrowth, Modes
  <2> QED
    BY <2>1, <2>2 DEF Modes
<1>7. Fresh(n.buffer[TmpFull])
  BY <1>2 DEF NoGrowth, Modes
<1>8. CASE n.has_partial
  <2>1. n.box # NoBox /\ loaded = <<>> /\ ~n.has_full /\ PartOf(n) \in DOMAIN files
    BY <1>2, <1>8
  <2>2. s = files[PartOf(n)] /\ Whole(s, n, all)
    BY <1>2, <1>5, <1>8, <2>1 DEF PartialFile, ReadFile, PartOf
  <2>3. Len(s) = n.leaf_size /\ Distinct(s) /\ Entries(s) = all
    BY <2>2 DEF Whole
  <2>4. Len(s) <= InitialBufferSize
    BY ONLY <1>2, <1>5, <2>3, LeafBufferAssumption, MaxLeafSizeAssumption, InitialBufferSizeAssumption
  <2>5. /\ r \in Seq(Records) /\ Len(r) = n.leaf_size /\ Entries(r) = all /\ Distinct(r)
        /\ Fresh(one.buffer[TmpFull])
    BY <1>1, <1>3, <1>7, <2>1, <2>3, <2>4
  <2>6. r = <<>> => n.leaf_size = 0 /\ all = {}
    BY <2>5, EmptyIffNoEntries
  <2>7. \A m \in Modes : Fresh(one.buffer[m])
    BY <1>6, <2>5
  <2>8. r = one.buffer[TmpFull].records
    OBVIOUS
  <2>9. Complete(one, files, all, st, tn)
    BY ONLY <1>1, <1>2, <1>4, <1>6, <2>1, <2>5, <2>6, <2>7, <2>8 DEF Complete, NoGrowth, Whole
  <2> QED
    BY <2>9
<1>9. CASE ~n.has_partial
  <2>1. s = <<>>
    BY <1>5, <1>9 DEF PartialFile
  <2>2. one.buffer[TmpFull] = n.buffer[TmpFull]
    BY <1>1, <1>3, <2>1
  <2>3. \A m \in Modes : Fresh(one.buffer[m])
    BY <1>6, <1>7, <2>2
  <2>4. loaded = one.buffer[TmpFull].records /\ loaded = n.buffer[TmpFull].records
    BY <2>2
  <2>5. Complete(one, files, all, st, tn)
    BY ONLY <1>1, <1>2, <1>4, <1>6, <1>9, <2>3, <2>4 DEF Complete, NoGrowth, Whole
  <2> QED
    BY <2>5
<1> QED
  BY <1>8, <1>9

\* A complete leaf n stays complete when one is what n is after it has been
\* flushed, and g are the files.
LEMMA FlushedComplete ==
    ASSUME Types, NEW n \in NodeType, NEW one, NEW g, NEW all, NEW st,
           Complete(n, files, all, st, torn), SameNode(one, n),
           \A m \in Modes : one.buffer[m].max = n.buffer[m].max,
           \A m \in Modes : one.buffer[m].records = <<>>,
           n.box # NoBox =>
               /\ one.has_partial <=> n.has_partial \/ FlushedPartial(n.buffer) # <<>>
               /\ one.has_full <=> n.has_full \/ FlushedFull(n.buffer) # <<>>
               /\ Took(g, PartOf(n), FlushedPartial(n.buffer))
               /\ Took(g, FullOf(n), FlushedFull(n.buffer)),
           n.box = NoBox => one.has_partial = n.has_partial /\ one.has_full = n.has_full
    PROVE  Complete(one, g, all, st, torn)
<1> PICK loaded : loaded = n.buffer[TmpFull].records
  OBVIOUS
<1>2. /\ NoGrowth(n) /\ \A m \in Modes \ {TmpFull} : n.buffer[m].records = <<>>
      /\ n.leaf_size <= MaxLeafSize
      /\ n.box = NoBox => ~n.has_partial /\ ~n.has_full /\ loaded = <<>>
      /\ n.box # NoBox /\ PartOf(n) \in DOMAIN files => Whole(files[PartOf(n)], n, all)
      /\ n.box # NoBox /\ FullOf(n) \in torn => st
      /\ n.box # NoBox /\ FullOf(n) \in DOMAIN files =>
            /\ Partly(files[FullOf(n)], all, FullOf(n) \in torn)
            /\ n.has_full /\ FullOf(n) \notin torn => all \subseteq Entries(files[FullOf(n)])
            /\ ~st => Whole(files[FullOf(n)], n, all) /\ n.has_full
      /\ loaded # <<>> => Whole(loaded, n, all) /\ ~n.has_partial /\ ~n.has_full
      /\ n.has_partial => PartOf(n) \in DOMAIN files /\ ~n.has_full
      /\ n.has_full => FullOf(n) \in DOMAIN files
      /\ ~n.has_partial /\ ~n.has_full /\ loaded = <<>> => n.leaf_size = 0 /\ all = {}
  BY DEF Complete
<1>3. n.buffer[Partial].records = <<>> /\ n.buffer[TmpPartial].records = <<>> /\ n.buffer[Full].records = <<>>
  BY <1>2 DEF Modes, Full, Partial, TmpFull, TmpPartial
<1>4. FlushedPartial(n.buffer) = <<>> /\ FlushedFull(n.buffer) = loaded /\ loaded \in Seq(Records)
  BY <1>3, NodeParts DEF Modes
<1>5. one.box = n.box /\ one.leaf_size = n.leaf_size /\ PartOf(one) = PartOf(n) /\ FullOf(one) = FullOf(n)
  BY DEF SameNode, PartOf, FullOf
<1>6. NoGrowth(one) /\ one.buffer[TmpFull].records = <<>>
      /\ \A m \in Modes \ {TmpFull} : one.buffer[m].records = <<>>
  BY <1>2 DEF NoGrowth, Fresh, Modes
<1>7. CASE n.box = NoBox
  <2>1. one.has_partial = n.has_partial /\ one.has_full = n.has_full
    BY <1>7
  <2> QED
    BY ONLY <1>2, <1>5, <1>6, <1>7, <2>1 DEF Complete
<1>8. CASE n.box # NoBox
  <2> PICK h : h = ReadFile(FullOf(n))
    OBVIOUS
  <2>1. /\ one.has_partial <=> n.has_partial
        /\ one.has_full <=> n.has_full \/ loaded # <<>>
        /\ Unchanged(g, PartOf(n))
        /\ Took(g, FullOf(n), loaded)
    BY <1>4, <1>8 DEF Took
  <2>2. /\ PartOf(n) \in DOMAIN g <=> PartOf(n) \in DOMAIN files
        /\ PartOf(n) \in DOMAIN files => g[PartOf(n)] = files[PartOf(n)]
    BY <2>1 DEF Unchanged
  <2>3. CASE loaded = <<>>
    <3>1. /\ FullOf(n) \in DOMAIN g <=> FullOf(n) \in DOMAIN files
          /\ FullOf(n) \in DOMAIN files => g[FullOf(n)] = files[FullOf(n)]
      BY <2>1, <2>3 DEF Took, Unchanged
    <3>2. one.has_full <=> n.has_full
      BY <2>1, <2>3
    <3> QED
      BY ONLY <1>2, <1>5, <1>6, <1>8, <2>1, <2>2, <2>3, <3>1, <3>2 DEF Complete, Whole
  <2>4. CASE loaded # <<>>
    <3> PICK f, gf : f = FullOf(n) /\ gf = g[f]
      OBVIOUS
    <3>1. f \in DOMAIN g /\ gf = Appended(f, loaded)
      BY <2>1, <2>4 DEF Took
    <3>2. Whole(loaded, n, all) /\ ~n.has_partial /\ ~n.has_full
      BY <1>2, <2>4
    <3>3. /\ h \in Seq(Records)
          /\ f \notin torn => gf = h \o loaded /\ Entries(gf) = Entries(h) \cup Entries(loaded)
          /\ f \in torn => Entries(gf) \subseteq Entries(h) \cup {Garbage}
      BY <1>4, <3>1, AppendedFacts
    <3>4. Entries(loaded) = all
      BY <3>2 DEF Whole
    <3>5. Partly(h, all, f \in torn)
      <4>1. CASE f \in DOMAIN files
        BY <1>2, <1>8, <4>1 DEF ReadFile
      <4>2. CASE f \notin DOMAIN files
        BY <4>2, NoEntries DEF ReadFile, Partly
      <4> QED
        BY <4>1, <4>2
    <3>6. /\ Partly(gf, all, f \in torn)
          /\ f \notin torn => all \subseteq Entries(gf)
          /\ ~st => Whole(gf, n, all)
      <4>1. ASSUME ~st PROVE gf = loaded
        <5>1. f \notin torn /\ f \notin DOMAIN files
          BY <1>2, <1>8, <3>2, <4>1
        <5>2. h = <<>>
          BY <5>1 DEF ReadFile
        <5> QED
          BY <1>4, <3>3, <5>1, <5>2, NoneAdded
      <4> QED
        BY <3>2, <3>3, <3>4, <3>5, <4>1 DEF Partly
    <3>7. one.has_full /\ ~one.has_partial
      BY <2>1, <2>4, <3>2
    <3> QED
      BY ONLY <1>2, <1>5, <1>6, <1>8, <2>2, <3>1, <3>2, <3>6, <3>7, f = FullOf(n), gf = g[f]
         DEF Complete, Whole
  <2> QED
    BY <2>3, <2>4
<1> QED
  BY <1>7, <1>8

\* What is around the leaves does not change while they are loaded and flushed.
Around == UNCHANGED <<words, hard, fbl, index_idx, at, adding, phase, exited, stale, torn>>

LEMMA QueryKeeps ==
    ASSUME DiskInv, ~exited, phase = "query", Around,
           tree' \in [Nodes -> NodeType],
           \A q \in Nodes : SameNode(tree'[q], tree[q]),
           \A q \in Nodes : tree[q].has_full => tree'[q].has_full,
           files' \in [DOMAIN files' -> Seq(Records)], DOMAIN files \subseteq DOMAIN files',
           \A p \in Leaves : Complete(tree'[p], files', Mine(p), stale, torn)
    PROVE  DiskInv'
<1>0. UNCHANGED <<words, hard, fbl, index_idx, at, adding, phase, exited, stale, torn>>
  BY DEF Around
<1>1. Statics /\ Types /\ Shape /\ Querying
  BY BuildingNow
<1>2. Nodes' = Nodes
  BY DEF Nodes
<1>3. Types'
  BY <1>0, <1>1, <1>2 DEF Types
<1>4. /\ Leaves' = Leaves
      /\ \A q \in Nodes : Mine(q)' = Mine(q)
      /\ Shape' /\ Routes' /\ SplitBits' /\ Boxed'
  <2>1. \A q \in Nodes : fbl'[q[1]].initialized
    BY <1>0, <1>1, NodeFacts
  <2>2. words' = words /\ \A m \in Masks : fbl'[m].initialized => fbl[m].initialized
    BY <1>0
  <2>3. /\ \A q \in Nodes : tree'[q].is_leaf = tree[q].is_leaf
        /\ \A q \in Nodes : tree'[q].box = tree[q].box
        /\ \A q \in Nodes \ Leaves : /\ tree'[q].split_mask = tree[q].split_mask
                                     /\ tree'[q].splitpoint = tree[q].splitpoint
    BY DEF SameNode
  <2> QED
    BY ONLY <1>1, <1>2, <2>1, <2>2, <2>3, SameTree
<1>5. Statics'
  BY <1>3, <1>4 DEF Statics
<1>6. /\ hard' = <<>> /\ adding' = <<>> /\ at' = NotFlushing
      /\ \A m \in Masks : fbl'[m].records = <<>>
  BY <1>0, <1>1 DEF Querying
<1>7. \A p \in Leaves' : Complete(tree'[p], files', Mine(p)', stale', torn')
  BY <1>0, <1>4, LeafIsNode
<1>8. ASSUME index_idx' # NotWritten
      PROVE  /\ DOMAIN index_idx' = Nodes'
             /\ \A p \in Leaves' : LeafWritten(index_idx'[p], tree'[p], files', Mine(p)')
             /\ \A p \in Nodes' \ Leaves' : InnerWritten(index_idx'[p], tree'[p])
  <2>1. /\ DOMAIN index_idx = Nodes
        /\ \A p \in Leaves : LeafWritten(index_idx[p], tree[p], files, Mine(p))
        /\ \A p \in Nodes \ Leaves : InnerWritten(index_idx[p], tree[p])
    BY <1>0, <1>1, <1>8 DEF Querying, WrittenInv
  <2>2. ASSUME NEW p \in Leaves PROVE LeafWritten(index_idx[p], tree'[p], files', Mine(p))
    <3>1. /\ tree'[p].box = tree[p].box /\ tree'[p].leaf_size = tree[p].leaf_size
          /\ PartOf(tree'[p]) = PartOf(tree[p]) /\ FullOf(tree'[p]) = FullOf(tree[p])
          /\ tree[p].has_full => tree'[p].has_full
      BY LeafIsNode DEF SameNode, PartOf, FullOf
    <3>2. LeafWritten(index_idx[p], tree[p], files, Mine(p))
      BY <2>1
    <3>3. DOMAIN files \subseteq DOMAIN files'
      OBVIOUS
    <3> QED
      BY ONLY <3>1, <3>2, <3>3 DEF LeafWritten
  <2>3. ASSUME NEW p \in Nodes \ Leaves PROVE InnerWritten(index_idx[p], tree'[p])
    <3>1. SameNode(tree'[p], tree[p]) /\ InnerWritten(index_idx[p], tree[p])
      BY <2>1
    <3> QED
      BY ONLY <3>1 DEF SameNode, InnerWritten
  <2> QED
    BY <1>0, <1>2, <1>4, <2>1, <2>2, <2>3, LeafIsNode
<1>9. exited' \in BOOLEAN /\ ~exited' /\ phase' = "query"
  BY <1>0 DEF DiskInv
<1> QED
  BY ONLY <1>5, <1>6, <1>7, <1>8, <1>9, QueryNext

\* Leaves of a tree t are flushed that differs from the present one by what
\* has been loaded.
LEMMA FlushKeeps ==
    ASSUME DiskInv, ~exited, phase = "query", Around,
           NEW t \in [Nodes -> NodeType], \A q \in Nodes : SameNode(t[q], tree[q]),
           \A q \in Nodes : t[q].has_full = tree[q].has_full,
           \A p \in Leaves : Complete(t[p], files, Mine(p), stale, torn),
           NEW ps, ps \subseteq Leaves,
           tree' = TreeFlushed(t, ps), files' = FilesFlushed(t, ps)
    PROVE  DiskInv'
<1>1. Statics /\ Types
  BY BuildingNow
<1>2. \A q \in ps : q \in Leaves /\ q \in Nodes
  BY LeafIsNode
<1>3. \A q \in Nodes : t[q].box = tree[q].box
  BY DEF SameNode
<1>4. \A p \in Leaves, q \in ps : p # q /\ t[p].box # NoBox => t[p].box # t[q].box
  BY <1>1, <1>2, <1>3, LeafIsNode, NamesApart
<1>5. Named(t, ps)
  BY <1>2, <1>4 DEF Named
<1> PICK g : g = files'
  OBVIOUS
<1>6. /\ g \in [DOMAIN g -> Seq(Records)]
      /\ DOMAIN files \subseteq DOMAIN g
      /\ \A p \in ps : \A kind \in Kinds :
             t[p].box # NoBox => Took(g, File(t[p].box, kind), FlushedTo(kind, t[p]))
      /\ \A f : (\A p \in ps : \A kind \in Kinds : t[p].box # NoBox => f # File(t[p].box, kind))
                    => Unchanged(g, f)
  <2>1. \A p \in ps : t[p] \in NodeType
    BY <1>2
  <2>2. g = FilesFlushed(t, ps)
    OBVIOUS
  <2> QED
    BY ONLY <1>1, <1>5, <2>1, <2>2, FilesFacts
<1>7. ASSUME NEW p \in Nodes
      PROVE  /\ p \notin ps => tree'[p] = t[p]
             /\ SameNode(tree'[p], t[p])
             /\ \A m \in Modes : tree'[p].buffer[m].max = t[p].buffer[m].max
             /\ p \in ps => \A m \in Modes : tree'[p].buffer[m].records = <<>>
             /\ p \in ps /\ t[p].box # NoBox =>
                    /\ tree'[p].has_partial <=> t[p].has_partial \/ FlushedPartial(t[p].buffer) # <<>>
                    /\ tree'[p].has_full <=> t[p].has_full \/ FlushedFull(t[p].buffer) # <<>>
             /\ t[p].box = NoBox => /\ tree'[p].has_partial = t[p].has_partial
                                    /\ tree'[p].has_full = t[p].has_full
  <2>1. p \in DOMAIN t /\ t[p] \in NodeType
    OBVIOUS
  <2>2. tree'[p] = TreeFlushed(t, ps)[p]
    OBVIOUS
  <2> QED
    BY ONLY <2>1, <2>2, NodeFlushed DEF SameNode
<1>8. \A q \in Nodes : SameNode(tree'[q], tree[q])
  BY <1>7 DEF SameNode
<1>9. tree' \in [Nodes -> NodeType]
  <2>1. tree' = [q \in Nodes |-> tree'[q]]
    BY DEF TreeFlushed
  <2> QED
    BY <1>8, <2>1 DEF SameNode
<1>10. ASSUME NEW p \in Leaves PROVE Complete(tree'[p], g, Mine(p), stale, torn)
  <2> PICK n : n = t[p]
    OBVIOUS
  <2> PICK one : one = tree'[p]
    OBVIOUS
  <2> PICK all : all = Mine(p)
    OBVIOUS
  <2>1. p \in Nodes /\ n \in NodeType /\ Complete(n, files, all, stale, torn)
    BY LeafIsNode
  <2>2. CASE p \in ps
    <3>1. /\ SameNode(one, n)
          /\ \A m \in Modes : one.buffer[m].max = n.buffer[m].max
          /\ \A m \in Modes : one.buffer[m].records = <<>>
          /\ n.box = NoBox => one.has_partial = n.has_partial /\ one.has_full = n.has_full
      BY <1>7, <2>1, <2>2
    <3>2. n.box # NoBox =>
               /\ one.has_partial <=> n.has_partial \/ FlushedPartial(n.buffer) # <<>>
               /\ one.has_full <=> n.has_full \/ FlushedFull(n.buffer) # <<>>
      BY <1>7, <2>1, <2>2
    <3>3. n.box # NoBox =>
               /\ Took(g, PartOf(n), FlushedPartial(n.buffer))
               /\ Took(g, FullOf(n), FlushedFull(n.buffer))
      <4>1. Full \in Kinds /\ Partial \in Kinds
        BY DEF Kinds
      <4>2. FlushedTo(Full, n) = FlushedFull(n.buffer) /\ FlushedTo(Partial, n) = FlushedPartial(n.buffer)
        BY DEF FlushedTo, Full, Partial
      <4> QED
        BY <1>6, <2>2, <4>1, <4>2 DEF PartOf, FullOf
    <3>4. Complete(one, g, all, stale, torn)
      BY ONLY <1>1, <2>1, <3>1, <3>2, <3>3, FlushedComplete
    <3> QED
      BY <3>4
  <2>3. CASE p \notin ps
    <3>1. one = n
      BY <1>7, <2>1, <2>3
    <3>2. ASSUME n.box # NoBox PROVE Unchanged(g, PartOf(n)) /\ Unchanged(g, FullOf(n))
      <4>1. \A q \in ps : n.box # t[q].box
        BY <1>4, <2>3, <3>2
      <4>2. \A q \in ps : \A kind \in Kinds : PartOf(n) # File(t[q].box, kind) /\ FullOf(n) # File(t[q].box, kind)
        BY <4>1 DEF PartOf, FullOf, File
      <4> QED
        BY <1>6, <4>2
    <3>3. Complete(one, g, all, stale, torn)
      BY ONLY <2>1, <3>1, <3>2 DEF Complete, Unchanged
    <3> QED
      BY <3>3
  <2> QED
    BY <2>2, <2>3
<1>11. /\ files' \in [DOMAIN files' -> Seq(Records)] /\ DOMAIN files \subseteq DOMAIN files'
       /\ \A p \in Leaves : Complete(tree'[p], files', Mine(p), stale, torn)
  BY <1>6, <1>10
<1>12. DiskInv /\ ~exited /\ phase = "query" /\ Around
  OBVIOUS
<1>13. \A q \in Nodes : tree[q].has_full => tree'[q].has_full
  BY <1>7
<1> QED
  BY ONLY <1>8, <1>9, <1>11, <1>12, <1>13, QueryKeeps

\* What loading makes of the tree.
LEMMA TreeLoadedFacts ==
    ASSUME DiskInv, ~exited, phase = "query", NEW p, NEW t, t = TreeLoaded(p)
    PROVE  /\ t \in [Nodes -> NodeType]
           /\ \A q \in Nodes : SameNode(t[q], tree[q]) /\ t[q].has_full = tree[q].has_full
           /\ \A q \in Leaves : Complete(t[q], files, Mine(q), stale, torn)
<1> PICK ps : ps = ToSet(FindSiblings(p))
  OBVIOUS
<1>0. t = [q \in Nodes |-> IF q \in ps THEN Loaded(tree[q]) ELSE tree[q]]
  BY DEF TreeLoaded
<1>1. Statics /\ Types /\ Querying
  BY BuildingNow
<1>2. tree \in [Nodes -> NodeType]
  BY <1>1 DEF Types
<1>3. ASSUME NEW q \in Nodes
      PROVE  SameNode(t[q], tree[q]) /\ t[q] \in NodeType /\ t[q].has_full = tree[q].has_full
  <2>1. SameNode(Loaded(tree[q]), tree[q]) /\ Loaded(tree[q]).has_full = tree[q].has_full
    BY <1>1, <1>2, LoadedFacts
  <2>2. SameNode(tree[q], tree[q])
    BY <1>2 DEF SameNode
  <2> QED
    BY <1>0, <2>1, <2>2 DEF SameNode
<1>4. t \in [Nodes -> NodeType]
  BY <1>0, <1>3
<1>5. ASSUME NEW q \in Leaves PROVE Complete(t[q], files, Mine(q), stale, torn)
  <2>1. q \in Nodes /\ tree[q] \in NodeType /\ Complete(tree[q], files, Mine(q), stale, torn)
    BY <1>1, <1>2, LeafIsNode DEF Querying
  <2>2. Complete(Loaded(tree[q]), files, Mine(q), stale, torn)
    BY ONLY <1>1, <2>1, LoadedComplete
  <2> QED
    BY <1>0, <2>1, <2>2
<1> QED
  BY <1>3, <1>4, <1>5

LEMMA LoadNodeStep ==
    ASSUME DiskInv, ~exited, phase = "query", Around, NEW p, LoadNode(p)
    PROVE  DiskInv'
<1> PICK t : t = TreeLoaded(p)
  OBVIOUS
<1>0. \/ tree' = TreeFlushed(t, ListedLeaves) /\ files' = FilesFlushed(t, ListedLeaves)
      \/ tree' = t /\ files' = files
  BY DEF LoadNode
<1>1. Types
  BY BuildingNow
<1>2. /\ t \in [Nodes -> NodeType]
      /\ \A q \in Nodes : SameNode(t[q], tree[q]) /\ t[q].has_full = tree[q].has_full
      /\ \A q \in Leaves : Complete(t[q], files, Mine(q), stale, torn)
  BY TreeLoadedFacts
<1>3. DiskInv /\ ~exited /\ phase = "query" /\ Around
  OBVIOUS
<1>4. CASE tree' = t /\ files' = files
  <2>1. /\ files' \in [DOMAIN files' -> Seq(Records)] /\ DOMAIN files \subseteq DOMAIN files'
        /\ \A q \in Leaves : Complete(tree'[q], files', Mine(q), stale, torn)
        /\ \A q \in Nodes : SameNode(tree'[q], tree[q])
        /\ \A q \in Nodes : tree[q].has_full => tree'[q].has_full
        /\ tree' \in [Nodes -> NodeType]
    BY <1>1, <1>2, <1>4 DEF Types
  <2> QED
    BY ONLY <1>3, <2>1, QueryKeeps
<1>5. CASE tree' = TreeFlushed(t, ListedLeaves) /\ files' = FilesFlushed(t, ListedLeaves)
  <2> PICK listed : listed = ListedLeaves
    OBVIOUS
  <2>1. listed \subseteq Leaves
    BY DEF ListedLeaves
  <2>2. tree' = TreeFlushed(t, listed) /\ files' = FilesFlushed(t, listed)
    BY <1>5
  <2> QED
    BY ONLY <1>2, <1>3, <2>1, <2>2, FlushKeeps
<1> QED
  BY <1>0, <1>4, <1>5

LEMMA FlushAllStep == ASSUME DiskInv, FlushAll PROVE DiskInv'
<1>0. /\ loading # <<>> /\ Around
      /\ tree' = TreeFlushed(tree, ListedLeaves) /\ files' = FilesFlushed(tree, ListedLeaves)
  BY DEF FlushAll, Around
<1>1. ~exited
  BY <1>0 DEF DiskInv, GivenUp
<1>2. phase = "query" /\ Querying /\ Types
  BY <1>0, <1>1, BuildingNow
<1> PICK listed : listed = ListedLeaves
  OBVIOUS
<1>3. listed \subseteq Leaves
  BY DEF ListedLeaves
<1>4. tree \in [Nodes -> NodeType]
  BY <1>2 DEF Types
<1>5. \A q \in Nodes : SameNode(tree[q], tree[q])
  BY <1>4 DEF SameNode
<1>6. \A q \in Leaves : Complete(tree[q], files, Mine(q), stale, torn)
  BY <1>2 DEF Querying
<1>7. DiskInv
  OBVIOUS
<1>8. tree' = TreeFlushed(tree, listed) /\ files' = FilesFlushed(tree, listed)
  BY <1>0
<1> QED
  BY ONLY <1>0, <1>1, <1>2, <1>3, <1>4, <1>5, <1>6, <1>7, <1>8, FlushKeeps

LEMMA LoadStep == ASSUME DiskInv, Load PROVE DiskInv'
<1>0. loading # <<>> /\ Around /\ LoadNode(Head(loading))
  BY DEF Load, Around
<1>1. ~exited
  BY <1>0 DEF DiskInv, GivenUp
<1>2. phase = "query"
  BY <1>0, <1>1, BuildingNow
<1> QED
  BY <1>0, <1>1, <1>2, LoadNodeStep

LEMMA CalculateNodeDistanceStep ==
    ASSUME DiskInv, NEW p, CalculateNodeDistance(p) \/ LoadNodeTopk(p)
    PROVE  DiskInv'
<1>1. ~exited /\ phase = "query" /\ Around /\ LoadNode(p)
  BY DEF CalculateNodeDistance, LoadNodeTopk, Idle, Around, calls
<1> QED
  BY <1>1, LoadNodeStep

\* Steps that leave the tree and the files alone.
LEMMA QueryStays ==
    ASSUME DiskInv, ~exited, phase = "query", Around, UNCHANGED <<tree, files>>
    PROVE  DiskInv'
<1>1. Types /\ Querying
  BY BuildingNow
<1>2. tree \in [Nodes -> NodeType]
  BY <1>1 DEF Types
<1>3. /\ tree' \in [Nodes -> NodeType]
      /\ \A q \in Nodes : SameNode(tree'[q], tree[q]) /\ (tree[q].has_full => tree'[q].has_full)
  BY <1>2 DEF SameNode
<1>4. files' \in [DOMAIN files' -> Seq(Records)] /\ DOMAIN files \subseteq DOMAIN files'
  BY <1>1 DEF Types
<1>5. \A q \in Leaves : Complete(tree'[q], files', Mine(q), stale, torn)
  BY <1>1 DEF Querying
<1> QED
  BY <1>3, <1>4, <1>5, QueryKeeps

LEMMA ListedStep == ASSUME DiskInv, LoadRandomLeaf \/ CompleteIndexLeafs PROVE DiskInv'
<1>1. ~exited /\ phase = "query" /\ Around /\ UNCHANGED <<tree, files>>
  BY DEF LoadRandomLeaf, CompleteIndexLeafs, Idle, Around, memory
<1> QED
  BY <1>1, QueryStays

-----------------------------------------------------------------------------
(* A flush that has been killed.                                           *)

\* What a process that has been killed leaves of the files of leaf n, whose
\* records are the set all: its .part file as it was, in its .full file none but
\* its records, and nothing new in a .full file it had flushed before.
AfterCrash(n, g, tn, all) ==
    n.box # NoBox =>
        /\ Unchanged(g, PartOf(n))
        /\ FullOf(n) \in DOMAIN g => Partly(g[FullOf(n)], all, FullOf(n) \in tn)
        /\ n.has_full => Unchanged(g, FullOf(n)) /\ (FullOf(n) \in tn <=> FullOf(n) \in torn)

\* The part of a buffer that gets into a file.
LEMMA CutFacts ==
    ASSUME NEW n \in NodeType, NEW k \in 0 .. Len(FlushedFull(n.buffer)),
           NEW one, one = [n EXCEPT !.buffer = CutAt(k, @)]
    PROVE  /\ one \in NodeType /\ one.box = n.box
           /\ FlushedPartial(one.buffer) = <<>>
           /\ Entries(FlushedFull(one.buffer)) \subseteq Entries(FlushedFull(n.buffer))
           /\ FlushedFull(n.buffer) = <<>> => FlushedFull(one.buffer) = <<>>
<1> PICK s : s = FlushedFull(n.buffer)
  OBVIOUS
<1> PICK u : u = SubSeq(s, 1, k)
  OBVIOUS
<1> PICK new : new = NewBuffer
  OBVIOUS
<1> PICK b : b = [new EXCEPT ![Full].records = u]
  OBVIOUS
<1>1. s \in Seq(Records) /\ k \in 0 .. Len(s)
  BY NodeParts
<1>2. u \in Seq(Records) /\ Len(u) = k /\ \A h \in 1 .. k : u[h] = s[h]
  BY ONLY <1>1, u = SubSeq(s, 1, k), FirstPart
<1>3. Entries(u) \subseteq Entries(s) /\ (s = <<>> => u = <<>>)
  BY ONLY <1>1, <1>2 DEF Entries
<1>4. new \in BufferType /\ \A m \in Modes : new[m].records = <<>>
  BY NewBufferType
<1>5. new[Full] \in [records : Seq(Records), max : Nat]
  BY <1>4 DEF BufferType, Modes
<1> PICK c : c = [new[Full] EXCEPT !.records = u]
  OBVIOUS
<1>6. c \in [records : Seq(Records), max : Nat] /\ c.records = u
  BY ONLY <1>2, <1>5, c = [new[Full] EXCEPT !.records = u]
<1>7. b = [new EXCEPT ![Full] = c]
  BY ONLY <1>4, b = [new EXCEPT ![Full].records = u], c = [new[Full] EXCEPT !.records = u]
     DEF BufferType, Modes
<1>8. /\ b \in BufferType /\ b[Full].records = u
      /\ \A m \in Modes : m # Full => b[m].records = <<>>
  BY ONLY <1>4, <1>6, <1>7 DEF BufferType, Modes
<1>9. /\ b[Full].records = u /\ b[TmpFull].records = <<>>
      /\ b[Partial].records = <<>> /\ b[TmpPartial].records = <<>>
  BY ONLY <1>8 DEF Modes, Full, Partial, TmpFull, TmpPartial
<1>10. FlushedFull(b) = u /\ FlushedPartial(b) = <<>>
  BY ONLY <1>2, <1>9, NoneAdded DEF FlushedFull, FlushedPartial
<1>11. one = [n EXCEPT !.buffer = b]
  BY DEF CutAt
<1>12. one \in NodeType /\ one.box = n.box /\ one.buffer = b
  BY ONLY <1>8, <1>11, n \in NodeType DEF NodeType
<1> QED
  BY <1>3, <1>10, <1>12

\* A leaf ps of which have been flushed, with whatever their buffers held.
LEMMA CrashFiles ==
    ASSUME DiskInv, ~exited, phase = "query",
           NEW u, u \in [Nodes -> NodeType], NEW ps, ps \subseteq Leaves,
           \A q \in Leaves :
               /\ u[q].box = tree[q].box
               /\ FlushedPartial(u[q].buffer) = <<>>
               /\ Entries(FlushedFull(u[q].buffer)) \subseteq Mine(q)
               /\ tree[q].has_full => FlushedFull(u[q].buffer) = <<>>,
           NEW tn, torn \subseteq tn,
           \A q \in Leaves : tree[q].box # NoBox /\ tree[q].has_full =>
               (FullOf(tree[q]) \in tn <=> FullOf(tree[q]) \in torn),
           NEW g, g = FilesFlushed(u, ps)
    PROVE  /\ g \in [DOMAIN g -> Seq(Records)] /\ DOMAIN files \subseteq DOMAIN g
           /\ \A p \in Leaves : AfterCrash(tree[p], g, tn, Mine(p))
<1>1. Statics /\ Types /\ Querying
  BY BuildingNow
<1>2. \A q \in Leaves : q \in Nodes
  BY LeafIsNode
<1>3. \A p, q \in Leaves : p # q /\ u[p].box # NoBox => u[p].box # u[q].box
  BY <1>1, NamesApart
<1>4. Named(u, ps)
  BY <1>3 DEF Named
<1>5. /\ g \in [DOMAIN g -> Seq(Records)]
      /\ DOMAIN files \subseteq DOMAIN g
      /\ \A p \in ps : \A kind \in Kinds :
             u[p].box # NoBox => Took(g, File(u[p].box, kind), FlushedTo(kind, u[p]))
      /\ \A f : (\A p \in ps : \A kind \in Kinds : u[p].box # NoBox => f # File(u[p].box, kind))
                    => Unchanged(g, f)
  <2>1. \A p \in ps : u[p] \in NodeType
    BY <1>2
  <2>2. g = FilesFlushed(u, ps)
    OBVIOUS
  <2> QED
    BY ONLY <1>1, <1>4, <2>1, <2>2, FilesFacts
<1>6. ASSUME NEW p \in Leaves, tree[p].box # NoBox
      PROVE  AfterCrash(tree[p], g, tn, Mine(p))
  <2> PICK n : n = tree[p]
    OBVIOUS
  <2> PICK all : all = Mine(p)
    OBVIOUS
  <2> PICK s : s = FlushedFull(u[p].buffer)
    OBVIOUS
  <2> PICK f : f = FullOf(n)
    OBVIOUS
  <2>1. /\ n.box # NoBox /\ u[p].box = n.box /\ FlushedPartial(u[p].buffer) = <<>>
        /\ s \in Seq(Records) /\ Entries(s) \subseteq all /\ (n.has_full => s = <<>>)
        /\ f \in torn => f \in tn
        /\ n.has_full => (f \in tn <=> f \in torn)
    <3>1. u[p] \in NodeType
      BY <1>2
    <3> QED
      BY <1>6, <3>1, NodeParts
  <2>2. f \in DOMAIN files => Partly(files[f], all, f \in torn)
    <3>1. Complete(n, files, all, stale, torn)
      BY <1>1 DEF Querying
    <3> QED
      BY ONLY <2>1, <3>1, f = FullOf(n) DEF Complete
  <2>3. /\ Unchanged(g, PartOf(n))
        /\ Unchanged(g, f) \/ (s # <<>> /\ g[f] = Appended(f, s))
    <3>1. CASE p \in ps
      <4>1. Full \in Kinds /\ Partial \in Kinds
        BY DEF Kinds
      <4>2. FlushedTo(Full, u[p]) = s /\ FlushedTo(Partial, u[p]) = <<>>
        BY <2>1 DEF FlushedTo, Full, Partial
      <4>3. Took(g, File(n.box, Full), s) /\ Took(g, File(n.box, Partial), <<>>)
        BY <1>5, <2>1, <3>1, <4>1, <4>2
      <4> QED
        BY <4>3 DEF Took, PartOf, FullOf
    <3>2. CASE p \notin ps
      <4>1. \A q \in ps : n.box # u[q].box
        BY <1>3, <2>1, <3>2
      <4>2. \A q \in ps : \A kind \in Kinds : PartOf(n) # File(u[q].box, kind) /\ f # File(u[q].box, kind)
        BY <4>1 DEF PartOf, FullOf, File
      <4>3. Unchanged(g, PartOf(n)) /\ Unchanged(g, f)
        BY ONLY <1>5, <4>2
      <4> QED
        BY <4>3
    <3> QED
      BY <3>1, <3>2
  <2>4. n.has_full => Unchanged(g, f)
    BY <2>1, <2>3
  <2>5. ASSUME f \in DOMAIN g PROVE Partly(g[f], all, f \in tn)
    <3>1. CASE Unchanged(g, f)
      BY <2>1, <2>2, <2>5, <3>1 DEF Unchanged, Partly
    <3>2. CASE s # <<>> /\ g[f] = Appended(f, s)
      <4> PICK h : h = ReadFile(f)
        OBVIOUS
      <4>1. /\ f \notin torn => Entries(g[f]) = Entries(h) \cup Entries(s)
            /\ f \in torn => Entries(g[f]) \subseteq Entries(h) \cup {Garbage}
        BY <1>1, <2>1, <3>2, AppendedFacts
      <4>2. Partly(h, all, f \in torn)
        <5>1. CASE f \in DOMAIN files
          BY <2>2, <5>1 DEF ReadFile
        <5>2. CASE f \notin DOMAIN files
          BY <5>2, NoEntries DEF ReadFile, Partly
        <5> QED
          BY <5>1, <5>2
      <4> QED
        BY <2>1, <4>1, <4>2 DEF Partly
    <3> QED
      BY <2>3, <3>1, <3>2
  <2> QED
    BY <2>1, <2>3, <2>4, <2>5 DEF AfterCrash
<1>7. \A p \in Leaves : AfterCrash(tree[p], g, tn, Mine(p))
  BY <1>6 DEF AfterCrash
<1> QED
  BY <1>5, <1>7

\* A flush that has been killed, of a tree that differs from the present one by
\* what has been loaded.
LEMMA LeftFiles ==
    ASSUME DiskInv, ~exited, phase = "query",
           NEW t, t \in [Nodes -> NodeType],
           \A q \in Nodes : SameNode(t[q], tree[q]) /\ t[q].has_full = tree[q].has_full,
           \A q \in Leaves : Complete(t[q], files, Mine(q), stale, torn),
           LeftBehind(t)
    PROVE  /\ files' \in [DOMAIN files' -> Seq(Records)] /\ DOMAIN files \subseteq DOMAIN files'
           /\ \A p \in Leaves : AfterCrash(tree[p], files', torn', Mine(p))
<1>1. Statics
  BY BuildingNow
<1>2. ListedLeaves \subseteq Leaves /\ Leaves \subseteq Nodes
  BY LeafIsNode DEF ListedLeaves
<1>3. PICK p \in ListedLeaves, cut \in BOOLEAN :
          /\ t[p].box # NoBox
          /\ \E k \in 0 .. Len(FlushedFull(t[p].buffer)) :
                 /\ cut => k < Len(FlushedFull(t[p].buffer))
                 /\ files' = FilesFlushed([t EXCEPT ![p].buffer = CutAt(k, @)],
                                          {q \in ListedLeaves : q = p \/ FlushedBefore(q, p)})
          /\ torn' = IF cut THEN torn \cup {File(t[p].box, Full)} ELSE torn
  BY DEF LeftBehind
<1> PICK ps : ps = {q \in ListedLeaves : q = p \/ FlushedBefore(q, p)}
  OBVIOUS
<1>4. PICK k \in 0 .. Len(FlushedFull(t[p].buffer)) :
          /\ cut => k < Len(FlushedFull(t[p].buffer))
          /\ files' = FilesFlushed([t EXCEPT ![p].buffer = CutAt(k, @)], ps)
  BY <1>3
<1>5. /\ p \in Leaves /\ ps \subseteq Leaves /\ t[p].box # NoBox
      /\ k \in 0 .. Len(FlushedFull(t[p].buffer))
      /\ cut => k < Len(FlushedFull(t[p].buffer))
      /\ files' = FilesFlushed([t EXCEPT ![p].buffer = CutAt(k, @)], ps)
      /\ torn' = IF cut THEN torn \cup {File(t[p].box, Full)} ELSE torn
  <2>1. p \in Leaves /\ ps \subseteq Leaves
    BY <1>2
  <2> QED
    BY <1>3, <1>4, <2>1
<1> PICK u : u = [t EXCEPT ![p].buffer = CutAt(k, @)]
  OBVIOUS
<1> PICK n : n = t[p]
  OBVIOUS
<1> PICK one : one = [n EXCEPT !.buffer = CutAt(k, @)]
  OBVIOUS
<1>6. p \in Nodes /\ t[p] \in NodeType /\ DOMAIN t = Nodes
  BY <1>2
<1>7. u = [t EXCEPT ![p] = one]
  BY <1>6
<1>8. /\ one \in NodeType /\ one.box = n.box /\ FlushedPartial(one.buffer) = <<>>
      /\ Entries(FlushedFull(one.buffer)) \subseteq Entries(FlushedFull(n.buffer))
      /\ FlushedFull(n.buffer) = <<>> => FlushedFull(one.buffer) = <<>>
  <2>1. k \in 0 .. Len(FlushedFull(n.buffer)) /\ n \in NodeType
    BY <1>5, <1>6
  <2>2. one = [n EXCEPT !.buffer = CutAt(k, @)]
    OBVIOUS
  <2> QED
    BY ONLY <2>1, <2>2, CutFacts
<1>9. u \in [Nodes -> NodeType]
  BY <1>7, <1>8
<1>10. ASSUME NEW q \in Leaves
      PROVE  /\ t[q].box = tree[q].box /\ t[q].has_full = tree[q].has_full
             /\ FlushedPartial(t[q].buffer) = <<>>
             /\ Entries(FlushedFull(t[q].buffer)) \subseteq Mine(q)
             /\ tree[q].has_full => FlushedFull(t[q].buffer) = <<>>
  <2> PICK h : h = t[q]
    OBVIOUS
  <2> PICK all : all = Mine(q)
    OBVIOUS
  <2>1. h \in NodeType /\ h.box = tree[q].box /\ h.has_full = tree[q].has_full
    BY <1>2 DEF SameNode
  <2>2. Complete(h, files, all, stale, torn)
    OBVIOUS
  <2>3. /\ \A m \in Modes \ {TmpFull} : h.buffer[m].records = <<>>
        /\ h.buffer[TmpFull].records # <<>> =>
              Entries(h.buffer[TmpFull].records) = all /\ ~h.has_full
    BY ONLY <2>2 DEF Complete, Whole
  <2>4. h.buffer[Full].records = <<>> /\ h.buffer[Partial].records = <<>> /\ h.buffer[TmpPartial].records = <<>>
    BY ONLY <2>3 DEF Modes, Full, Partial, TmpFull, TmpPartial
  <2>5. FlushedPartial(h.buffer) = <<>> /\ FlushedFull(h.buffer) = h.buffer[TmpFull].records
    BY ONLY <2>1, <2>4, NodeParts
  <2> QED
    BY <2>1, <2>3, <2>5, NoEntries
<1>11. ASSUME NEW q \in Leaves
      PROVE  /\ u[q].box = tree[q].box
             /\ FlushedPartial(u[q].buffer) = <<>>
             /\ Entries(FlushedFull(u[q].buffer)) \subseteq Mine(q)
             /\ tree[q].has_full => FlushedFull(u[q].buffer) = <<>>
  <2>1. CASE q = p
    <3>1. u[q] = one
      BY <1>6, <1>7, <2>1
    <3> QED
      BY <1>8, <1>10, <2>1, <3>1
  <2>2. CASE q # p
    <3>1. u[q] = t[q]
      BY <1>2, <1>6, <1>7, <2>2
    <3> QED
      BY <1>10, <3>1
  <2> QED
    BY <2>1, <2>2
<1>12. ASSUME NEW q \in Leaves, tree[q].box # NoBox, tree[q].has_full
       PROVE  FullOf(tree[q]) \in torn' <=> FullOf(tree[q]) \in torn
  <2>1. CASE ~cut
    BY <1>5, <2>1
  <2>2. CASE cut
    <3>1. FlushedFull(t[p].buffer) # <<>>
      BY <1>5, <2>2
    <3>2. q # p
      BY <1>10, <1>12, <3>1
    <3>3. tree[q].box # tree[p].box /\ t[p].box = tree[p].box
      <4>1. p \in Leaves /\ q \in Leaves
        BY <1>5
      <4>2. tree[q].box # tree[p].box
        BY <1>1, <1>12, <3>2, <4>1, NamesApart
      <4> QED
        BY <1>10, <4>1, <4>2
    <3>4. FullOf(tree[q]) # File(t[p].box, Full)
      BY <3>3 DEF FullOf, File
    <3> QED
      BY <1>5, <2>2, <3>4
  <2> QED
    BY <2>1, <2>2
<1>13. torn \subseteq torn' /\ files' = FilesFlushed(u, ps) /\ ps \subseteq Leaves
  BY <1>5
<1>14. DiskInv /\ ~exited /\ phase = "query"
  OBVIOUS
<1> PICK g, tn : g = files' /\ tn = torn'
  OBVIOUS
<1>15. /\ g \in [DOMAIN g -> Seq(Records)] /\ DOMAIN files \subseteq DOMAIN g
       /\ \A q \in Leaves : AfterCrash(tree[q], g, tn, Mine(q))
  BY <1>9, <1>11, <1>12, <1>13, <1>14, CrashFiles
<1> QED
  BY <1>15

\* Whenever the process is killed.
LEMMA KilledFiles ==
    ASSUME DiskInv, ~exited, phase = "query", UNCHANGED <<files, torn>> \/ KilledInFlush
    PROVE  /\ files' \in [DOMAIN files' -> Seq(Records)] /\ DOMAIN files \subseteq DOMAIN files'
           /\ \A p \in Leaves : AfterCrash(tree[p], files', torn', Mine(p))
<1>1. Types /\ Querying
  BY BuildingNow
<1>2. DiskInv /\ ~exited /\ phase = "query"
  OBVIOUS
<1>3. CASE UNCHANGED <<files, torn>>
  <2>1. ASSUME NEW p \in Leaves PROVE AfterCrash(tree[p], files', torn', Mine(p))
    <3>1. Complete(tree[p], files, Mine(p), stale, torn)
      BY <1>1 DEF Querying
    <3>2. files' = files /\ torn' = torn
      BY <1>3
    <3> QED
      BY ONLY <3>1, <3>2 DEF AfterCrash, Complete, Unchanged
  <2> QED
    BY <1>1, <1>3, <2>1 DEF Types
<1>4. CASE \E p \in Leaves : LeftBehind(TreeLoaded(p))
  <2>1. PICK p \in Leaves : LeftBehind(TreeLoaded(p))
    BY <1>4
  <2> PICK t : t = TreeLoaded(p)
    OBVIOUS
  <2>2. /\ t \in [Nodes -> NodeType]
        /\ \A q \in Nodes : SameNode(t[q], tree[q]) /\ t[q].has_full = tree[q].has_full
        /\ \A q \in Leaves : Complete(t[q], files, Mine(q), stale, torn)
    BY <1>2, TreeLoadedFacts
  <2>3. LeftBehind(t)
    BY <2>1
  <2> QED
    BY ONLY <1>2, <2>2, <2>3, LeftFiles
<1>5. CASE LeftBehind(tree)
  <2>1. tree \in [Nodes -> NodeType]
    BY <1>1 DEF Types
  <2>2. \A q \in Nodes : SameNode(tree[q], tree[q]) /\ tree[q].has_full = tree[q].has_full
    BY <2>1 DEF SameNode
  <2>3. \A q \in Leaves : Complete(tree[q], files, Mine(q), stale, torn)
    BY <1>1 DEF Querying
  <2> QED
    BY ONLY <1>2, <1>5, <2>1, <2>2, <2>3, LeftFiles
<1> QED
  BY <1>3, <1>4, <1>5 DEF KilledInFlush

-----------------------------------------------------------------------------
(* Writing the index and reading it back.                                  *)

LEMMA WrittenFacts ==
    ASSUME NEW n \in NodeType
    PROVE  /\ n.is_leaf =>
                  Written(n) = [is_leaf |-> TRUE, box |-> n.box, leaf_size |-> n.leaf_size,
                                has_full |-> n.has_full, has_partial |-> n.has_partial]
           /\ ~n.is_leaf => InnerWritten(Written(n), n)
  BY DEF Written, InnerWritten

LEMMA IndexWriteStep == ASSUME DiskInv, IndexWrite PROVE DiskInv'
<1>0. /\ ~exited /\ phase = "query" /\ AllFlushed
      /\ index_idx' = [p \in {q \in Nodes : fbl[q[1]].initialized} |-> Written(tree[p])]
      /\ UNCHANGED <<words, hard, fbl, tree, files, at, adding, phase, exited, stale, torn>>
  BY DEF IndexWrite, Idle, memory, calls
<1>1. Statics /\ Types /\ Shape /\ Querying
  BY <1>0, BuildingNow
<1>2. tree \in [Nodes -> NodeType]
  BY <1>1 DEF Types
<1>3. {q \in Nodes : fbl[q[1]].initialized} = Nodes
  BY <1>1, NodeFacts
<1>4. DOMAIN index_idx' = Nodes /\ \A p \in Nodes : index_idx'[p] = Written(tree[p])
  BY <1>0, <1>3
<1>5. Types'
  BY <1>0, <1>1 DEF Types, Nodes
<1>6. /\ Statics' /\ Nodes' = Nodes /\ Leaves' = Leaves
      /\ \A q \in Nodes : Mine(q)' = Mine(q)
  BY <1>0, <1>1, <1>5, TreeUnchanged
<1>7. ASSUME NEW p \in Leaves PROVE LeafWritten(index_idx'[p], tree[p], files, Mine(p))
  <2> PICK n : n = tree[p]
    OBVIOUS
  <2> PICK w : w = index_idx'[p]
    OBVIOUS
  <2> PICK all : all = Mine(p)
    OBVIOUS
  <2>1. p \in Nodes /\ n \in NodeType /\ n.is_leaf /\ Complete(n, files, all, stale, torn)
    BY <1>1, <1>2 DEF Querying, Leaves
  <2>2. w = [is_leaf |-> TRUE, box |-> n.box, leaf_size |-> n.leaf_size,
             has_full |-> n.has_full, has_partial |-> n.has_partial]
    BY <1>4, <2>1, WrittenFacts
  <2>3. n.buffer[TmpFull].records = <<>>
    BY <1>0, <2>1 DEF AllFlushed, Leaves, Modes
  <2>4. n.has_full \in BOOLEAN /\ n.has_partial \in BOOLEAN
    BY <2>1 DEF NodeType
  <2>5. LeafWritten(w, n, files, all)
    BY ONLY <2>1, <2>2, <2>3, <2>4 DEF LeafWritten, Complete
  <2> QED
    BY <2>5
<1>8. ASSUME NEW p \in Nodes \ Leaves PROVE InnerWritten(index_idx'[p], tree[p])
  <2>1. tree[p] \in NodeType /\ ~tree[p].is_leaf
    BY <1>2 DEF Leaves
  <2> QED
    BY <1>4, <2>1, WrittenFacts
<1>9. /\ \A p \in Leaves' : LeafWritten(index_idx'[p], tree'[p], files', Mine(p)')
      /\ \A p \in Nodes' \ Leaves' : InnerWritten(index_idx'[p], tree'[p])
  BY <1>0, <1>6, <1>7, <1>8, LeafIsNode
<1>10. \A p \in Leaves' : Complete(tree'[p], files', Mine(p)', stale', torn')
  BY <1>0, <1>1, <1>6, LeafIsNode DEF Querying
<1>11. /\ hard' = <<>> /\ adding' = <<>> /\ at' = NotFlushing
       /\ \A m \in Masks : fbl'[m].records = <<>>
  BY <1>0, <1>1 DEF Querying
<1>12. exited' \in BOOLEAN /\ ~exited' /\ phase' = "query"
  BY <1>0 DEF DiskInv
<1> QED
  BY ONLY <1>4, <1>6, <1>9, <1>10, <1>11, <1>12, QueryNext

LEMMA NewLeafType ==
    /\ NewLeaf \in NodeType /\ NewLeaf.is_leaf /\ NewLeaf.buffer = NewBuffer
  BY NewBufferType, BitsAssumption DEF NewLeaf, NodeType, BoxTypes

\* A leaf and an inner node that have been read back.
LEMMA LeafRead ==
    ASSUME NEW n \in NodeType, NEW w, NEW fs, NEW all, LeafWritten(w, n, fs, all)
    PROVE  LET one == ReadBack(w) IN
           /\ w.is_leaf
           /\ one \in NodeType /\ one.is_leaf /\ one.box = n.box
           /\ one.leaf_size = n.leaf_size /\ one.buffer = NewBuffer
           /\ one.has_full = w.has_full /\ one.has_partial = w.has_partial
<1> PICK one : one = ReadBack(w)
  OBVIOUS
<1> PICK new : new = NewLeaf
  OBVIOUS
<1>1. /\ w.is_leaf /\ w.box = n.box /\ w.leaf_size = n.leaf_size
      /\ w.has_full \in BOOLEAN /\ w.has_partial \in BOOLEAN
  <2>1. /\ w = [is_leaf |-> TRUE, box |-> n.box, leaf_size |-> n.leaf_size,
                has_full |-> w.has_full, has_partial |-> w.has_partial]
        /\ w.has_full \in BOOLEAN /\ w.has_partial \in BOOLEAN
    BY DEF LeafWritten
  <2> QED
    BY <2>1
<1>2. one = [new EXCEPT !.has_parent = FALSE, !.box = w.box,
               !.leaf_size = w.leaf_size, !.has_full = w.has_full, !.has_partial = w.has_partial]
  BY <1>1 DEF ReadBack
<1>3. new \in NodeType /\ new.is_leaf /\ new.buffer = NewBuffer
  BY NewLeafType
<1>4. n.box \in BoxTypes /\ n.leaf_size \in Nat
  BY DEF NodeType
<1>5. /\ one \in NodeType /\ one.is_leaf /\ one.box = w.box
      /\ one.leaf_size = w.leaf_size /\ one.buffer = new.buffer
      /\ one.has_full = w.has_full /\ one.has_partial = w.has_partial
  BY ONLY <1>1, <1>2, <1>3, <1>4 DEF NodeType
<1> QED
  BY <1>1, <1>3, <1>5

LEMMA InnerRead ==
    ASSUME NEW n \in NodeType, NEW w, InnerWritten(w, n)
    PROVE  LET one == ReadBack(w) IN
           /\ ~w.is_leaf
           /\ one \in NodeType /\ ~one.is_leaf /\ one.box = n.box
           /\ one.split_mask = n.split_mask /\ one.splitpoint = n.splitpoint
<1> PICK one : one = ReadBack(w)
  OBVIOUS
<1> PICK new : new = NewLeaf
  OBVIOUS
<1>1. /\ ~w.is_leaf /\ w.box = n.box /\ w.split_mask = n.split_mask /\ w.splitpoint = n.splitpoint
  BY DEF InnerWritten
<1>2. one = [new EXCEPT !.has_parent = FALSE, !.box = w.box, !.is_leaf = FALSE,
               !.splitpoint = w.splitpoint, !.split_mask = w.split_mask]
  BY <1>1 DEF ReadBack
<1>3. new \in NodeType
  BY NewLeafType
<1>4. n.box \in BoxTypes /\ n.splitpoint \in Segments \cup {0} /\ n.split_mask \in [Segments -> 0 .. Bits - 1]
  BY DEF NodeType
<1>5. /\ one \in NodeType /\ ~one.is_leaf /\ one.box = w.box
      /\ one.split_mask = w.split_mask /\ one.splitpoint = w.splitpoint
  BY ONLY <1>1, <1>2, <1>3, <1>4 DEF NodeType
<1> QED
  BY <1>1, <1>5

\* A leaf read back is complete: what the flags of its files say is true of the
\* files the process has left, unless a .full file has been left behind.
LEMMA ReadComplete ==
    ASSUME Types, NEW n \in NodeType, NEW w, NEW all, NEW st, NEW later, NEW g, NEW tn,
           Complete(n, files, all, st, torn), LeafWritten(w, n, files, all),
           AfterCrash(n, g, tn, all),
           ~later => ~st /\ (~w.has_full => FullOf(n) \notin DOMAIN g \cup tn)
    PROVE  Complete(ReadBack(w), g, all, later, tn)
<1> PICK one : one = ReadBack(w)
  OBVIOUS
<1> PICK p, f : p = PartOf(n) /\ f = FullOf(n)
  OBVIOUS
<1>1. /\ one.box = n.box /\ one.leaf_size = n.leaf_size /\ one.buffer = NewBuffer
      /\ one.has_full = w.has_full /\ one.has_partial = w.has_partial
  BY LeafRead
<1>2. PartOf(one) = p /\ FullOf(one) = f
  BY <1>1 DEF PartOf, FullOf
<1>3. NoGrowth(one) /\ \A m \in Modes : one.buffer[m].records = <<>>
  BY <1>1, NewBufferType DEF NoGrowth
<1>4. one.buffer[TmpFull].records = <<>>
  BY <1>3 DEF Modes
<1>5. /\ w.has_full \in BOOLEAN /\ w.has_partial \in BOOLEAN
      /\ w.has_full \/ w.has_partial => n.box # NoBox
      /\ w.has_partial => p \in DOMAIN files /\ ~w.has_full
      /\ w.has_full => f \in DOMAIN files /\ n.has_full
      /\ ~w.has_partial /\ ~w.has_full => n.leaf_size = 0 /\ all = {}
  BY DEF LeafWritten
<1>6. /\ n.leaf_size <= MaxLeafSize
      /\ n.box # NoBox /\ p \in DOMAIN files => Whole(files[p], n, all)
      /\ n.box # NoBox /\ f \in torn => st
      /\ n.box # NoBox /\ f \in DOMAIN files =>
            /\ n.has_full /\ f \notin torn => all \subseteq Entries(files[f])
            /\ ~st => Whole(files[f], n, all)
  BY DEF Complete
<1>7. n.box # NoBox =>
         /\ (p \in DOMAIN g <=> p \in DOMAIN files) /\ (p \in DOMAIN files => g[p] = files[p])
         /\ f \in DOMAIN g => Partly(g[f], all, f \in tn)
         /\ n.has_full => /\ (f \in DOMAIN g <=> f \in DOMAIN files)
                          /\ (f \in DOMAIN files => g[f] = files[f])
                          /\ (f \in tn <=> f \in torn)
  BY DEF AfterCrash, Unchanged
<1>8. ~later => ~st /\ (~w.has_full => f \notin DOMAIN g /\ f \notin tn)
  OBVIOUS
<1>9. n.box # NoBox /\ f \in tn => later
  BY ONLY <1>5, <1>6, <1>7, <1>8
<1>10. ASSUME n.box # NoBox, f \in DOMAIN g
       PROVE  /\ w.has_full /\ f \notin tn => all \subseteq Entries(g[f])
              /\ ~later => Whole(g[f], n, all) /\ w.has_full
  BY ONLY <1>5, <1>6, <1>7, <1>8, <1>10
<1>11. /\ w.has_partial => p \in DOMAIN g
       /\ w.has_full => f \in DOMAIN g
  BY ONLY <1>5, <1>7
<1>12. n.box # NoBox /\ p \in DOMAIN g => Whole(g[p], n, all)
  BY ONLY <1>6, <1>7
<1>13. Complete(one, g, all, later, tn)
  BY ONLY <1>1, <1>2, <1>3, <1>4, <1>5, <1>6, <1>7, <1>9, <1>10, <1>11, <1>12 DEF Complete, Whole
<1> QED
  BY <1>13

LEMMA RestartStep == ASSUME DiskInv, Restart PROVE DiskInv'
<1> PICK masks : masks = {p[1] : p \in DOMAIN index_idx}
  OBVIOUS
<1>0. /\ index_idx # NotWritten
      /\ stale' = (stale \/ \E p \in DOMAIN index_idx :
                   LET w == index_idx[p] IN
                   w.is_leaf /\ ~w.has_full /\ File(w.box, Full) \in DOMAIN files' \cup torn')
      /\ tree' = [p \in DOMAIN index_idx |-> ReadBack(index_idx[p])]
      /\ fbl' = [m \in Masks |-> [NewSoftBuffer EXCEPT !.initialized = m \in masks]]
      /\ hard' = <<>> /\ at' = NotFlushing /\ adding' = <<>>
      /\ UNCHANGED <<words, index_idx, phase, exited>>
  BY DEF Restart
<1>1. ~exited
  BY <1>0 DEF DiskInv, GivenUp
<1>2. Statics /\ Types /\ Shape /\ phase = "query" /\ Querying
  BY <1>0, <1>1, BuildingNow
<1>3. /\ DOMAIN index_idx = Nodes
      /\ \A p \in Leaves : LeafWritten(index_idx[p], tree[p], files, Mine(p))
      /\ \A p \in Nodes \ Leaves : InnerWritten(index_idx[p], tree[p])
  BY <1>0, <1>2 DEF Querying, WrittenInv
<1>4. tree \in [Nodes -> NodeType]
  BY <1>2 DEF Types
<1> PICK g, tn : g = files' /\ tn = torn'
  OBVIOUS
<1>5. /\ g \in [DOMAIN g -> Seq(Records)] /\ DOMAIN files \subseteq DOMAIN g
      /\ \A p \in Leaves : AfterCrash(tree[p], g, tn, Mine(p))
  <2>1. UNCHANGED <<files, torn>> \/ KilledInFlush
    BY DEF Restart
  <2> QED
    BY <1>1, <1>2, <2>1, KilledFiles
<1>6. Nodes' = Nodes /\ \A p \in Nodes : tree'[p] = ReadBack(index_idx[p])
  BY <1>0, <1>3 DEF Nodes
<1>7. ASSUME NEW p \in Leaves
      PROVE  /\ p \in Nodes /\ index_idx[p].is_leaf
             /\ tree'[p] \in NodeType /\ tree'[p].is_leaf /\ tree'[p].box = tree[p].box
             /\ tree'[p].leaf_size = tree[p].leaf_size
             /\ tree'[p].has_full = index_idx[p].has_full
  <2>1. p \in Nodes /\ tree[p] \in NodeType /\ LeafWritten(index_idx[p], tree[p], files, Mine(p))
    BY <1>3, <1>4, LeafIsNode
  <2> QED
    BY <1>6, <2>1, LeafRead
<1>8. ASSUME NEW p \in Nodes \ Leaves
      PROVE  /\ tree'[p] \in NodeType /\ ~tree'[p].is_leaf /\ tree'[p].box = tree[p].box
             /\ tree'[p].split_mask = tree[p].split_mask
             /\ tree'[p].splitpoint = tree[p].splitpoint
  <2>1. tree[p] \in NodeType /\ InnerWritten(index_idx[p], tree[p])
    BY <1>3, <1>4
  <2> QED
    BY <1>6, <2>1, InnerRead
<1>9. tree' \in [Nodes -> NodeType]
  <2>1. tree' = [p \in Nodes |-> tree'[p]]
    BY <1>0, <1>3
  <2>2. \A p \in Nodes : tree'[p] \in NodeType
    BY <1>7, <1>8
  <2> QED
    BY <2>1, <2>2
<1>10. /\ fbl' \in [Masks -> SoftType]
       /\ \A m \in Masks : fbl'[m].initialized <=> m \in masks
       /\ \A m \in Masks : fbl'[m].records = <<>>
  <2>1. ASSUME NEW m \in Masks
        PROVE  /\ [NewSoftBuffer EXCEPT !.initialized = m \in masks] \in SoftType
               /\ [NewSoftBuffer EXCEPT !.initialized = m \in masks].initialized <=> m \in masks
               /\ [NewSoftBuffer EXCEPT !.initialized = m \in masks].records = <<>>
    <3> PICK x : x = (m \in masks)
      OBVIOUS
    <3>1. x \in BOOLEAN /\ <<>> \in Seq(Records)
      OBVIOUS
    <3> QED
      BY <3>1 DEF NewSoftBuffer, SoftType
  <2> QED
    BY <1>0, <2>1
<1>11. Types'
  <2>1. at' \in [j : 0 .. Len(MasksInOrder) + 1, i : Nat]
    BY <1>0, MasksAssumption DEF NotFlushing
  <2>2. hard' \in Seq(Records) /\ adding' \in Seq(CallType)
    BY <1>0
  <2>3. files' \in [DOMAIN files' -> Seq(Records)]
    BY <1>5
  <2> QED
    BY <1>0, <1>2, <1>6, <1>9, <1>10, <2>1, <2>2, <2>3 DEF Types
<1>12. /\ Leaves' = Leaves
       /\ \A q \in Nodes : Mine(q)' = Mine(q)
       /\ Shape' /\ Routes' /\ SplitBits' /\ Boxed'
  <2>1. \A q \in Nodes : q[1] \in masks /\ q[1] \in Masks /\ fbl[q[1]].initialized
    BY <1>2, <1>3, NodeFacts
  <2>2. \A m \in masks : \E q \in Nodes : m = q[1]
    BY <1>3
  <2>3. /\ \A q \in Nodes : fbl'[q[1]].initialized
        /\ \A m \in Masks : fbl'[m].initialized => fbl[m].initialized
    BY <1>10, <2>1, <2>2
  <2>4. words' = words
    BY <1>0
  <2>5. \A q \in Nodes : tree[q].is_leaf \in BOOLEAN /\ tree'[q].is_leaf \in BOOLEAN
    BY <1>4, <1>9 DEF NodeType
  <2>6. /\ \A q \in Nodes : tree'[q].is_leaf = tree[q].is_leaf
        /\ \A q \in Nodes : tree'[q].box = tree[q].box
        /\ \A q \in Nodes \ Leaves : /\ tree'[q].split_mask = tree[q].split_mask
                                     /\ tree'[q].splitpoint = tree[q].splitpoint
    BY <1>7, <1>8, <2>5 DEF Leaves
  <2> QED
    BY ONLY <1>2, <1>6, <2>3, <2>4, <2>6, SameTree
<1>13. Statics'
  BY <1>11, <1>12 DEF Statics
<1>14. ASSUME NEW p \in Leaves PROVE Complete(tree'[p], g, Mine(p), stale', tn)
  <2>1. /\ p \in Nodes /\ tree[p] \in NodeType /\ Complete(tree[p], files, Mine(p), stale, torn)
        /\ LeafWritten(index_idx[p], tree[p], files, Mine(p))
    BY <1>2, <1>3, <1>4, LeafIsNode DEF Querying
  <2>2. index_idx[p].box = tree[p].box /\ index_idx[p].is_leaf
    <3>1. index_idx[p] = [is_leaf |-> TRUE, box |-> tree[p].box, leaf_size |-> tree[p].leaf_size,
                          has_full |-> index_idx[p].has_full, has_partial |-> index_idx[p].has_partial]
      BY <2>1 DEF LeafWritten
    <3> QED
      BY <3>1
  <2>3. ~stale' => ~stale /\ (~index_idx[p].has_full => FullOf(tree[p]) \notin DOMAIN g \cup tn)
    BY <1>0, <1>3, <2>1, <2>2 DEF FullOf
  <2>4. tree'[p] = ReadBack(index_idx[p])
    BY <1>6, <2>1
  <2> PICK later : later = stale'
    OBVIOUS
  <2>5. Complete(ReadBack(index_idx[p]), g, Mine(p), later, tn)
    <3>1. ~later => ~stale /\ (~index_idx[p].has_full => FullOf(tree[p]) \notin DOMAIN g \cup tn)
      BY <2>3
    <3>2. AfterCrash(tree[p], g, tn, Mine(p))
      BY <1>5
    <3> QED
      BY ONLY <1>2, <2>1, <3>1, <3>2, ReadComplete
  <2> QED
    BY <2>4, <2>5
<1>15. \A p \in Leaves' : Complete(tree'[p], files', Mine(p)', stale', torn')
  BY <1>0, <1>7, <1>12, <1>14
<1>16. \A p \in Leaves' : LeafWritten(index_idx'[p], tree'[p], files', Mine(p)')
  <2>1. ASSUME NEW p \in Leaves PROVE LeafWritten(index_idx[p], tree'[p], g, Mine(p))
    <3>1. /\ tree'[p].box = tree[p].box /\ tree'[p].leaf_size = tree[p].leaf_size
          /\ PartOf(tree'[p]) = PartOf(tree[p]) /\ FullOf(tree'[p]) = FullOf(tree[p])
          /\ tree'[p].has_full = index_idx[p].has_full
      BY <1>7 DEF PartOf, FullOf
    <3>2. LeafWritten(index_idx[p], tree[p], files, Mine(p)) /\ DOMAIN files \subseteq DOMAIN g
      BY <1>3, <1>5
    <3> QED
      BY ONLY <3>1, <3>2 DEF LeafWritten
  <2> QED
    BY <1>0, <1>7, <1>12, <2>1
<1>17. \A p \in Nodes' \ Leaves' : InnerWritten(index_idx'[p], tree'[p])
  <2>1. ASSUME NEW p \in Nodes \ Leaves PROVE InnerWritten(index_idx[p], tree'[p])
    BY <1>3, <1>8 DEF InnerWritten
  <2> QED
    BY <1>0, <1>6, <1>12, <2>1
<1>18. exited' \in BOOLEAN /\ ~exited' /\ phase' = "query" /\ DOMAIN index_idx' = Nodes'
  BY <1>0, <1>1, <1>2, <1>3, <1>6 DEF DiskInv
<1>19. /\ hard' = <<>> /\ adding' = <<>> /\ at' = NotFlushing
       /\ \A m \in Masks : fbl'[m].records = <<>>
  BY <1>0, <1>10
<1> QED
  BY ONLY <1>13, <1>15, <1>16, <1>17, <1>18, <1>19, QueryNext
-----------------------------------------------------------------------------
(* A step that changes nothing, every step, and the theorems.              *)

Still == UNCHANGED <<words, hard, fbl, tree, files, index_idx, at, adding, loading, phase,
                     exited, stale, torn>>

LEMMA LeafStays ==
    ASSUME Still, NEW p, LeafBuild(p), \A sax : OnRoute(p, sax)' <=> OnRoute(p, sax)
    PROVE  LeafBuild(p)'
<1>0. UNCHANGED <<words, hard, fbl, tree, files, at, adding>>
  BY DEF Still
<1>1. /\ Current' = Current
      /\ \A r : Given(r)' <=> Given(r)
      /\ \A r : Awaiting(r)' <=> Awaiting(r)
  BY <1>0 DEF Given, Awaiting, InBuffer, Current
<1>2. Hand' = Hand
  BY <1>0 DEF Hand, RecordsOf
<1>3. HeldBy(tree[p])' = HeldBy(tree[p])
  BY <1>0 DEF HeldBy, PartialFile, ReadFile
<1>4. \A r \in Entries(HeldBy(tree[p])) :
          /\ r \in DOMAIN words' /\ OnRoute(p, words[r])' /\ ~Awaiting(r)' /\ r \notin Entries(Hand')
  BY <1>0, <1>1, <1>2 DEF LeafBuild
<1>5. /\ PartOf(tree[p])' = PartOf(tree[p]) /\ NoGrowth(tree[p])' <=> NoGrowth(tree[p])
      /\ tree'[p] = tree[p]
  BY <1>0 DEF PartOf, NoGrowth
<1> QED
  BY <1>0, <1>1, <1>3, <1>4, <1>5 DEF LeafBuild

LEMMA BuildStays ==
    ASSUME DiskInv, ~exited, phase = "build", Still
    PROVE  DiskInv'
<1>0. UNCHANGED <<words, hard, fbl, tree, files, index_idx, at, adding, loading, phase, exited, stale, torn>>
  BY DEF Still
<1>1. Statics /\ Types /\ Building
  BY BuildingNow
<1>2. Types'
  BY <1>0, <1>1 DEF Types, Nodes
<1>3. /\ Statics' /\ Nodes' = Nodes /\ Leaves' = Leaves
      /\ \A q \in Nodes : \A sax : OnRoute(q, sax)' <=> OnRoute(q, sax)
  BY <1>0, <1>1, <1>2, TreeUnchanged
<1>4. /\ Current' = Current /\ InBuffer' = InBuffer
      /\ \A r : Given(r)' <=> Given(r)
      /\ \A r : Awaiting(r)' <=> Awaiting(r)
  BY <1>0 DEF Given, Awaiting, InBuffer, Current
<1>5. Hand' = Hand
  BY <1>0 DEF Hand, RecordsOf
<1>6. Soft'
  BY <1>0, <1>1 DEF Building, Soft
<1>7. Loop'
  BY <1>0, <1>1, <1>4 DEF Building, Loop
<1>8. Calls'
  <2>1. ASSUME NEW c \in Entries(adding) PROVE GoodCall(c)'
    <3>1. GoodCall(c)
      BY <1>1 DEF Building, Calls
    <3> QED
      BY <1>0, <1>3, <1>4, <3>1 DEF GoodCall
  <2> QED
    BY <1>0, <1>1, <1>5, <2>1 DEF Building, Calls
<1>9. \A p \in Leaves : LeafBuild(p)'
  BY <1>1, <1>3, LeafIsNode, LeafStays DEF Building
<1>10. Owned'
  BY <1>0, <1>1, <1>3 DEF Building, Owned, PartOf
<1>11. Kept'
  <2>1. \A p \in Leaves : HeldBy(tree[p])' = HeldBy(tree[p])
    BY <1>0 DEF HeldBy, PartialFile, ReadFile
  <2> QED
    BY <1>0, <1>1, <1>3, <1>4, <1>5, <2>1 DEF Building, Kept
<1> QED
  BY <1>0, <1>1, <1>3, <1>6, <1>7, <1>8, <1>9, <1>10, <1>11 DEF DiskInv, Main, Building

LEMMA GivenUpStays == ASSUME DiskInv, exited, Still PROVE DiskInv'
<1>0. UNCHANGED <<words, hard, fbl, tree, files, index_idx, at, adding, loading, phase, exited, stale, torn>>
  BY DEF Still
<1>1. TypeOK /\ HardBufferHeld /\ phase = "build" /\ index_idx = NotWritten /\ loading = <<>>
  BY DEF DiskInv, GivenUp
<1>2. Nodes' = Nodes /\ Leaves' = Leaves
  BY <1>0 DEF Nodes, Leaves
<1>3. \A p : Stored(tree[p])' = Stored(tree[p])
  BY <1>0 DEF Stored, Buffered, Filed, PartialFile, ReadFile
<1>4. HardBufferHeld'
  BY <1>0, <1>1, <1>2 DEF HardBufferHeld
<1>5. TypeOK'
  BY <1>0, <1>1, <1>2, <1>3 DEF TypeOK
<1> QED
  BY <1>0, <1>1, <1>4, <1>5 DEF DiskInv, GivenUp

LEMMA StillStep == ASSUME DiskInv, UNCHANGED vars PROVE DiskInv'
<1>0. Still /\ Around /\ UNCHANGED <<tree, files>>
  BY DEF vars, Still, Around
<1>1. CASE exited
  BY <1>0, <1>1, GivenUpStays
<1>2. CASE ~exited
  <2>1. phase \in {"build", "query"}
    BY <1>2, BuildingNow
  <2> QED
    BY <1>0, <1>2, <2>1, BuildStays, QueryStays
<1> QED
  BY <1>1, <1>2

LEMMA DiskStep == ASSUME DiskInv, [Next]_vars PROVE DiskInv'
<1>1. CASE \E sax \in InputWords : InsertToFbl(sax)
  BY <1>1, InsertToFblStep
<1>2. CASE FlushFbl
  BY <1>2, FlushFblStep
<1>3. CASE AddFromBuffer
  BY <1>3, AddFromBufferStep
<1>4. CASE Store
  BY <1>4, StoreStep
<1>5. CASE \E s \in Segments : Split(s)
  BY <1>5, SplitStep
<1>6. CASE Exit
  BY <1>6, ExitStep
<1>7. CASE FlushBuffer
  BY <1>7, FlushBufferStep
<1>8. CASE Reset
  BY <1>8, ResetStep
<1>9. CASE BuildEnds
  BY <1>9, BuildEndsStep
<1>10. CASE \E p \in Leaves : CalculateNodeDistance(p) \/ LoadNodeTopk(p)
  BY <1>10, CalculateNodeDistanceStep
<1>11. CASE LoadRandomLeaf \/ CompleteIndexLeafs
  BY <1>11, ListedStep
<1>12. CASE Load
  BY <1>12, LoadStep
<1>13. CASE FlushAll
  BY <1>13, FlushAllStep
<1>14. CASE IndexWrite
  BY <1>14, IndexWriteStep
<1>15. CASE Restart
  BY <1>15, RestartStep
<1>16. CASE UNCHANGED vars
  BY <1>16, StillStep
<1>17. CASE Stop
  BY <1>16, <1>17 DEF Stop
<1> QED
  BY <1>1, <1>2, <1>3, <1>4, <1>5, <1>6, <1>7, <1>8, <1>9, <1>10, <1>11, <1>12, <1>13,
     <1>14, <1>15, <1>16, <1>17 DEF Next

LEMMA DiskAlways == Spec => []DiskInv
<1>1. Init => DiskInv
  BY DiskInitial
<1>2. DiskInv /\ [Next]_vars => DiskInv'
  BY DiskStep
<1> QED
  BY <1>1, <1>2, PTL DEF Spec

\* However many records there are and whatever is in them: no leaf has more
\* than max_leaf_size, it counts those in memory and those in its files, no
\* buffer of a leaf ever grows, and a flag is set only for a file there is.
THEOREM DiskTypeCorrect == Spec => []TypeOK
<1>1. DiskInv => TypeOK
  BY InvTypeOK
<1> QED
  BY <1>1, DiskAlways, PTL

\* Through every round of insertion, every split of a leaf on disk, every choice
\* of the leaves that are loaded and every kill after index_write, those in the
\* middle of a flush included: no record is missing but of a leaf whose .full
\* file such a kill has cut inside a record and that has been flushed to it
\* again; and no leaf holds one twice unless a kill has left a .full file the
\* written index knows nothing of. (A kill inside index_write is not modelled.)
THEOREM NoRecordLost == Spec => []NothingLost
<1>1. DiskInv => NothingLost
  BY InvNothingLost
<1> QED
  BY <1>1, DiskAlways, PTL

\* When flush_fbl gives the hard buffer free, no leaf points into it.
THEOREM HardBufferNeverReused == Spec => []HardBufferHeld
<1>1. DiskInv => HardBufferHeld
  BY InvHardBufferHeld
<1> QED
  BY <1>1, DiskAlways, PTL

\* calculate_node_distance compares the query with every record the encodings
\* put into the leaf and with no other, in memory, on disk and after a restart
\* (but for a damaged .full file), and the lower bound of a leaf is never over
\* some of them only.
THEOREM QueryMissesNone == Spec => []QuerySeesLeaf
<1>1. DiskInv => QuerySeesLeaf
  BY InvQuerySeesLeaf
<1> QED
  BY <1>1, DiskAlways, PTL
=============================================================================
