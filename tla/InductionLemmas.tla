-------------------------- MODULE InductionLemmas --------------------------
(***************************************************************************)
(* Induction over intervals of numbers, for sets and for functions defined *)
(* by recursion. The induction theorems of the library take the induction  *)
(* hypothesis as an operator; here it is a set, and what is used of the    *)
(* library is that every set of natural numbers has a least element. Below *)
(* them, what products and quotients the proofs need.                      *)
(***************************************************************************)
EXTENDS Integers, Sequences, FiniteSetTheorems, WellFoundedInduction, TLAPS

\* Among numbers there is a least, and a greatest when they are bounded.
LEMMA LeastElement ==
    ASSUME NEW T, T \subseteq Nat, T # {}
    PROVE  \E x \in T : \A y \in T : x <= y
<1> DEFINE R == {ss \in Nat \X Nat : ss[1] < ss[2]}
<1>1. IsWellFoundedOn(R, Nat)
  BY NatLessThanWellFounded DEF OpToRel
<1>2. PICK x \in T : \A y \in T : ~(<<y, x>> \in R)
  <2> HIDE DEF R
  <2> QED
    BY <1>1, WFMin
<1>3. \A y \in T : ~(y < x)
  BY <1>2
<1> QED
  BY <1>3

LEMMA GreatestElement ==
    ASSUME NEW m \in Nat, NEW T, T \subseteq 0 .. m, T # {}
    PROVE  \E x \in T : \A y \in T : y <= x
<1> DEFINE U == {m - x : x \in T}
<1>1. U \subseteq Nat /\ U # {}
  <2>1. \A x \in T : x \in 0 .. m
    OBVIOUS
  <2>2. \A x \in T : m - x \in Nat
    BY <2>1
  <2> QED
    BY <2>2
<1>2. PICK u \in U : \A v \in U : u <= v
  <2> HIDE DEF U
  <2> QED
    BY <1>1, LeastElement
<1>3. PICK x \in T : u = m - x
  BY <1>2
<1>4. \A y \in T : u <= m - y
  BY <1>2
<1>5. \A y \in T : y <= x
  BY <1>3, <1>4
<1> QED
  BY <1>5

\* A set that has 0, and n whenever it has n - 1, has all numbers up to m.
LEMMA Induction ==
    ASSUME NEW m \in Nat, NEW T, 0 \in T,
           \A n \in 1 .. m : n - 1 \in T => n \in T
    PROVE  0 .. m \subseteq T
<1> DEFINE Bad == {n \in 0 .. m : n \notin T}
<1> SUFFICES ASSUME Bad # {} PROVE FALSE
  OBVIOUS
<1>1. PICK x \in Bad : \A y \in Bad : x <= y
  <2>1. Bad \subseteq Nat
    OBVIOUS
  <2> HIDE DEF Bad
  <2> QED
    BY <2>1, LeastElement
<1>2. x \in 1 .. m /\ x - 1 \in 0 .. m /\ x - 1 \notin Bad
  BY <1>1
<1> QED
  BY <1>1, <1>2

\* A function of 0 .. m that is given by its value at 0 and a step exists, and is
\* of the expected type.
Iterates(f, m, c, step) == f[0] = c /\ \A n \in 1 .. m : f[n] = step[n][f[n - 1]]

LEMMA Recursion ==
    ASSUME NEW m \in Nat, NEW S, NEW c \in S, NEW step \in [1 .. m -> [S -> S]]
    PROVE  \E f \in [0 .. m -> S] : Iterates(f, m, c, step)
<1> DEFINE Good(g, k) == /\ g \in [0 .. k -> S]
                         /\ g[0] = c
                         /\ \A n \in 1 .. k : g[n] = step[n][g[n - 1]]
           T == {k \in Nat : \E g \in [0 .. k -> S] : Good(g, k)}
<1>1. 0 \in T
  <2> DEFINE g == [n \in 0 .. 0 |-> c]
  <2>1. g \in [0 .. 0 -> S] /\ g[0] = c
    OBVIOUS
  <2>2. Good(g, 0)
    BY <2>1
  <2> QED
    BY <2>1, <2>2
<1>2. ASSUME NEW k \in 1 .. m, k - 1 \in T PROVE k \in T
  <2>1. PICK g : Good(g, k - 1)
    BY <1>2
  <2> DEFINE h == [n \in 0 .. k |-> IF n = k THEN step[k][g[k - 1]] ELSE g[n]]
  <2>2. /\ g \in [0 .. k - 1 -> S] /\ g[0] = c /\ k - 1 \in 0 .. k - 1
        /\ \A n \in 1 .. k - 1 : g[n] = step[n][g[n - 1]]
    BY <2>1
  <2>3. step[k][g[k - 1]] \in S
    <3>1. g[k - 1] \in S
      BY <2>2
    <3> QED
      BY <3>1
  <2>4. h \in [0 .. k -> S] /\ h[0] = c
    BY <2>2, <2>3
  <2>5. ASSUME NEW n \in 1 .. k PROVE h[n] = step[n][h[n - 1]]
    BY <2>2
  <2>6. Good(h, k)
    BY <2>4, <2>5
  <2>7. \E gg \in [0 .. k -> S] : Good(gg, k)
    <3> HIDE DEF h, Good
    <3> QED
      BY <2>4, <2>6
  <2>8. k \in Nat
    OBVIOUS
  <2> HIDE DEF Good
  <2> QED
    BY <2>7, <2>8
<1>3. m \in T
  <2> HIDE DEF T
  <2>1. \A k \in 1 .. m : k - 1 \in T => k \in T
    BY <1>2
  <2>2. 0 .. m \subseteq T
    BY <1>1, <2>1, Induction
  <2> QED
    BY <2>2
<1> QED
  BY <1>3 DEF Iterates

\* A finite set of numbers has a greatest element.
LEMMA FiniteGreatest ==
    ASSUME NEW T, T \subseteq Nat, T # {}, IsFiniteSet(T)
    PROVE  \E x \in T : \A y \in T : y <= x
<1> DEFINE c == Cardinality(T)
<1>1. c \in Nat /\ c # 0 /\ ExistsBijection(1 .. c, T)
  BY FS_CardinalityType, FS_EmptySet
<1>2. PICK f \in Surjection(1 .. c, T) : TRUE
  BY <1>1 DEF ExistsBijection, Bijection
<1> HIDE DEF c
<1>3. f \in [1 .. c -> Nat] /\ \A y \in T : \E k \in 1 .. c : f[k] = y
  BY <1>2 DEF Surjection
<1> DEFINE V == {k \in Nat : k = 0 \/ \E j \in 1 .. k : \A h \in 1 .. k : f[h] <= f[j]}
<1>4. ASSUME NEW k \in 1 .. c, k - 1 \in V PROVE k \in V
  <2>1. CASE k = 1
    <3>1. 1 \in 1 .. k /\ \A h \in 1 .. k : f[h] <= f[1]
      BY <1>3, <2>1
    <3> QED
      BY <3>1
  <2>2. CASE k # 1
    <3>1. PICK j \in 1 .. k - 1 : \A h \in 1 .. k - 1 : f[h] <= f[j]
      BY <1>4, <2>2
    <3>2. f[j] \in Nat /\ f[k] \in Nat /\ j \in 1 .. k /\ k \in 1 .. k
      BY <1>1, <1>3, <3>1
    <3>3. \A h \in 1 .. k : h \in 1 .. k - 1 \/ h = k
      OBVIOUS
    <3>4. CASE f[k] <= f[j]
      <4>1. \A h \in 1 .. k : f[h] <= f[j]
        BY <3>1, <3>3, <3>4
      <4> QED
        BY <3>2, <4>1
    <3>5. CASE f[j] < f[k]
      <4>1. \A h \in 1 .. k : f[h] \in Nat
        BY <1>1, <1>3
      <4>2. \A h \in 1 .. k : f[h] <= f[k]
        BY <3>1, <3>2, <3>3, <3>5, <4>1
      <4> QED
        BY <3>2, <4>2
    <3>6. f[k] <= f[j] \/ f[j] < f[k]
      BY <3>2
    <3> QED
      BY <3>4, <3>5, <3>6
  <2> QED
    BY <2>1, <2>2
<1>5. 0 \in V
  OBVIOUS
<1> HIDE DEF V
<1>6. \A k \in 1 .. c : k - 1 \in V => k \in V
  BY <1>4
<1>7. 0 .. c \subseteq V
  BY <1>1, <1>5, <1>6, Induction
<1>8. PICK j \in 1 .. c : \A h \in 1 .. c : f[h] <= f[j]
  <2>1. c \in V
    BY <1>1, <1>7
  <2> QED
    BY <1>1, <2>1 DEF V
<1>9. f[j] \in T
  BY <1>2 DEF Surjection
<1> QED
  BY <1>3, <1>8, <1>9

\* The union of finitely many finite sets is finite.
LEMMA FiniteUnion ==
    ASSUME NEW m \in Nat, NEW f, \A n \in 1 .. m : IsFiniteSet(f[n])
    PROVE  IsFiniteSet(UNION {f[n] : n \in 1 .. m})
<1> DEFINE U(k) == UNION {f[n] : n \in 1 .. k}
           T == {k \in Nat : IsFiniteSet(U(k))}
<1>1. 0 \in T
  <2>1. U(0) = {}
    OBVIOUS
  <2> QED
    BY <2>1, FS_EmptySet
<1>2. ASSUME NEW k \in 1 .. m, k - 1 \in T PROVE k \in T
  <2>1. U(k) = U(k - 1) \cup f[k]
    <3>1. 1 .. k = (1 .. k - 1) \cup {k}
      OBVIOUS
    <3> QED
      BY <3>1
  <2>2. IsFiniteSet(U(k - 1)) /\ IsFiniteSet(f[k])
    BY <1>2
  <2> HIDE DEF U
  <2>3. IsFiniteSet(U(k - 1) \cup f[k])
    BY <2>2, FS_Union
  <2>4. IsFiniteSet(U(k))
    BY <2>1, <2>3
  <2> QED
    BY <2>4
<1> HIDE DEF T
<1>3. \A k \in 1 .. m : k - 1 \in T => k \in T
  BY <1>2
<1>4. 0 .. m \subseteq T
  BY <1>1, <1>3, Induction
<1> QED
  BY <1>4 DEF T

\* The numbers from 1 to n are finitely many, n of them.
LEMMA OneTo ==
    ASSUME NEW n \in Nat
    PROVE  IsFiniteSet(1 .. n) /\ Cardinality(1 .. n) = n
  BY FS_Interval

\* What a sequence holds is a finite set, of at most its length.
LEMMA FiniteRange ==
    ASSUME NEW S, NEW s \in Seq(S)
    PROVE  LET R == {s[x] : x \in DOMAIN s}
           IN  IsFiniteSet(R) /\ Cardinality(R) <= Len(s)
<1> DEFINE R == {s[x] : x \in DOMAIN s}
<1>1. Len(s) \in Nat /\ DOMAIN s = 1 .. Len(s)
  OBVIOUS
<1>2. IsFiniteSet(1 .. Len(s)) /\ Cardinality(1 .. Len(s)) = Len(s)
  BY <1>1, OneTo
<1>3. s \in Surjection(1 .. Len(s), R)
  BY <1>1 DEF Surjection
<1> HIDE DEF R
<1>4. IsFiniteSet(R) /\ Cardinality(R) <= Cardinality(1 .. Len(s))
  BY <1>2, <1>3, FS_Surjection
<1> QED
  BY <1>2, <1>4 DEF R

-----------------------------------------------------------------------------
(* What sequences hold.                                                    *)

\* The elements of a sequence, and that none is there twice.
Entries(s) == {s[n] : n \in DOMAIN s}
Distinct(s) == \A m, n \in DOMAIN s : s[m] = s[n] => m = n

\* What Append does to them.
LEMMA AppendEntries ==
    ASSUME NEW S, NEW b \in Seq(S), NEW r \in S
    PROVE  /\ Append(b, r) \in Seq(S)
           /\ Len(Append(b, r)) = Len(b) + 1
           /\ Entries(Append(b, r)) = Entries(b) \cup {r}
           /\ r \notin Entries(b) /\ Distinct(b) => Distinct(Append(b, r))
<1> DEFINE c == Append(b, r)
<1>1. /\ c \in Seq(S) /\ Len(c) = Len(b) + 1 /\ DOMAIN c = 1 .. Len(b) + 1
      /\ DOMAIN b = 1 .. Len(b) /\ Len(b) \in Nat
      /\ c[Len(b) + 1] = r
      /\ \A n \in 1 .. Len(b) : c[n] = b[n]
  OBVIOUS
<1> HIDE DEF c
<1>2. ASSUME NEW n \in 1 .. Len(b) + 1 PROVE c[n] \in Entries(b) \cup {r}
  BY <1>1, <1>2 DEF Entries
<1>3. ASSUME NEW x \in Entries(b) \cup {r} PROVE \E n \in 1 .. Len(b) + 1 : c[n] = x
  <2>1. CASE x = r
    BY <1>1, <2>1
  <2>2. CASE x \in Entries(b)
    <3>1. PICK n \in 1 .. Len(b) : b[n] = x
      BY <1>1, <2>2 DEF Entries
    <3> QED
      BY <1>1, <3>1
  <2> QED
    BY <2>1, <2>2
<1>4. Entries(c) = Entries(b) \cup {r}
  BY <1>1, <1>2, <1>3 DEF Entries
<1>5. ASSUME r \notin Entries(b), Distinct(b) PROVE Distinct(c)
  <2>1. \A n \in 1 .. Len(b) : b[n] # r
    BY <1>1, <1>5 DEF Entries
  <2>2. \A m, n \in 1 .. Len(b) + 1 : c[m] = c[n] => m = n
    BY <1>1, <1>5, <2>1 DEF Distinct
  <2> QED
    BY <1>1, <2>2 DEF Distinct
<1> QED
  BY <1>1, <1>4, <1>5 DEF c

\* A sequence without repetitions holds as many elements as it is long.
LEMMA DistinctCount ==
    ASSUME NEW S, NEW b \in Seq(S), Distinct(b)
    PROVE  IsFiniteSet(Entries(b)) /\ Cardinality(Entries(b)) = Len(b)
<1>1. Len(b) \in Nat /\ DOMAIN b = 1 .. Len(b)
  OBVIOUS
<1> DEFINE n == Len(b)
<1>2. IsFiniteSet(1 .. n) /\ Cardinality(1 .. n) = n
  BY <1>1, OneTo
<1>3. b \in Bijection(1 .. n, Entries(b))
  BY <1>1 DEF Bijection, Injection, Surjection, IsInjective, Entries, Distinct
<1>4. ExistsBijection(1 .. n, Entries(b))
  BY <1>3 DEF ExistsBijection
<1> HIDE DEF n
<1> QED
  BY <1>2, <1>4, FS_Bijection DEF n
-----------------------------------------------------------------------------
(* Products and quotients.                                                 *)

\* A quotient times the divisor reaches the dividend but for less than one more.
LEMMA Quotients ==
    ASSUME NEW n \in Nat, NEW q \in Nat \ {0}
    PROVE  n \div q \in Nat /\ (n \div q) * q <= n /\ n < (n \div q) * q + q
  BY SMT

\* A product grows with its factor.
LEMMA Grows ==
    ASSUME NEW a \in Nat, NEW b \in Nat, NEW q \in Nat, a <= b
    PROVE  a * q \in Nat /\ b * q \in Nat /\ a * q <= b * q
  BY SMT

\* One more multiple.
LEMMA NextMultiple == ASSUME NEW a \in Nat, NEW q \in Nat PROVE (a + 1) * q = a * q + q
  BY SMT
=============================================================================
