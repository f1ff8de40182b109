------------------------ MODULE QueryPipelineProofs ------------------------
(***************************************************************************)
(* Theorems about main (QueryPipeline) and about the kernels it measures   *)
(* points with, for every command line, every pair of files, every shape   *)
(* of the trees and every number of threads.                               *)
(*                                                                         *)
(* The AVX-512 kernels add in another order than one component after the   *)
(* other; that they come to the same rests on what sums and greatest       *)
(* values have in common: any order, any grouping, and 0 adds nothing.     *)
(*                                                                         *)
(* main is sequential, and what is hard about it is what its later stages  *)
(* take for granted: that a vector lies in its file, that the queries are  *)
(* as many as were read, that nodes[q] holds the candidates ranked, that   *)
(* the ground truth has a row for each query. PipelineInv says at which    *)
(* stage each of these has come to hold.                                   *)
(***************************************************************************)
EXTENDS QueryPipeline, InductionLemmas

-----------------------------------------------------------------------------
(* The kernels. Sums and greatest values have what is needed of Plus.      *)

Monoid(Plus, S) ==
    /\ S \subseteq Int /\ 0 \in S
    /\ \A a, b \in S : Plus[<<a, b>>] \in S /\ Plus[<<a, b>>] = Plus[<<b, a>>]
    /\ \A a, b, c \in S : Plus[<<Plus[<<a, b>>], c>>] = Plus[<<a, Plus[<<b, c>>]>>]
    /\ \A a \in S : Plus[<<a, 0>>] = a

\* The sum of four can be regrouped.
LEMMA Exchange ==
    ASSUME NEW S, NEW Plus, Monoid(Plus, S), NEW a \in S, NEW b \in S, NEW c \in S, NEW e \in S
    PROVE  Plus[<<Plus[<<a, b>>], Plus[<<c, e>>]>>] = Plus[<<Plus[<<a, c>>], Plus[<<b, e>>]>>]
<1>0. /\ \A u, v \in S : Plus[<<u, v>>] \in S /\ Plus[<<u, v>>] = Plus[<<v, u>>]
      /\ \A u, v, w \in S : Plus[<<Plus[<<u, v>>], w>>] = Plus[<<u, Plus[<<v, w>>]>>]
  BY DEF Monoid
<1>1. Plus[<<Plus[<<a, b>>], Plus[<<c, e>>]>>] = Plus[<<a, Plus[<<b, Plus[<<c, e>>]>>]>>]
  <2> PICK p \in S : p = Plus[<<c, e>>]
    BY <1>0
  <2>1. Plus[<<Plus[<<a, b>>], p>>] = Plus[<<a, Plus[<<b, p>>]>>]
    BY <1>0
  <2> QED
    BY <2>1
<1>2. Plus[<<b, Plus[<<c, e>>]>>] = Plus[<<c, Plus[<<b, e>>]>>]
  <2>1. Plus[<<b, Plus[<<c, e>>]>>] = Plus[<<Plus[<<b, c>>], e>>]
    BY <1>0
  <2>2. Plus[<<Plus[<<c, b>>], e>>] = Plus[<<c, Plus[<<b, e>>]>>]
    BY <1>0
  <2>3. Plus[<<b, c>>] = Plus[<<c, b>>]
    BY <1>0
  <2> QED
    BY <2>1, <2>2, <2>3
<1>3. Plus[<<Plus[<<a, c>>], Plus[<<b, e>>]>>] = Plus[<<a, Plus[<<c, Plus[<<b, e>>]>>]>>]
  <2> PICK p \in S : p = Plus[<<b, e>>]
    BY <1>0
  <2>1. Plus[<<Plus[<<a, c>>], p>>] = Plus[<<a, Plus[<<c, p>>]>>]
    BY <1>0
  <2> QED
    BY <2>1
<1> QED
  BY <1>1, <1>2, <1>3

\* Halved and Block have lanes of S.
LEMMA HalvedType ==
    ASSUME NEW S, NEW Plus, Monoid(Plus, S), NEW n \in {4, 8}, NEW v \in [0 .. 2 * n - 1 -> S]
    PROVE  Halved(Plus, v, n) \in [0 .. n - 1 -> S]
<1>1. \A l \in 0 .. n - 1 : l + n \in 0 .. 2 * n - 1 /\ l \in 0 .. 2 * n - 1
  OBVIOUS
<1>2. \A l \in 0 .. n - 1 : Plus[<<v[l + n], v[l]>>] \in S
  BY <1>1 DEF Monoid
<1> QED
  BY <1>2 DEF Halved

\* What a component adds, and how the components of a block follow each other.
Terms(Term, x, y, o, n, S) == \A e \in 0 .. n - 1 : Term[<<x[o + e], y[o + e]>>] \in S

LEMMA BlockType ==
    ASSUME NEW S, NEW Plus, Monoid(Plus, S), NEW n \in Nat, NEW v \in [0 .. n - 1 -> S],
           NEW Term, NEW x, NEW y, NEW o \in Nat, Terms(Term, x, y, o, n, S)
    PROVE  Block(Plus, Term, v, x, y, o, n) \in [0 .. n - 1 -> S]
<1>2. \A l \in 0 .. n - 1 : Plus[<<v[l], Term[<<x[o + l], y[o + l]>>]>>] \in S
  BY DEF Monoid, Terms
<1> QED
  BY <1>2 DEF Block

\* A block in a register of 2 * n lanes is two blocks in its two halves together.
LEMMA HalvedBlock ==
    ASSUME NEW S, NEW Plus, Monoid(Plus, S), NEW n \in {4, 8}, NEW v \in [0 .. 2 * n - 1 -> S],
           NEW Term, NEW x, NEW y, NEW o \in Nat, Terms(Term, x, y, o, 2 * n, S)
    PROVE  Halved(Plus, Block(Plus, Term, v, x, y, o, 2 * n), n)
               = Block(Plus, Term, Block(Plus, Term, Halved(Plus, v, n), x, y, o, n), x, y, o + n, n)
<1> DEFINE w == Block(Plus, Term, v, x, y, o, 2 * n)
           h == Halved(Plus, v, n)
           b == Block(Plus, Term, h, x, y, o, n)
<1>1. ASSUME NEW l \in 0 .. n - 1
      PROVE  Plus[<<w[l + n], w[l]>>] = Plus[<<b[l], Term[<<x[(o + n) + l], y[(o + n) + l]>>]>>]
  <2>0. l \in 0 .. 2 * n - 1 /\ l + n \in 0 .. 2 * n - 1 /\ o + (l + n) = (o + n) + l
    OBVIOUS
  <2> PICK t : t = Term[<<x[o + l], y[o + l]>>]
    OBVIOUS
  <2> PICK u : u = Term[<<x[(o + n) + l], y[(o + n) + l]>>]
    OBVIOUS
  <2>1. v[l] \in S /\ v[l + n] \in S /\ t \in S /\ u \in S
    <3>1. v[l] \in S /\ v[l + n] \in S /\ t \in S
      BY <2>0 DEF Terms
    <3>2. Term[<<x[o + (l + n)], y[o + (l + n)]>>] \in S
      BY <2>0 DEF Terms
    <3> QED
      BY <2>0, <3>1, <3>2
  <2>2. w[l] = Plus[<<v[l], t>>]
    BY <2>0 DEF Block
  <2>3. w[l + n] = Plus[<<v[l + n], u>>]
    BY <2>0 DEF Block
  <2>4. b[l] = Plus[<<Plus[<<v[l + n], v[l]>>], t>>]
    BY DEF Block, Halved
  <2> HIDE DEF w, h, b
  <2>5. Plus[<<w[l + n], w[l]>>] = Plus[<<Plus[<<v[l + n], v[l]>>], Plus[<<u, t>>]>>]
    BY <2>1, <2>2, <2>3, Exchange
  <2> PICK p : p = Plus[<<v[l + n], v[l]>>]
    OBVIOUS
  <2>6. p \in S
    BY <2>1 DEF Monoid
  <2>7. Plus[<<p, Plus[<<u, t>>]>>] = Plus[<<Plus[<<p, t>>], u>>]
    <3>1. Plus[<<u, t>>] = Plus[<<t, u>>]
      BY <2>1 DEF Monoid
    <3>2. Plus[<<p, Plus[<<t, u>>]>>] = Plus[<<Plus[<<p, t>>], u>>]
      BY <2>1, <2>6, SMTT(30) DEF Monoid
    <3> QED
      BY <3>1, <3>2
  <2> QED
    BY <2>4, <2>5, <2>7
<1> HIDE DEF w, b
<1>2. Halved(Plus, w, n) = Block(Plus, Term, b, x, y, o + n, n)
  BY <1>1 DEF Halved, Block
<1> QED
  BY <1>2 DEF w, b, h

-----------------------------------------------------------------------------

\* The lanes of a register of four together.
Total(Plus, v) == Plus[<<Plus[<<v[0], v[1]>>], Plus[<<v[2], v[3]>>]>>]

\* m and four more.
WithFour(Plus, m, t) == Plus[<<Plus[<<Plus[<<Plus[<<m, t[0]>>], t[1]>>], t[2]>>], t[3]>>]

AddsTo(Plus, w, v, t) == \A l \in 0 .. 3 : w[l] = Plus[<<v[l], t[l]>>]

\* A block of four adds its four terms to the total of the lanes.
LEMMA TotalBlock ==
    ASSUME NEW S, NEW Plus, Monoid(Plus, S), NEW v \in [0 .. 3 -> S],
           NEW t \in [0 .. 3 -> S], NEW w, AddsTo(Plus, w, v, t)
    PROVE  Total(Plus, w) = WithFour(Plus, Total(Plus, v), t)
<1>0. /\ \A a, b \in S : Plus[<<a, b>>] \in S
      /\ \A a, b, c \in S : Plus[<<Plus[<<a, b>>], c>>] = Plus[<<a, Plus[<<b, c>>]>>]
  BY DEF Monoid
<1>1. /\ v[0] \in S /\ v[1] \in S /\ v[2] \in S /\ v[3] \in S
      /\ t[0] \in S /\ t[1] \in S /\ t[2] \in S /\ t[3] \in S
  OBVIOUS
<1>2. /\ w[0] = Plus[<<v[0], t[0]>>] /\ w[1] = Plus[<<v[1], t[1]>>]
      /\ w[2] = Plus[<<v[2], t[2]>>] /\ w[3] = Plus[<<v[3], t[3]>>]
  BY DEF AddsTo
<1> PICK a : a = Plus[<<v[0], v[1]>>]
  OBVIOUS
<1> PICK b : b = Plus[<<v[2], v[3]>>]
  OBVIOUS
<1> PICK p : p = Plus[<<t[0], t[1]>>]
  OBVIOUS
<1> PICK q : q = Plus[<<t[2], t[3]>>]
  OBVIOUS
<1>3. a \in S /\ b \in S /\ p \in S /\ q \in S
  BY <1>0, <1>1
<1>4. Plus[<<w[0], w[1]>>] = Plus[<<a, p>>] /\ Plus[<<w[2], w[3]>>] = Plus[<<b, q>>]
  BY <1>1, <1>2, Exchange
<1>5. Total(Plus, w) = Plus[<<Plus[<<a, b>>], Plus[<<p, q>>]>>]
  BY <1>3, <1>4, Exchange DEF Total
<1> PICK m : m = Total(Plus, v)
  OBVIOUS
<1>6. m = Plus[<<a, b>>] /\ m \in S
  BY <1>0, <1>3 DEF Total
<1>7. Plus[<<m, Plus[<<p, q>>]>>] = Plus[<<Plus[<<m, p>>], q>>]
  BY <1>0, <1>3, <1>6
<1>8. Plus[<<m, p>>] = Plus[<<Plus[<<m, t[0]>>], t[1]>>]
  BY <1>0, <1>1, <1>6
<1> PICK n : n = Plus[<<m, p>>]
  OBVIOUS
<1>9. n \in S
  BY <1>0, <1>3, <1>6
<1>10. Plus[<<n, q>>] = Plus[<<Plus[<<n, t[2]>>], t[3]>>]
  BY <1>0, <1>1, <1>9
<1> QED
  BY <1>5, <1>6, <1>7, <1>8, <1>10 DEF WithFour

-----------------------------------------------------------------------------
(* The running totals of one component after the other.                    *)

\* r is that total after each component.
Runs(Plus, Term, x, y, d, S, r) ==
    /\ d \in Nat /\ Monoid(Plus, S) /\ Terms(Term, x, y, 0, d, S)
    /\ r \in [0 .. d -> S] /\ r[0] = 0
    /\ \A n \in 1 .. d : r[n] = Plus[<<r[n - 1], Term[<<x[n - 1], y[n - 1]>>]>>]

\* A running total takes in one component at a time.
LEMMA NextTotal ==
    ASSUME NEW Plus, NEW Term, NEW x, NEW y, NEW d, NEW S, NEW r, Runs(Plus, Term, x, y, d, S, r),
           NEW n \in 0 .. d - 1
    PROVE  /\ r[n + 1] = Plus[<<r[n], Term[<<x[n], y[n]>>]>>]
           /\ r[n] \in S /\ Term[<<x[n], y[n]>>] \in S
<1>1. d \in Nat /\ n + 1 \in 1 .. d /\ n \in 0 .. d /\ (n + 1) - 1 = n /\ 0 + n = n
  BY DEF Runs
<1>2. r[n + 1] = Plus[<<r[n], Term[<<x[n], y[n]>>]>>]
  BY <1>1 DEF Runs
<1>3. Term[<<x[n], y[n]>>] \in S
  <2>1. Term[<<x[0 + n], y[0 + n]>>] \in S
    BY DEF Runs, Terms
  <2> QED
    BY <1>1, <2>1
<1> QED
  BY <1>1, <1>2, <1>3 DEF Runs

\* The terms from an offset on are among all the terms.
LEMMA TermsFrom ==
    ASSUME NEW Plus, NEW Term, NEW x, NEW y, NEW d, NEW S, NEW r, Runs(Plus, Term, x, y, d, S, r),
           NEW o \in Nat, NEW n \in Nat, o + n <= d
    PROVE  Terms(Term, x, y, o, n, S)
<1> SUFFICES ASSUME NEW l \in 0 .. n - 1 PROVE Term[<<x[o + l], y[o + l]>>] \in S
  BY DEF Terms
<1>1. o + l \in 0 .. d - 1
  BY DEF Runs
<1> QED
  BY <1>1, NextTotal

\* A block adds its components, at each of the three widths.
LEMMA FourMore ==
    ASSUME NEW Plus, NEW Term, NEW x, NEW y, NEW d, NEW S, NEW r, Runs(Plus, Term, x, y, d, S, r),
           NEW o \in Nat, o + 4 <= d, NEW v \in [0 .. 3 -> S], Total(Plus, v) = r[o]
    PROVE  LET w == Block(Plus, Term, v, x, y, o, 4)
           IN  w \in [0 .. 3 -> S] /\ Total(Plus, w) = r[o + 4]
<1> DEFINE w == Block(Plus, Term, v, x, y, o, 4)
           t == [l \in 0 .. 3 |-> Term[<<x[o + l], y[o + l]>>]]
<1>0. Monoid(Plus, S) /\ d \in Nat
  BY DEF Runs
<1>1. Terms(Term, x, y, o, 4, S)
  BY TermsFrom
<1>2. w \in [0 .. 3 -> S]
  <2>1. v \in [0 .. 4 - 1 -> S]
    OBVIOUS
  <2>2. w \in [0 .. 4 - 1 -> S]
    BY <1>0, <1>1, <2>1, BlockType
  <2> QED
    BY <2>2
<1>3. t \in [0 .. 3 -> S]
  BY <1>1 DEF Terms
<1>4. AddsTo(Plus, w, v, t)
  BY DEF Block, AddsTo
<1>5. /\ t[0] = Term[<<x[o], y[o]>>] /\ t[1] = Term[<<x[o + 1], y[o + 1]>>]
      /\ t[2] = Term[<<x[o + 2], y[o + 2]>>] /\ t[3] = Term[<<x[o + 3], y[o + 3]>>]
  <2>1. o + 0 = o
    OBVIOUS
  <2> QED
    BY <2>1
<1> HIDE DEF t, w
<1>6. Total(Plus, w) = Plus[<<Plus[<<Plus[<<Plus[<<r[o], t[0]>>], t[1]>>], t[2]>>], t[3]>>]
  <2>1. Total(Plus, w) = WithFour(Plus, Total(Plus, v), t)
    BY <1>0, <1>3, <1>4, TotalBlock
  <2> QED
    BY <2>1 DEF WithFour
<1>7. /\ o \in 0 .. d - 1 /\ o + 1 \in 0 .. d - 1 /\ o + 2 \in 0 .. d - 1 /\ o + 3 \in 0 .. d - 1
      /\ (o + 1) + 1 = o + 2 /\ (o + 2) + 1 = o + 3 /\ (o + 3) + 1 = o + 4
  BY <1>0
<1>8. r[o + 1] = Plus[<<r[o], t[0]>>]
  BY <1>5, <1>7, NextTotal
<1>9. r[o + 2] = Plus[<<r[o + 1], t[1]>>]
  BY <1>5, <1>7, NextTotal
<1>10. r[o + 3] = Plus[<<r[o + 2], t[2]>>]
  BY <1>5, <1>7, NextTotal
<1>11. r[o + 4] = Plus[<<r[o + 3], t[3]>>]
  BY <1>5, <1>7, NextTotal
<1> QED
  BY <1>2, <1>6, <1>8, <1>9, <1>10, <1>11 DEF w

Total8(Plus, v) == Total(Plus, Halved(Plus, v, 4))
Total16(Plus, v) == Total8(Plus, Halved(Plus, v, 8))

LEMMA EightMore ==
    ASSUME NEW Plus, NEW Term, NEW x, NEW y, NEW d, NEW S, NEW r, Runs(Plus, Term, x, y, d, S, r),
           NEW o \in Nat, o + 8 <= d, NEW v \in [0 .. 7 -> S], Total8(Plus, v) = r[o]
    PROVE  LET w == Block(Plus, Term, v, x, y, o, 8)
           IN  w \in [0 .. 7 -> S] /\ Total8(Plus, w) = r[o + 8]
<1> DEFINE w == Block(Plus, Term, v, x, y, o, 8)
           h == Halved(Plus, v, 4)
           h1 == Block(Plus, Term, h, x, y, o, 4)
           h2 == Block(Plus, Term, h1, x, y, o + 4, 4)
<1>0. Monoid(Plus, S) /\ d \in Nat /\ o + 4 \in Nat /\ (o + 4) + 4 = o + 8 /\ o + 4 <= d
  BY DEF Runs
<1>1. v \in [0 .. 2 * 4 - 1 -> S] /\ v \in [0 .. 8 - 1 -> S] /\ 2 * 4 = 8 /\ 4 \in {4, 8}
  OBVIOUS
<1>2. Terms(Term, x, y, o, 8, S)
  BY TermsFrom
<1>3. h \in [0 .. 3 -> S]
  <2>1. h \in [0 .. 4 - 1 -> S]
    BY <1>0, <1>1, HalvedType
  <2> QED
    BY <2>1
<1>4. w \in [0 .. 7 -> S]
  <2>1. w \in [0 .. 8 - 1 -> S]
    BY <1>0, <1>1, <1>2, BlockType
  <2> QED
    BY <2>1
<1>5. Halved(Plus, w, 4) = h2
  <2>1. Terms(Term, x, y, o, 2 * 4, S)
    BY <1>1, <1>2
  <2>2. Halved(Plus, Block(Plus, Term, v, x, y, o, 2 * 4), 4) = h2
    BY <1>0, <1>1, <2>1, HalvedBlock
  <2> QED
    BY <1>1, <2>2
<1>6. Total(Plus, h) = r[o]
  BY DEF Total8
<1> HIDE DEF h
<1>7. h1 \in [0 .. 3 -> S] /\ Total(Plus, h1) = r[o + 4]
  BY <1>0, <1>3, <1>6, FourMore
<1> HIDE DEF h1
<1>8. h2 \in [0 .. 3 -> S] /\ Total(Plus, h2) = r[(o + 4) + 4]
  BY <1>0, <1>7, FourMore
<1> HIDE DEF h2, w
<1>9. Total8(Plus, w) = r[o + 8]
  BY <1>0, <1>5, <1>8 DEF Total8
<1> QED
  BY <1>4, <1>9 DEF w

LEMMA SixteenMore ==
    ASSUME NEW Plus, NEW Term, NEW x, NEW y, NEW d, NEW S, NEW r, Runs(Plus, Term, x, y, d, S, r),
           NEW o \in Nat, o + 16 <= d, NEW v \in [0 .. 15 -> S], Total16(Plus, v) = r[o]
    PROVE  LET w == Block(Plus, Term, v, x, y, o, 16)
           IN  w \in [0 .. 15 -> S] /\ Total16(Plus, w) = r[o + 16]
<1> DEFINE w == Block(Plus, Term, v, x, y, o, 16)
           h == Halved(Plus, v, 8)
           h1 == Block(Plus, Term, h, x, y, o, 8)
           h2 == Block(Plus, Term, h1, x, y, o + 8, 8)
<1>0. Monoid(Plus, S) /\ d \in Nat /\ o + 8 \in Nat /\ (o + 8) + 8 = o + 16 /\ o + 8 <= d
  BY SMTT(30) DEF Runs
<1>1. v \in [0 .. 2 * 8 - 1 -> S] /\ v \in [0 .. 16 - 1 -> S] /\ 2 * 8 = 16 /\ 8 \in {4, 8}
  OBVIOUS
<1>2. Terms(Term, x, y, o, 16, S)
  BY TermsFrom
<1>3. h \in [0 .. 7 -> S]
  <2>1. h \in [0 .. 8 - 1 -> S]
    BY <1>0, <1>1, HalvedType
  <2> QED
    BY <2>1
<1>4. w \in [0 .. 15 -> S]
  <2>1. w \in [0 .. 16 - 1 -> S]
    BY <1>0, <1>1, <1>2, BlockType
  <2> QED
    BY <2>1
<1>5. Halved(Plus, w, 8) = h2
  <2>1. Terms(Term, x, y, o, 2 * 8, S)
    BY <1>1, <1>2
  <2>2. Halved(Plus, Block(Plus, Term, v, x, y, o, 2 * 8), 8) = h2
    BY <1>0, <1>1, <2>1, HalvedBlock
  <2> QED
    BY <1>1, <2>2
<1>6. Total8(Plus, h) = r[o]
  BY DEF Total16
<1> HIDE DEF h
<1>7. h1 \in [0 .. 7 -> S] /\ Total8(Plus, h1) = r[o + 8]
  BY <1>0, <1>3, <1>6, EightMore
<1> HIDE DEF h1
<1>8. h2 \in [0 .. 7 -> S] /\ Total8(Plus, h2) = r[(o + 8) + 8]
  BY <1>0, <1>7, EightMore
<1> HIDE DEF h2, w
<1>9. Total16(Plus, w) = r[o + 16]
  BY <1>0, <1>5, <1>8 DEF Total16
<1> QED
  BY <1>4, <1>9 DEF w

-----------------------------------------------------------------------------
(* The two functions that are defined by recursion: they exist, so what    *)
(* their definitions choose satisfies its equation.                        *)

\* InTurn ends at the last of some running totals.
LEMMA InTurnRuns ==
    ASSUME NEW Plus, NEW Term, NEW x, NEW y, NEW d \in Nat, NEW S, Monoid(Plus, S),
           Terms(Term, x, y, 0, d, S)
    PROVE  \E r : Runs(Plus, Term, x, y, d, S, r) /\ InTurn(Plus, Term, x, y, d) = r[d]
<1> DEFINE t == [n \in 1 .. d |-> Term[<<x[n - 1], y[n - 1]>>]]
           step == [n \in 1 .. d |-> [a \in S |-> Plus[<<a, t[n]>>]]]
           Turns(f) == f = [n \in 0 .. d |-> IF n = 0 THEN 0
                                ELSE Plus[<<f[n - 1], Term[<<x[n - 1], y[n - 1]>>]>>]]
<1>0. 0 \in S /\ \A a, b \in S : Plus[<<a, b>>] \in S
  BY DEF Monoid
<1>1. \A n \in 1 .. d : t[n] = Term[<<x[n - 1], y[n - 1]>>] /\ t[n] \in S
  <2> SUFFICES ASSUME NEW n \in 1 .. d PROVE Term[<<x[n - 1], y[n - 1]>>] \in S
    OBVIOUS
  <2>1. n - 1 \in 0 .. d - 1 /\ 0 + (n - 1) = n - 1
    OBVIOUS
  <2> PICK l \in 0 .. d - 1 : l = n - 1
    BY <2>1
  <2>2. Term[<<x[0 + l], y[0 + l]>>] \in S /\ 0 + l = l
    BY DEF Terms
  <2> QED
    BY <2>2
<1> HIDE DEF t
<1>2. step \in [1 .. d -> [S -> S]]
  BY <1>0, <1>1
<1>3. \A n \in 1 .. d, a \in S : step[n][a] = Plus[<<a, t[n]>>]
  OBVIOUS
<1> HIDE DEF step
<1>4. PICK f \in [0 .. d -> S] : Iterates(f, d, 0, step)
  BY <1>0, <1>2, Recursion
<1>5. Turns(f)
  <2>1. f[0] = 0 /\ \A n \in 1 .. d : f[n] = step[n][f[n - 1]]
    BY <1>4 DEF Iterates
  <2>2. \A n \in 1 .. d : f[n - 1] \in S
    <3>1. \A n \in 1 .. d : n - 1 \in 0 .. d
      OBVIOUS
    <3> QED
      BY <1>4, <3>1
  <2>3. \A n \in 1 .. d : f[n] = Plus[<<f[n - 1], Term[<<x[n - 1], y[n - 1]>>]>>]
    BY <1>1, <1>3, <2>1, <2>2
  <2>4. \A n \in 0 .. d : n = 0 \/ n \in 1 .. d
    OBVIOUS
  <2>5. \A n \in 0 .. d : f[n] = IF n = 0 THEN 0
                                ELSE Plus[<<f[n - 1], Term[<<x[n - 1], y[n - 1]>>]>>]
    BY <2>1, <2>3, <2>4
  <2>6. f = [n \in 0 .. d |-> f[n]]
    BY <1>4
  <2> QED
    BY <2>5, <2>6
<1>6. PICK g : Turns(g) /\ InTurn(Plus, Term, x, y, d) = g[d]
  <2> DEFINE chosen == CHOOSE g : Turns(g)
  <2>1. InTurn(Plus, Term, x, y, d) = chosen[d]
    BY DEF InTurn
  <2>2. \E g : Turns(g)
    BY <1>5
  <2> HIDE DEF Turns
  <2>3. Turns(chosen)
    BY <2>2
  <2> HIDE DEF chosen
  <2> QED
    BY <2>1, <2>3
<1>7. g[0] = 0 /\ \A n \in 1 .. d : g[n] = Plus[<<g[n - 1], Term[<<x[n - 1], y[n - 1]>>]>>]
  <2>1. \A n \in 0 .. d : g[n] = IF n = 0 THEN 0
                                ELSE Plus[<<g[n - 1], Term[<<x[n - 1], y[n - 1]>>]>>]
    BY <1>6
  <2>2. 0 \in 0 .. d /\ \A n \in 1 .. d : n \in 0 .. d /\ n # 0
    OBVIOUS
  <2> HIDE DEF Turns
  <2> QED
    BY <2>1, <2>2
<1>8. \A n \in 0 .. d : g[n] \in S
  <2> DEFINE T == {n \in Nat : g[n] \in S}
  <2>1. 0 \in T
    BY <1>0, <1>7
  <2>2. \A n \in 1 .. d : n - 1 \in T => n \in T
    <3> SUFFICES ASSUME NEW n \in 1 .. d, g[n - 1] \in S PROVE g[n] \in S
      OBVIOUS
    <3>1. g[n] = Plus[<<g[n - 1], t[n]>>]
      BY <1>1, <1>7
    <3> QED
      BY <1>0, <1>1, <3>1
  <2>3. 0 .. d \subseteq T
    <3> HIDE DEF T
    <3> QED
      BY <2>1, <2>2, Induction
  <2> QED
    BY <2>3
<1>9. g = [n \in 0 .. d |-> IF n = 0 THEN 0
                                ELSE Plus[<<g[n - 1], Term[<<x[n - 1], y[n - 1]>>]>>]]
  BY <1>6
<1>10. g \in [0 .. d -> S]
  <2>1. DOMAIN g = 0 .. d /\ g = [n \in 0 .. d |-> g[n]]
    BY <1>9
  <2> QED
    BY <1>8, <2>1
<1>11. Runs(Plus, Term, x, y, d, S, g)
  BY <1>7, <1>10 DEF Runs
<1> QED
  BY <1>6, <1>11

\* The loop over the blocks of 16 has the total of their components.
LEMMA WideRight ==
    ASSUME NEW Plus, NEW Term, NEW x, NEW y, NEW d, NEW S, NEW r, Runs(Plus, Term, x, y, d, S, r)
    PROVE  /\ Wide(Plus, Term, x, y, d) \in [0 .. 15 -> S]
           /\ Total16(Plus, Wide(Plus, Term, x, y, d)) = r[16 * (d \div 16)]
<1> DEFINE m == d \div 16
           zero == [l \in 0 .. 15 |-> 0]
           R == [0 .. 15 -> S]
           step == [b \in 1 .. m |-> [v \in R |-> Block(Plus, Term, v, x, y, 16 * (b - 1), 16)]]
           Turns(f) == f = [b \in 0 .. m |-> IF b = 0 THEN zero
                                ELSE Block(Plus, Term, f[b - 1], x, y, 16 * (b - 1), 16)]
<1>0. /\ d \in Nat /\ m \in Nat /\ 16 * m <= d /\ Monoid(Plus, S) /\ 0 \in S /\ zero \in R
      /\ \A a, b \in S : Plus[<<a, b>>] \in S
  <2>1. d \in Nat /\ Monoid(Plus, S)
    BY DEF Runs
  <2>2. m \in Nat /\ 16 * m <= d
    BY ONLY <2>1
  <2>3. 0 \in S /\ \A a, b \in S : Plus[<<a, b>>] \in S
    BY <2>1 DEF Monoid
  <2>4. zero \in R
    BY <2>3
  <2> QED
    BY <2>1, <2>2, <2>3, <2>4
<1>1. ASSUME NEW b \in 1 .. m, NEW v \in R PROVE Block(Plus, Term, v, x, y, 16 * (b - 1), 16) \in R
  <2> PICK o : o = 16 * (b - 1)
    OBVIOUS
  <2>1. o \in Nat /\ o + 16 <= d
    BY <1>0
  <2>2. v \in [0 .. 16 - 1 -> S] /\ Terms(Term, x, y, o, 16, S)
    BY <2>1, TermsFrom
  <2>3. Block(Plus, Term, v, x, y, o, 16) \in [0 .. 16 - 1 -> S]
    BY <1>0, <2>1, <2>2, BlockType
  <2> QED
    BY <2>3
<1>2. step \in [1 .. m -> [R -> R]]
  BY <1>1
<1>3. \A b \in 1 .. m, v \in R : step[b][v] = Block(Plus, Term, v, x, y, 16 * (b - 1), 16)
  OBVIOUS
<1> HIDE DEF step, m, zero, R
<1>4. PICK f \in [0 .. m -> R] : Iterates(f, m, zero, step)
  BY <1>0, <1>2, Recursion
<1>5. Turns(f)
  <2>1. f[0] = zero /\ \A b \in 1 .. m : f[b] = step[b][f[b - 1]]
    BY <1>4 DEF Iterates
  <2>2. \A b \in 1 .. m : f[b - 1] \in R
    <3>1. \A b \in 1 .. m : b - 1 \in 0 .. m
      BY <1>0
    <3> QED
      BY <1>4, <3>1
  <2>3. \A b \in 1 .. m : f[b] = Block(Plus, Term, f[b - 1], x, y, 16 * (b - 1), 16)
    BY <1>3, <2>1, <2>2
  <2>4. \A b \in 0 .. m : b = 0 \/ b \in 1 .. m
    BY <1>0
  <2>5. \A b \in 0 .. m : f[b] = IF b = 0 THEN zero
                                ELSE Block(Plus, Term, f[b - 1], x, y, 16 * (b - 1), 16)
    BY <2>1, <2>3, <2>4
  <2>6. f = [b \in 0 .. m |-> f[b]]
    BY <1>4
  <2> QED
    BY <2>5, <2>6
<1>6. PICK g : Turns(g) /\ Wide(Plus, Term, x, y, d) = g[m]
  <2> DEFINE chosen == CHOOSE g : Turns(g)
  <2>1. Wide(Plus, Term, x, y, d) = chosen[m]
    BY DEF Wide, m, zero
  <2>2. \E g : Turns(g)
    BY <1>5
  <2> HIDE DEF Turns
  <2>3. Turns(chosen)
    BY <2>2
  <2> HIDE DEF chosen
  <2> QED
    BY <2>1, <2>3
<1>7. g[0] = zero /\ \A b \in 1 .. m : g[b] = Block(Plus, Term, g[b - 1], x, y, 16 * (b - 1), 16)
  <2>1. \A b \in 0 .. m : g[b] = IF b = 0 THEN zero
                                ELSE Block(Plus, Term, g[b - 1], x, y, 16 * (b - 1), 16)
    BY <1>6
  <2>2. 0 \in 0 .. m /\ \A b \in 1 .. m : b \in 0 .. m /\ b # 0
    BY <1>0
  <2> HIDE DEF Turns
  <2> QED
    BY <2>1, <2>2
<1> HIDE DEF Turns
<1> DEFINE T == {b \in Nat : g[b] \in R /\ Total16(Plus, g[b]) = r[16 * b]}
<1>8. 0 \in T
  <2>1. Plus[<<0, 0>>] = 0
    BY DEF Runs, Monoid
  <2> DEFINE z8 == [l \in 0 .. 7 |-> 0]
             z4 == [l \in 0 .. 3 |-> 0]
  <2>2. Halved(Plus, zero, 8) = z8
    <3>1. \A l \in 0 .. 7 : l \in 0 .. 15 /\ l + 8 \in 0 .. 15
      OBVIOUS
    <3> QED
      BY <2>1, <3>1 DEF Halved, zero
  <2>3. Halved(Plus, z8, 4) = z4
    <3>1. \A l \in 0 .. 3 : l \in 0 .. 7 /\ l + 4 \in 0 .. 7
      OBVIOUS
    <3> QED
      BY <2>1, <3>1 DEF Halved
  <2>4. Total(Plus, z4) = 0
    BY <2>1 DEF Total
  <2>5. r[0] = 0 /\ 16 * 0 = 0
    BY DEF Runs
  <2>6. Total16(Plus, zero) = 0
    BY <2>2, <2>3, <2>4 DEF Total16, Total8
  <2> QED
    BY <1>0, <1>7, <2>5, <2>6
<1>9. ASSUME NEW b \in 1 .. m, b - 1 \in T PROVE b \in T
  <2> PICK v : v = g[b - 1]
    OBVIOUS
  <2> PICK o : o = 16 * (b - 1)
    OBVIOUS
  <2>1. o \in Nat /\ o + 16 <= d /\ o + 16 = 16 * b /\ b \in Nat
    BY <1>0
  <2>2. v \in [0 .. 15 -> S] /\ Total16(Plus, v) = r[o]
    BY <1>9 DEF R
  <2> DEFINE w == Block(Plus, Term, v, x, y, o, 16)
  <2>3. w \in [0 .. 15 -> S] /\ Total16(Plus, w) = r[o + 16]
    BY <2>1, <2>2, SixteenMore, SMTT(30)
  <2>4. g[b] = w
    BY <1>7
  <2> HIDE DEF w
  <2> QED
    BY <2>1, <2>3, <2>4 DEF R
<1>10. m \in T
  <2>1. \A b \in 1 .. m : b - 1 \in T => b \in T
    BY <1>9
  <2> HIDE DEF T
  <2>2. 0 .. m \subseteq T
    BY <1>0, <1>8, <2>1, Induction
  <2> QED
    BY <1>0, <2>2
<1> QED
  BY <1>6, <1>10 DEF R, m

\* Every kernel of the shape is the total of its terms, one after the other.
LEMMA KernelRight ==
    ASSUME NEW Plus, NEW Term, NEW x, NEW y, NEW d \in Nat, NEW S, Monoid(Plus, S),
           Terms(Term, x, y, 0, d, S), Term[<<0, 0>>] = 0
    PROVE  Kernel(Plus, Term, x, y, d) = InTurn(Plus, Term, x, y, d)
<1> PICK r : Runs(Plus, Term, x, y, d, S, r) /\ InTurn(Plus, Term, x, y, d) = r[d]
  BY InTurnRuns
<1> DEFINE wide == Wide(Plus, Term, x, y, d)
           d16 == d % 16
           o16 == d - d16
           half == Halved(Plus, wide, 8)
           msum1 == IF d16 >= 8 THEN Block(Plus, Term, half, x, y, o16, 8) ELSE half
           d8 == d16 % 8
           o8 == d - d8
           quarter == Halved(Plus, msum1, 4)
           msum2 == IF d8 >= 4 THEN Block(Plus, Term, quarter, x, y, o8, 4) ELSE quarter
           d4 == d8 % 4
           o4 == d - d4
           last == Block(Plus, Term, msum2, MaskedRead(x, o4, d4), MaskedRead(y, o4, d4), 0, 4)
           rest == IF d4 > 0 THEN last ELSE msum2
<1>1. Kernel(Plus, Term, x, y, d) = Total(Plus, rest)
  BY DEF Kernel, Total
<1>2. /\ d16 \in 0 .. 15 /\ o16 = 16 * (d \div 16) /\ o16 \in Nat
      /\ d8 \in 0 .. 7 /\ o8 \in Nat /\ (d16 >= 8 => o8 = o16 + 8 /\ o8 <= d) /\ (~(d16 >= 8) => o8 = o16)
      /\ d4 \in 0 .. 3 /\ o4 \in Nat /\ (d8 >= 4 => o4 = o8 + 4 /\ o4 <= d) /\ (~(d8 >= 4) => o4 = o8)
      /\ o4 + d4 = d /\ o4 <= d
  <2>0. d \in Nat
    OBVIOUS
  <2> HIDE DEF wide, half, msum1, quarter, msum2, last, rest
  <2>1. d16 \in 0 .. 15 /\ o16 = 16 * (d \div 16) /\ o16 \in Nat /\ o16 + d16 = d
    BY ONLY <2>0
  <2> HIDE DEF d16, o16
  <2>2. /\ d8 \in 0 .. 7 /\ (d16 >= 8 => d16 = d8 + 8) /\ (~(d16 >= 8) => d16 = d8)
    BY ONLY <2>1
  <2>3. o8 = d - d8
    OBVIOUS
  <2> HIDE DEF d8, o8
  <2>4. /\ d4 \in 0 .. 3 /\ (d8 >= 4 => d8 = d4 + 4) /\ (~(d8 >= 4) => d8 = d4)
    BY ONLY <2>2
  <2>5. o4 = d - d4
    OBVIOUS
  <2> HIDE DEF d4, o4
  <2>6. o8 \in Nat /\ (d16 >= 8 => o8 = o16 + 8 /\ o8 <= d) /\ (~(d16 >= 8) => o8 = o16)
    BY ONLY <2>0, <2>1, <2>2, <2>3
  <2>7. o4 \in Nat /\ (d8 >= 4 => o4 = o8 + 4 /\ o4 <= d) /\ (~(d8 >= 4) => o4 = o8)
        /\ o4 + d4 = d /\ o4 <= d
    BY ONLY <2>0, <2>2, <2>3, <2>4, <2>5, <2>6
  <2> QED
    BY ONLY <2>1, <2>2, <2>4, <2>6, <2>7
<1>3. wide \in [0 .. 15 -> S] /\ Total16(Plus, wide) = r[o16] /\ Monoid(Plus, S)
  BY <1>2, WideRight
<1> HIDE DEF wide, d16, o16, d8, o8, d4, o4
<1>4. half \in [0 .. 7 -> S] /\ Total8(Plus, half) = r[o16]
  <2>1. wide \in [0 .. 2 * 8 - 1 -> S] /\ 8 \in {4, 8}
    BY <1>3
  <2>2. half \in [0 .. 8 - 1 -> S]
    BY <1>3, <2>1, HalvedType
  <2> QED
    BY <1>3, <2>2 DEF Total16
<1> HIDE DEF half
<1>5. msum1 \in [0 .. 7 -> S] /\ Total8(Plus, msum1) = r[o8]
  <2>1. CASE d16 >= 8
    <3>1. o16 + 8 <= d
      BY <1>2, <2>1
    <3> QED
      BY <1>2, <1>4, <2>1, <3>1, EightMore
  <2>2. CASE ~(d16 >= 8)
    BY <1>2, <1>4, <2>2
  <2> QED
    BY <2>1, <2>2
<1> HIDE DEF msum1
<1>6. quarter \in [0 .. 3 -> S] /\ Total(Plus, quarter) = r[o8]
  <2>1. msum1 \in [0 .. 2 * 4 - 1 -> S] /\ 4 \in {4, 8}
    BY <1>5
  <2>2. quarter \in [0 .. 4 - 1 -> S]
    BY <1>3, <2>1, HalvedType
  <2> QED
    BY <1>5, <2>2 DEF Total8
<1> HIDE DEF quarter
<1>7. msum2 \in [0 .. 3 -> S] /\ Total(Plus, msum2) = r[o4]
  <2>1. CASE d8 >= 4
    <3>1. o8 + 4 <= d
      BY <1>2, <2>1
    <3> QED
      BY <1>2, <1>6, <2>1, <3>1, FourMore
  <2>2. CASE ~(d8 >= 4)
    BY <1>2, <1>6, <2>2
  <2> QED
    BY <2>1, <2>2
<1> HIDE DEF msum2
<1>8. Total(Plus, rest) = r[d]
  <2>1. CASE ~(d4 > 0)
    BY <1>2, <1>7, <2>1
  <2>2. CASE d4 > 0
    <3> DEFINE t == [l \in 0 .. 3 |-> IF l < d4 THEN Term[<<x[o4 + l], y[o4 + l]>>] ELSE 0]
    <3>0. \A a \in S : Plus[<<a, 0>>] = a
      BY <1>3 DEF Monoid
    <3>1. t \in [0 .. 3 -> S]
      <4>1. \A l \in 0 .. 3 : l < d4 => o4 + l \in 0 .. d - 1
        BY <1>2
      <4>2. \A l \in 0 .. 3 : l < d4 => Term[<<x[o4 + l], y[o4 + l]>>] \in S
        BY <4>1, NextTotal
      <4>3. 0 \in S
        BY <1>3 DEF Monoid
      <4> QED
        BY <4>2, <4>3
    <3>2. AddsTo(Plus, last, msum2, t)
      <4> SUFFICES ASSUME NEW l \in 0 .. 3 PROVE last[l] = Plus[<<msum2[l], t[l]>>]
        BY DEF AddsTo
      <4>1. last[l] = Plus[<<msum2[l], Term[<<MaskedRead(x, o4, d4)[0 + l], MaskedRead(y, o4, d4)[0 + l]>>]>>]
        BY DEF Block
      <4>2. 0 + l = l
        OBVIOUS
      <4>3. Term[<<MaskedRead(x, o4, d4)[l], MaskedRead(y, o4, d4)[l]>>] = t[l]
        BY DEF MaskedRead
      <4> QED
        BY <4>1, <4>2, <4>3
    <3>3. /\ 0 < d4 => t[0] = Term[<<x[o4], y[o4]>>]
          /\ 1 < d4 => t[1] = Term[<<x[o4 + 1], y[o4 + 1]>>]
          /\ 2 < d4 => t[2] = Term[<<x[o4 + 2], y[o4 + 2]>>]
          /\ ~(1 < d4) => t[1] = 0
          /\ ~(2 < d4) => t[2] = 0
          /\ t[3] = 0
      <4>1. o4 + 0 = o4 /\ ~(3 < d4)
        BY <1>2
      <4> QED
        BY <4>1
    <3> HIDE DEF last, t
    <3>4. Total(Plus, last) = Plus[<<Plus[<<Plus[<<Plus[<<r[o4], t[0]>>], t[1]>>], t[2]>>], t[3]>>]
      <4>1. Total(Plus, last) = WithFour(Plus, Total(Plus, msum2), t)
        <5>1. Monoid(Plus, S) /\ msum2 \in [0 .. 3 -> S]
          BY <1>3, <1>7
        <5> HIDE DEF rest
        <5> QED
          BY <3>1, <3>2, <5>1, TotalBlock
      <4> QED
        BY <1>7, <4>1 DEF WithFour
    <3>5. /\ o4 \in 0 .. d - 1 /\ (1 < d4 => o4 + 1 \in 0 .. d - 1) /\ (2 < d4 => o4 + 2 \in 0 .. d - 1)
          /\ (o4 + 1) + 1 = o4 + 2 /\ (o4 + 2) + 1 = o4 + 3
      BY <1>2, <2>2
    <3>6. r[o4 + 1] = Plus[<<r[o4], t[0]>>]
      BY <2>2, <3>3, <3>5, NextTotal
    <3>7. 1 < d4 => r[o4 + 2] = Plus[<<r[o4 + 1], t[1]>>]
      BY <3>3, <3>5, NextTotal
    <3>8. 2 < d4 => r[o4 + 3] = Plus[<<r[o4 + 2], t[2]>>]
      BY <3>3, <3>5, NextTotal
    <3>9. \A n \in 0 .. d : r[n] \in S
      BY DEF Runs
    <3>10. \A n \in 0 .. d : Plus[<<r[n], 0>>] = r[n]
      BY <3>0, <3>9
    <3>11. CASE d4 = 1
      <4>1. o4 + 1 = d /\ d \in 0 .. d
        BY <1>2, <3>11
      <4>2. t[1] = 0 /\ t[2] = 0 /\ t[3] = 0
        BY <3>3, <3>11
      <4>3. Total(Plus, last) = Plus[<<Plus[<<Plus[<<r[d], 0>>], 0>>], 0>>]
        BY <3>4, <3>6, <4>1, <4>2
      <4> QED
        BY <2>2, <3>10, <4>1, <4>3
    <3>12. CASE d4 = 2
      <4>1. o4 + 2 = d /\ d \in 0 .. d
        BY <1>2, <3>12
      <4>2. t[2] = 0 /\ t[3] = 0
        BY <3>3, <3>12
      <4>3. Total(Plus, last) = Plus[<<Plus[<<r[d], 0>>], 0>>]
        BY <3>4, <3>6, <3>7, <3>12, <4>1, <4>2
      <4> QED
        BY <2>2, <3>10, <4>1, <4>3
    <3>13. CASE d4 = 3
      <4>1. o4 + 3 = d /\ d \in 0 .. d
        BY <1>2, <3>13
      <4>2. t[3] = 0
        BY <3>3
      <4>3. Total(Plus, last) = Plus[<<r[d], 0>>]
        BY <3>4, <3>6, <3>7, <3>8, <3>13, <4>1, <4>2
      <4> QED
        BY <2>2, <3>10, <4>1, <4>3
    <3> QED
      BY <1>2, <2>2, <3>11, <3>12, <3>13
  <2> QED
    BY <2>1, <2>2
<1> QED
  BY <1>1, <1>8

-----------------------------------------------------------------------------
(* The four kernels and euclidean_distance.                                *)

LEMMA AddIs == \A a, b \in Int : Add[<<a, b>>] = a + b
  BY DEF Add

LEMMA GreaterIs == \A a, b \in Int : Greater[<<a, b>>] = IF a > b THEN a ELSE b
  BY DEF Greater

LEMMA SquareIs ==
    \A a, b \in Int : /\ SquareOfDifference[<<a, b>>] = (a - b) * (a - b)
                      /\ SquareOfDifference[<<a, b>>] \in Int
  BY DEF SquareOfDifference

LEMMA ProductIs == \A a, b \in Int : /\ Product[<<a, b>>] = a * b
                                     /\ Product[<<a, b>>] \in Int
  BY DEF Product

LEMMA AbsIs == \A a, b \in Int : /\ AbsDifference[<<a, b>>] = IF a > b THEN a - b ELSE b - a
                                 /\ AbsDifference[<<a, b>>] \in Nat
  BY DEF AbsDifference

LEMMA Sums == Monoid(Add, Int)
  BY AddIs DEF Monoid

LEMMA GreatestValues == Monoid(Greater, Nat)
  BY GreaterIs DEF Monoid

\* The terms of the four kernels are numbers, and 0 where masked_read reads zeros.
LEMMA TermsRight ==
    ASSUME NEW d \in Nat, NEW x \in [0 .. d - 1 -> Int], NEW y \in [0 .. d - 1 -> Int]
    PROVE  /\ Terms(SquareOfDifference, x, y, 0, d, Int) /\ SquareOfDifference[<<0, 0>>] = 0
           /\ Terms(Product, x, y, 0, d, Int) /\ Product[<<0, 0>>] = 0
           /\ Terms(AbsDifference, x, y, 0, d, Int) /\ AbsDifference[<<0, 0>>] = 0
           /\ Terms(AbsDifference, x, y, 0, d, Nat)
<1>1. \A e \in 0 .. d - 1 : 0 + e = e /\ x[0 + e] \in Int /\ y[0 + e] \in Int
  OBVIOUS
<1>2. Terms(SquareOfDifference, x, y, 0, d, Int) /\ SquareOfDifference[<<0, 0>>] = 0
  BY <1>1, SquareIs DEF Terms
<1>3. Terms(Product, x, y, 0, d, Int) /\ Product[<<0, 0>>] = 0
  BY <1>1, ProductIs DEF Terms
<1>4. Terms(AbsDifference, x, y, 0, d, Nat) /\ AbsDifference[<<0, 0>>] = 0
  BY <1>1, AbsIs DEF Terms
<1>5. Terms(AbsDifference, x, y, 0, d, Int)
  BY <1>4 DEF Terms
<1> QED
  BY <1>2, <1>3, <1>4, <1>5

\* From the last component to the first the distance grows to what is the
\* total from the first to the last.
LEMMA EuclideanRight ==
    ASSUME NEW d \in Nat, NEW x \in [0 .. d - 1 -> Int], NEW y \in [0 .. d - 1 -> Int]
    PROVE  EuclideanDistance(x, y, d) = SquaredDistance(x, y, d)
<1> PICK r : /\ Runs(Add, SquareOfDifference, x, y, d, Int, r)
             /\ InTurn(Add, SquareOfDifference, x, y, d) = r[d]
  <2>1. Terms(SquareOfDifference, x, y, 0, d, Int)
    BY TermsRight
  <2> QED
    BY <2>1, Sums, InTurnRuns
<1>0. \A n \in 0 .. d : r[n] \in Int
  BY DEF Runs
<1>1. ASSUME NEW n \in 0 .. d - 1
      PROVE  /\ r[n + 1] = r[n] + (x[n] - y[n]) * (x[n] - y[n])
             /\ (x[n] - y[n]) * (x[n] - y[n]) \in Int /\ r[n] \in Int
  <2>1. r[n + 1] = Add[<<r[n], SquareOfDifference[<<x[n], y[n]>>]>>]
    <3>1. n + 1 \in 1 .. d /\ (n + 1) - 1 = n
      OBVIOUS
    <3> QED
      BY <3>1 DEF Runs
  <2>0. r[n] \in Int
    BY <1>0
  <2> PICK a \in Int : a = x[n]
    OBVIOUS
  <2> PICK b \in Int : b = y[n]
    OBVIOUS
  <2>2. SquareOfDifference[<<a, b>>] = (a - b) * (a - b) /\ (a - b) * (a - b) \in Int
    BY SquareIs
  <2> PICK t : t = (a - b) * (a - b)
    OBVIOUS
  <2>3. Add[<<r[n], t>>] = r[n] + t
    BY <2>0, <2>2, AddIs
  <2> QED
    BY <2>0, <2>1, <2>2, <2>3
<1> DEFINE Falls(f) == f = [n \in 0 .. d |-> IF n = d THEN 0
                               ELSE f[n + 1] + (x[n] - y[n]) * (x[n] - y[n])]
           e == [n \in 0 .. d |-> r[d] - r[n]]
<1>2. Falls(e)
  <2>1. e[d] = 0
    BY <1>0
  <2>2. ASSUME NEW n \in 0 .. d, n # d
        PROVE  e[n] = e[n + 1] + (x[n] - y[n]) * (x[n] - y[n])
    <3>1. n \in 0 .. d - 1 /\ n + 1 \in 0 .. d /\ d \in 0 .. d
      BY <2>2
    <3> PICK t : t = (x[n] - y[n]) * (x[n] - y[n])
      OBVIOUS
    <3>2. r[n + 1] = r[n] + t /\ t \in Int /\ r[n] \in Int /\ r[d] \in Int
      BY <1>0, <1>1, <3>1
    <3>3. e[n] = r[d] - r[n] /\ e[n + 1] = r[d] - r[n + 1]
      BY <3>1
    <3> HIDE DEF e
    <3>4. e[n] = e[n + 1] + t
      BY ONLY <3>2, <3>3
    <3> QED
      BY <3>4
  <2>3. \A n \in 0 .. d : e[n] = IF n = d THEN 0 ELSE e[n + 1] + (x[n] - y[n]) * (x[n] - y[n])
    BY <2>1, <2>2
  <2>4. e = [n \in 0 .. d |-> e[n]]
    OBVIOUS
  <2> HIDE DEF e
  <2> QED
    BY <2>3, <2>4
<1>3. PICK g : Falls(g) /\ EuclideanDistance(x, y, d) = g[0]
  <2> DEFINE chosen == CHOOSE g : Falls(g)
  <2>1. EuclideanDistance(x, y, d) = chosen[0]
    BY DEF EuclideanDistance
  <2>2. \E g : Falls(g)
    BY <1>2
  <2> HIDE DEF Falls
  <2>3. Falls(chosen)
    BY <2>2
  <2> HIDE DEF chosen
  <2> QED
    BY <2>1, <2>3
<1>4. g[d] = 0 /\ \A n \in 0 .. d - 1 : g[n] = g[n + 1] + (x[n] - y[n]) * (x[n] - y[n])
  <2>1. \A n \in 0 .. d : g[n] = IF n = d THEN 0 ELSE g[n + 1] + (x[n] - y[n]) * (x[n] - y[n])
    BY <1>3
  <2>2. d \in 0 .. d /\ \A n \in 0 .. d - 1 : n \in 0 .. d /\ n # d
    OBVIOUS
  <2> HIDE DEF Falls
  <2> QED
    BY <2>1, <2>2
<1> HIDE DEF Falls, e
<1> DEFINE T == {u \in Nat : g[d - u] = r[d] - r[d - u]}
<1>5. 0 \in T
  BY <1>0, <1>4
<1>6. ASSUME NEW n \in 1 .. d, n - 1 \in T PROVE n \in T
  <2> PICK l : l = d - n
    OBVIOUS
  <2>1. l \in 0 .. d - 1 /\ l + 1 = d - (n - 1) /\ d \in 0 .. d
    OBVIOUS
  <2> PICK t : t = (x[l] - y[l]) * (x[l] - y[l])
    OBVIOUS
  <2>2. g[l + 1] = r[d] - r[l + 1]
    BY <1>6, <2>1
  <2>3. g[l] = g[l + 1] + t /\ r[l + 1] = r[l] + t /\ t \in Int /\ r[l] \in Int /\ r[d] \in Int
    BY <1>0, <1>1, <1>4, <2>1
  <2>4. g[l] = r[d] - r[l]
    BY <2>2, <2>3, SMTT(30)
  <2> QED
    BY <2>4
<1>7. d \in T
  <2>1. \A n \in 1 .. d : n - 1 \in T => n \in T
    BY <1>6
  <2> HIDE DEF T
  <2>2. 0 .. d \subseteq T
    BY <1>5, <2>1, Induction
  <2> QED
    BY <2>2
<1>8. d - d = 0 /\ r[0] = 0 /\ r[d] \in Int
  BY <1>0 DEF Runs
<1> QED
  BY <1>3, <1>7, <1>8 DEF SquaredDistance

LEMMA GreatestRuns ==
    ASSUME NEW d \in Nat, NEW x \in [0 .. d - 1 -> Int], NEW y \in [0 .. d - 1 -> Int], NEW S, S = Nat
    PROVE  \E r : /\ Runs(Greater, AbsDifference, x, y, d, S, r)
                  /\ InTurn(Greater, AbsDifference, x, y, d) = r[d]
<1>1. Terms(AbsDifference, x, y, 0, d, S)
  BY TermsRight
<1>2. Monoid(Greater, S)
  BY GreatestValues
<1> QED
  BY ONLY d \in Nat, <1>1, <1>2, InTurnRuns

\* The greatest value of the terms in turn is one of them, and none is greater.
LEMMA GreatestRight ==
    ASSUME NEW d \in Nat \ {0}, NEW x \in [0 .. d - 1 -> Int], NEW y \in [0 .. d - 1 -> Int],
           NEW m, m = InTurn(Greater, AbsDifference, x, y, d)
    PROVE  /\ m \in {AbsDifference[<<x[c], y[c]>>] : c \in 0 .. d - 1}
           /\ \A c \in 0 .. d - 1 : AbsDifference[<<x[c], y[c]>>] <= m
<1> DEFINE t == [c \in 0 .. d - 1 |-> AbsDifference[<<x[c], y[c]>>]]
<1>0. d \in Nat
  OBVIOUS
<1> PICK S : S = Nat
  OBVIOUS
<1> PICK r : /\ Runs(Greater, AbsDifference, x, y, d, S, r)
             /\ InTurn(Greater, AbsDifference, x, y, d) = r[d]
  <2> HIDE DEF t
  <2> QED
    BY <1>0, GreatestRuns
<1>1. \A c \in 0 .. d - 1 : t[c] = AbsDifference[<<x[c], y[c]>>]
  OBVIOUS
<1> HIDE DEF t
<1>2. ASSUME NEW n \in 0 .. d - 1
      PROVE  /\ r[n + 1] = IF r[n] > t[n] THEN r[n] ELSE t[n]
             /\ r[n] \in Nat /\ t[n] \in Nat
  <2>1. AbsDifference[<<x[n], y[n]>>] \in Nat
    BY NextTotal
  <2>2. r[n + 1] = Greater[<<r[n], AbsDifference[<<x[n], y[n]>>]>>]
    <3>1. n + 1 \in 1 .. d /\ (n + 1) - 1 = n
      OBVIOUS
    <3> QED
      BY <3>1 DEF Runs
  <2>3. r[n] \in Nat
    BY NextTotal
  <2>4. r[n + 1] = Greater[<<r[n], t[n]>>] /\ t[n] \in Nat
    BY <1>1, <2>1, <2>2
  <2> QED
    BY <2>3, <2>4, GreaterIs, SMTT(30)
<1>3. r[0] = 0
  BY DEF Runs
<1> DEFINE T == {n \in Nat : n > 0 => /\ \E c \in 0 .. n - 1 : r[n] = t[c]
                                      /\ \A c \in 0 .. n - 1 : t[c] <= r[n]}
<1>4. 0 \in T
  OBVIOUS
<1>5. ASSUME NEW n \in 1 .. d, n - 1 \in T PROVE n \in T
  <2> PICK l : l = n - 1
    OBVIOUS
  <2>1. l \in 0 .. d - 1 /\ l + 1 = n /\ n > 0 /\ l \in Nat /\ n \in Nat
    OBVIOUS
  <2>2. r[n] = (IF r[l] > t[l] THEN r[l] ELSE t[l]) /\ r[l] \in Nat /\ t[l] \in Nat
    BY <1>2, <2>1
  <2>3. l > 0 => /\ \E c \in 0 .. l - 1 : r[l] = t[c]
                 /\ \A c \in 0 .. l - 1 : t[c] <= r[l]
    BY <1>5
  <2>4. \A c \in 0 .. n - 1 : c = l \/ (l > 0 /\ c \in 0 .. l - 1)
    BY <2>1
  <2>5. \A c \in 0 .. l - 1 : c \in 0 .. n - 1 /\ c \in 0 .. d - 1
    BY <2>1
  <2>6. l \in 0 .. n - 1
    BY <2>1
  <2>7. \E c \in 0 .. n - 1 : r[n] = t[c]
    <3>1. CASE l = 0
      <4>1. r[n] = t[l]
        BY <1>3, <2>2, <3>1
      <4> QED
        BY <2>6, <4>1
    <3>2. CASE l # 0
      <4>1. PICK c \in 0 .. l - 1 : r[l] = t[c]
        BY <2>1, <2>3, <3>2
      <4> QED
        BY <2>2, <2>5, <2>6, <4>1
    <3> QED
      BY <3>1, <3>2
  <2>8. \A c \in 0 .. n - 1 : t[c] <= r[n]
    <3> SUFFICES ASSUME NEW c \in 0 .. n - 1 PROVE t[c] <= r[n]
      OBVIOUS
    <3>1. CASE c = l
      BY <2>2, <3>1
    <3>2. CASE l > 0 /\ c \in 0 .. l - 1
      <4>1. t[c] <= r[l] /\ t[c] \in Nat
        BY <1>2, <2>3, <2>5, <3>2
      <4> QED
        BY <2>2, <4>1, SMTT(30)
    <3> QED
      BY <2>4, <3>1, <3>2
  <2> QED
    BY <2>1, <2>7, <2>8
<1>6. d \in T
  <2>1. \A n \in 1 .. d : n - 1 \in T => n \in T
    BY <1>5
  <2> HIDE DEF T
  <2>2. 0 .. d \subseteq T
    BY <1>0, <1>4, <2>1, Induction
  <2> QED
    BY <2>2
<1>7. /\ \E c \in 0 .. d - 1 : r[d] = t[c]
      /\ \A c \in 0 .. d - 1 : t[c] <= r[d]
  <2>1. d > 0
    OBVIOUS
  <2> QED
    BY <1>6, <2>1
<1> QED
  BY <1>1, <1>7

\* For vectors of every dimensionality: the two distances main chooses between
\* are the same squared distance, and each AVX-512 kernel takes in every
\* component once, whatever is left over by its blocks of 16, 8 and 4.
THEOREM KernelsForEveryLength ==
    \A d \in Nat \ {0} : \A x, y \in [0 .. d - 1 -> Int] : KernelsRight(x, y, d)
<1> SUFFICES ASSUME NEW d \in Nat \ {0}, NEW x \in [0 .. d - 1 -> Int], NEW y \in [0 .. d - 1 -> Int]
             PROVE  KernelsRight(x, y, d)
  OBVIOUS
<1>0. d \in Nat
  OBVIOUS
<1>1. EuclideanDistance(x, y, d) = SquaredDistance(x, y, d)
  BY <1>0, EuclideanRight
<1>2. L2sqr(x, y, d) = SquaredDistance(x, y, d)
  BY <1>0, TermsRight, Sums, KernelRight DEF L2sqr, SquaredDistance
<1>3. InnerProduct(x, y, d) = InTurn(Add, Product, x, y, d)
  BY <1>0, TermsRight, Sums, KernelRight DEF InnerProduct
<1>4. L1(x, y, d) = InTurn(Add, AbsDifference, x, y, d)
  BY <1>0, TermsRight, Sums, KernelRight DEF L1
<1>5. Linf(x, y, d) = InTurn(Greater, AbsDifference, x, y, d)
  BY <1>0, TermsRight, GreatestValues, KernelRight DEF Linf
<1>6. /\ Linf(x, y, d) \in {AbsDifference[<<x[c], y[c]>>] : c \in 0 .. d - 1}
      /\ \A c \in 0 .. d - 1 : AbsDifference[<<x[c], y[c]>>] <= Linf(x, y, d)
  BY <1>5, GreatestRight
<1> QED
  BY <1>1, <1>2, <1>3, <1>4, <1>6 DEF KernelsRight

\* The squared distance of two vectors of integers is an integer.
LEMMA SquaredDistanceType ==
    ASSUME NEW d \in Nat, NEW x \in [0 .. d - 1 -> Int], NEW y \in [0 .. d - 1 -> Int]
    PROVE  SquaredDistance(x, y, d) \in Int
<1>1. Terms(SquareOfDifference, x, y, 0, d, Int)
  BY TermsRight
<1>2. PICK r : /\ Runs(Add, SquareOfDifference, x, y, d, Int, r)
               /\ InTurn(Add, SquareOfDifference, x, y, d) = r[d]
  BY ONLY d \in Nat, <1>1, Sums, InTurnRuns
<1> QED
  BY <1>2 DEF Runs, SquaredDistance

-----------------------------------------------------------------------------
(* The invariant of main.                                                  *)

\* The points in the leaves found for a query.
Within(q) == {p \in Points : \E leaf \in Found(q) : LeafOf(leaf[1], p) = leaf[2]}

\* What one thread takes for a query: all of them, or as many as fit.
Filled(q, c) == /\ c \subseteq Within(q)
                /\ c = Within(q) \/ Cardinality(c) = option.max_candidate_size

\* nodes[q] once it is ranked.
Ranked(q, s) ==
    /\ Len(s) <= option.max_candidate_size
    /\ Entries(s) \subseteq Points /\ Distinct(s)
    /\ \A a, b \in DOMAIN s : a < b /\ a <= k_size => TrueDistance(q, s[a]) <= TrueDistance(q, s[b])
    /\ num_thread = 1 => Filled(q, Entries(s))

Stages == {"options", "settings", "load", "index", "queries", "range", "candidates", "rank",
           "report", "groundtruth", "recall", "end", "exit", "trap"}
Asked == {"range", "candidates", "rank", "report", "groundtruth", "recall", "end"}

Typed ==
    /\ pc \in Stages
    /\ parsed \in 0 .. MaxOptions
    /\ option \in CommandLine
    /\ num_thread \in Nat
    /\ mask # {} => Cardinality(mask) = num_thread
    /\ settings_dimensionality \in Nat /\ settings_dimensionality <= option.LSH_dimensionality
    /\ dataset_size \in Nat
    /\ q_loaded \in Nat
    /\ retrived_data_num \in Nat
    /\ nodes \in Seq(Seq(Nat))

\* Nothing is there before it is made.
Unmade ==
    /\ pc = "options" => settings_dimensionality = 0
    /\ pc \in {"options", "settings", "load"} => dataset_size = 0
    /\ pc \in {"options", "settings", "load", "index", "queries"} =>
           range_queue_result = <<>> /\ q_loaded = 0
    /\ pc \in {"options", "settings", "load", "index", "queries", "range"} => nodes = <<>>

\* What is read is in the files.
Held ==
    /\ dataset_size * data_dimensionality <= Len(DataFile)
    /\ pc \in Asked \cup {"index", "queries"} => data_dimensionality # 0
    /\ pc \in Asked \/ range_queue_result # <<>> =>
           /\ option.queries_size \in Nat
           /\ option.queries_size * data_dimensionality <= Len(QueryFile)
    /\ pc \in {"groundtruth", "recall", "end"} => option.queries_size # 0

\* The query the loop at hand is at.
AtQuery ==
    /\ pc \in {"range", "candidates", "rank", "recall"} => q_loaded < option.queries_size
    /\ pc \in {"candidates", "rank"} => Len(nodes) = q_loaded
    /\ pc \in {"report", "groundtruth"} => q_loaded = 0
    /\ pc \in {"report", "groundtruth", "recall", "end"} => Len(nodes) = option.queries_size

Chosen ==
    pc = "rank" => /\ candidates \subseteq Points
                   /\ Cardinality(candidates) <= option.max_candidate_size
                   /\ num_thread = 1 => Filled(q_loaded, candidates)

Answered == \A q \in DOMAIN nodes : Ranked(q - 1, nodes[q])

\* The rows of the ground truth are those of the queries when it was made for k_size.
Aligned ==
    pc \in {"recall", "end"} /\ k_size = Listed =>
        \A q \in Queries : groundtruth_result[q] \in Neighbours(q)

\* The premise of RecallComplete.
NeighbourSets(q) == {{f[a] : a \in DOMAIN f} : f \in Neighbours(q)}
Reachable(q) == /\ Cardinality(Within(q)) <= option.max_candidate_size
                /\ \A s \in NeighbourSets(q) : s \subseteq Within(q)
                /\ Cardinality(NeighbourSets(q)) = 1
Attainable == num_thread = 1 /\ k_size = Listed /\ \A q \in Queries : Reachable(q)

Counted ==
    /\ pc \notin {"recall", "end", "trap", "exit"} => retrived_data_num = 0
    /\ pc = "recall" => /\ retrived_data_num <= q_loaded * k_size
                        /\ Attainable => retrived_data_num = q_loaded * k_size
    /\ pc = "end" => /\ retrived_data_num <= option.queries_size * k_size
                     /\ Attainable => retrived_data_num = option.queries_size * k_size

PipelineInv ==
    /\ Typed /\ Unmade /\ Held /\ AtQuery /\ Chosen /\ Answered /\ Aligned /\ Counted

-----------------------------------------------------------------------------
\* The types of the options.
LEMMA OptionTypes ==
    ASSUME NEW r \in CommandLine
    PROVE  /\ r.cpu_type \in Int /\ r.queries_size \in Int /\ r.dataset_size \in Int
           /\ r.l_size \in Nat \ {0}
           /\ r.k_size \in Nat /\ r.max_candidate_size \in Nat
           /\ r.data_dimensionality \in Nat /\ r.LSH_dimensionality \in Nat
  BY DEF CommandLine

LEMMA PointsFacts ==
    ASSUME dataset_size \in Nat
    PROVE  Points \subseteq Nat /\ IsFiniteSet(Points)
<1>1. dataset_size - 1 \in Int /\ 0 \in Int
  OBVIOUS
<1> QED
  BY <1>1, FS_Interval DEF Points

\* A component of the n-th of m vectors of e components lies in the file.
LEMMA InFile ==
    ASSUME NEW m \in Nat, NEW e \in Nat, NEW n \in 0 .. m - 1, NEW c \in 0 .. e - 1
    PROVE  n * e + c + 1 \in 1 .. m * e
<1>1. n \in Nat /\ n + 1 \in Nat /\ n + 1 <= m /\ c \in Nat /\ c + 1 <= e
  OBVIOUS
<1>2. (n + 1) * e = n * e + e /\ n * e \in Nat
  BY <1>1, NextMultiple, Grows
<1>3. (n + 1) * e <= m * e /\ m * e \in Nat
  BY <1>1, Grows
<1> PICK u : u = n * e
  OBVIOUS
<1> PICK v : v = m * e
  OBVIOUS
<1> QED
  BY ONLY <1>1, <1>2, <1>3, u = n * e, v = m * e, e \in Nat

LEMMA VectorTypes ==
    ASSUME Typed, Held
    PROVE  /\ \A p \in Points : RawFile(p) \in [0 .. data_dimensionality - 1 -> Int]
           /\ pc \in Asked => \A q \in Queries : QueryPoint(q) \in [0 .. data_dimensionality - 1 -> Int]
<1>1. data_dimensionality \in Nat /\ dataset_size \in Nat
  BY OptionTypes DEF Typed, data_dimensionality
<1> PICK e \in Nat : e = data_dimensionality
  BY <1>1
<1>2. ASSUME NEW p \in Points PROVE RawFile(p) \in [0 .. e - 1 -> Int]
  <2>1. ASSUME NEW c \in 0 .. e - 1 PROVE DataFile[p * e + c + 1] \in Int
    <3>1. p * e + c + 1 \in 1 .. dataset_size * e
      BY <1>1, InFile DEF Points
    <3>2. dataset_size * e <= Len(DataFile) /\ dataset_size * e \in Nat
      BY <1>1, Grows DEF Held
    <3>3. p * e + c + 1 \in 1 .. Len(DataFile)
      <4> PICK u : u = p * e + c + 1
        OBVIOUS
      <4> PICK v : v = dataset_size * e
        OBVIOUS
      <4>1. Len(DataFile) \in Nat
        BY FilesAssumption
      <4>2. u \in 1 .. Len(DataFile)
        BY ONLY u = p * e + c + 1, v = dataset_size * e, <3>1, <3>2, <4>1
      <4> QED
        BY ONLY u = p * e + c + 1, <4>2
    <3> QED
      BY <3>3, FilesAssumption
  <2> QED
    BY <2>1 DEF RawFile
<1>3. ASSUME NEW q \in Queries, pc \in Asked PROVE QueryPoint(q) \in [0 .. e - 1 -> Int]
  <2>1. option.queries_size \in Nat
    BY <1>3 DEF Held
  <2>2. ASSUME NEW c \in 0 .. e - 1 PROVE QueryFile[q * e + c + 1] \in Int
    <3>1. q * e + c + 1 \in 1 .. option.queries_size * e
      BY <1>1, <2>1, InFile DEF Queries
    <3>2. option.queries_size * e <= Len(QueryFile) /\ option.queries_size * e \in Nat
      BY <1>1, <1>3, <2>1, Grows DEF Held
    <3>3. q * e + c + 1 \in 1 .. Len(QueryFile)
      <4> PICK u : u = q * e + c + 1
        OBVIOUS
      <4> PICK v : v = option.queries_size * e
        OBVIOUS
      <4>1. Len(QueryFile) \in Nat
        BY FilesAssumption
      <4>2. u \in 1 .. Len(QueryFile)
        BY ONLY u = q * e + c + 1, v = option.queries_size * e, <3>1, <3>2, <4>1
      <4> QED
        BY ONLY u = q * e + c + 1, <4>2
    <3> QED
      BY <3>3, FilesAssumption
  <2> QED
    BY <2>2 DEF QueryPoint
<1> QED
  BY <1>2, <1>3

\* Both distances main chooses between are the true one.
LEMMA DistancesTrue ==
    ASSUME Typed, Held, pc \in Asked, NEW q \in Queries, NEW p \in Points
    PROVE  /\ Dist(q, p) = TrueDistance(q, p)
           /\ TrueDistance(q, p) \in Int
           /\ KernelsRight(QueryPoint(q), RawFile(p), data_dimensionality)
<1>1. data_dimensionality \in Nat \ {0}
  BY OptionTypes DEF Typed, Held, data_dimensionality
<1>2. /\ RawFile(p) \in [0 .. data_dimensionality - 1 -> Int]
      /\ QueryPoint(q) \in [0 .. data_dimensionality - 1 -> Int]
  BY VectorTypes
<1>3. KernelsRight(QueryPoint(q), RawFile(p), data_dimensionality)
  BY <1>1, <1>2, KernelsForEveryLength
<1>4. TrueDistance(q, p) \in Int
  BY <1>1, <1>2, SquaredDistanceType DEF TrueDistance
<1> QED
  BY <1>3, <1>4 DEF KernelsRight, Dist, TrueDistance

\* The offset of a point leads back to it.
LEMMA Offsets == ASSUME NEW e \in Nat \ {0}, NEW p \in Nat PROVE (p * e) \div e = p
<1> PICK c : c = p * e
  OBVIOUS
<1>0. c \in Nat
  BY Grows
<1> PICK x : x = c \div e
  OBVIOUS
<1>1. x \in Nat /\ x * e <= c /\ c < x * e + e
  BY ONLY <1>0, x = c \div e, e \in Nat \ {0}, Quotients
<1>2. ~(x < p)
  <2> SUFFICES ASSUME x < p PROVE FALSE
    OBVIOUS
  <2>1. (x + 1) * e <= p * e /\ (x + 1) * e = x * e + e
    BY <1>1, Grows, NextMultiple
  <2> QED
    BY <1>1, <2>1, Grows
<1>3. ~(p < x)
  <2> SUFFICES ASSUME p < x PROVE FALSE
    OBVIOUS
  <2>1. (p + 1) * e <= x * e /\ (p + 1) * e = p * e + e
    BY <1>1, Grows, NextMultiple
  <2> QED
    BY <1>0, <1>1, <2>1, Grows
<1> QED
  BY <1>1, <1>2, <1>3

LEMMA PointsFound ==
    ASSUME Typed, data_dimensionality # 0, NEW q
    PROVE  PointsIn(Found(q)) = Within(q)
<1>1. data_dimensionality \in Nat \ {0}
  BY OptionTypes DEF Typed, data_dimensionality
<1>2. Points \subseteq Nat
  BY PointsFacts DEF Typed
<1>3. ASSUME NEW leaf PROVE LeafPoints(leaf) = {p \in Points : LeafOf(leaf[1], p) = leaf[2]}
  <2>1. \A p \in Points : CurrentPosition(Position(p)) = p
    BY <1>1, <1>2, Offsets DEF CurrentPosition, Position
  <2> QED
    BY <2>1 DEF LeafPoints, PositionBuffer
<1> QED
  BY <1>3 DEF PointsIn, Within

LEMMA NearestFilled ==
    ASSUME Typed, data_dimensionality # 0, NEW q, NEW c \in Nearest(q)
    PROVE  Filled(q, c)
<1>1. c \subseteq PointsIn(Found(q))
  BY DEF Nearest
<1>2. c = PointsIn(Found(q)) \/ Cardinality(c) = option.max_candidate_size
  BY DEF Nearest
<1> QED
  BY <1>1, <1>2, PointsFound DEF Filled

-----------------------------------------------------------------------------
(* The answer to a query.                                                  *)

\* What the contract of partial_sort and sort makes of the candidates.
LEMMA RankedAnswer ==
    ASSUME Typed, Held, AtQuery, Chosen, pc = "rank",
           NEW n, n = Cardinality(candidates),
           NEW s \in [1 .. n -> candidates],
           \A a, b \in 1 .. n : a < b => /\ s[a] # s[b]
                                         /\ a <= Sorted(n) => Dist(q_loaded, s[a]) <= Dist(q_loaded, s[b])
    PROVE  Ranked(q_loaded, s) /\ s \in Seq(Nat)
<1>1. Points \subseteq Nat /\ IsFiniteSet(Points)
  BY PointsFacts DEF Typed
<1>2. candidates \subseteq Points /\ IsFiniteSet(candidates) /\ n \in Nat /\ n <= option.max_candidate_size
  BY <1>1, FS_Subset, FS_CardinalityType DEF Chosen
<1>3. s \in Seq(Nat) /\ Len(s) = n /\ DOMAIN s = 1 .. n
  <2>1. s \in [1 .. n -> Nat]
    BY <1>1, <1>2
  <2> QED
    BY <1>2, <2>1
<1>4. Entries(s) \subseteq candidates
  BY <1>3 DEF Entries
<1>5. Distinct(s)
  <2> SUFFICES ASSUME NEW a \in 1 .. n, NEW b \in 1 .. n, s[a] = s[b], a # b PROVE FALSE
    BY <1>3 DEF Distinct
  <2>1. a < b \/ b < a
    BY <1>2
  <2> QED
    BY <2>1
<1>6. q_loaded \in Queries
  BY DEF Queries, AtQuery, Typed, Held, Asked
<1>7. ASSUME NEW a \in 1 .. n, NEW b \in 1 .. n, a < b, a <= k_size
      PROVE  TrueDistance(q_loaded, s[a]) <= TrueDistance(q_loaded, s[b])
  <2>1. a <= Sorted(n)
    BY <1>2, <1>7 DEF Sorted
  <2>2. s[a] \in Points /\ s[b] \in Points
    BY <1>2
  <2>3. pc \in Asked
    BY DEF Asked
  <2>4. /\ Dist(q_loaded, s[a]) = TrueDistance(q_loaded, s[a])
        /\ Dist(q_loaded, s[b]) = TrueDistance(q_loaded, s[b])
    BY <1>6, <2>2, <2>3, DistancesTrue
  <2> QED
    BY <1>7, <2>1, <2>4
<1>8. ASSUME num_thread = 1 PROVE Filled(q_loaded, Entries(s))
  <2>1. s \in Injection(1 .. n, candidates)
    BY <1>3, <1>5 DEF Injection, IsInjective, Distinct
  <2>2. Cardinality(1 .. n) = n
    BY <1>2, OneTo
  <2>3. s \in Surjection(1 .. n, candidates)
    BY <1>2, <2>1, <2>2, FS_Injection
  <2>4. Entries(s) = candidates
    BY <1>3, <1>4, <2>3 DEF Surjection, Entries
  <2> QED
    BY <1>8, <2>4 DEF Chosen
<1> QED
  BY <1>2, <1>3, <1>4, <1>5, <1>7, <1>8 DEF Ranked

\* Of a different values one is not among a - 1.
Differ(g, a) == \A t, u \in 1 .. a : t < u => g[t] # g[u]
Missing(g, h, a) == \E t \in 1 .. a : \A b \in 1 .. a - 1 : g[t] # h[b]

LEMMA OneMissing ==
    ASSUME NEW g, NEW h, NEW a \in Nat \ {0}, Differ(g, a)
    PROVE  Missing(g, h, a)
<1> DEFINE B == {h[b] : b \in 1 .. a - 1}
           f == [t \in 1 .. a |-> g[t]]
           e == [b \in 1 .. a - 1 |-> h[b]]
<1>0. a \in Nat \ {0} /\ \A t, u \in 1 .. a : t < u => g[t] # g[u]
  BY DEF Differ
<1> SUFFICES ASSUME \A t \in 1 .. a : g[t] \in B PROVE FALSE
  BY DEF Missing
<1>1. e \in Surjection(1 .. a - 1, B)
  BY DEF Surjection
<1>2. f \in [1 .. a -> B]
  OBVIOUS
<1>3. \A t, u \in 1 .. a : f[t] = f[u] => t = u
  <2> SUFFICES ASSUME NEW t \in 1 .. a, NEW u \in 1 .. a, g[t] = g[u], t # u PROVE FALSE
    OBVIOUS
  <2>1. t < u \/ u < t
    BY <1>0
  <2> QED
    BY <1>0, <2>1
<1>4. f \in Injection(1 .. a, B)
  <2> HIDE DEF f, B
  <2> QED
    BY <1>2, <1>3 DEF Injection, IsInjective
<1>5. /\ IsFiniteSet(1 .. a) /\ Cardinality(1 .. a) = a
      /\ IsFiniteSet(1 .. a - 1) /\ Cardinality(1 .. a - 1) = a - 1
  <2>1. a \in Nat /\ a - 1 \in Nat
    BY <1>0
  <2> QED
    BY ONLY <2>1, OneTo
<1> HIDE DEF B, e, f
<1>6. IsFiniteSet(B) /\ Cardinality(B) <= a - 1 /\ Cardinality(B) \in Nat
  BY <1>1, <1>5, FS_Surjection, FS_CardinalityType
<1>7. a <= Cardinality(B)
  BY <1>4, <1>5, <1>6, FS_Injection
<1> QED
  BY <1>0, <1>6, <1>7

LEMMA ListedFacts ==
    ASSUME Typed PROVE Listed \in Nat /\ Listed <= dataset_size
  BY GroundTruthKAssumption DEF Listed, Typed

LEMMA WithinFacts ==
    ASSUME Typed, NEW q
    PROVE  /\ Within(q) \subseteq Points /\ IsFiniteSet(Within(q))
           /\ Cardinality(Within(q)) \in Nat
<1>1. Within(q) \subseteq Points
  BY DEF Within
<1> QED
  BY <1>1, PointsFacts, FS_Subset, FS_CardinalityType DEF Typed

\* One thread that has room for all the points within the leaves takes them all.
LEMMA AllTaken ==
    ASSUME Typed, NEW q, NEW c, Filled(q, c), Cardinality(Within(q)) <= option.max_candidate_size
    PROVE  c = Within(q)
<1>1. CASE Cardinality(c) = option.max_candidate_size
  <2>1. Cardinality(c) <= Cardinality(Within(q)) /\ Cardinality(c) \in Nat
    BY WithinFacts, FS_Subset, FS_CardinalityType DEF Filled
  <2>2. Cardinality(c) = Cardinality(Within(q))
    BY <1>1, <2>1, WithinFacts
  <2> QED
    BY <2>2, WithinFacts, FS_Subset DEF Filled
<1> QED
  BY <1>1 DEF Filled

\* The answer begins with the neighbours the ground truth lists.
LEMMA NearestFirst ==
    ASSUME Typed, Held, pc \in Asked, NEW q \in Queries, num_thread = 1, k_size = Listed,
           Reachable(q), NEW s \in Seq(Nat), Ranked(q, s), NEW g \in Neighbours(q)
    PROVE  /\ Listed <= Len(s)
           /\ {s[a] : a \in 1 .. Listed} = {g[a] : a \in 1 .. Listed}
<1>1. Listed \in Nat
  BY ListedFacts
<1>2. /\ g \in [1 .. Listed -> Points]
      /\ \A a \in 1 .. Listed : \A p \in Points \ {g[b] : b \in 1 .. a - 1} :
             g[a] \notin {g[b] : b \in 1 .. a - 1} /\ TrueDistance(q, g[a]) <= TrueDistance(q, p)
  BY DEF Neighbours
<1>3. \A t, u \in 1 .. Listed : t < u => g[t] # g[u]
  <2> SUFFICES ASSUME NEW t \in 1 .. Listed, NEW u \in 1 .. Listed, t < u, g[t] = g[u] PROVE FALSE
    OBVIOUS
  <2>1. t \in 1 .. u - 1
    BY <1>1
  <2>2. g[u] \in {g[b] : b \in 1 .. u - 1}
    BY <2>1
  <2>3. PICK p \in Points : p \notin {g[b] : b \in 1 .. u - 1}
    <3>1. \A w \in 1 .. Listed : w - 1 \in Points
      BY <1>1, ListedFacts DEF Points, Typed
    <3>2. PICK f \in [1 .. Listed -> Points] : \A w \in 1 .. Listed : f[w] = w - 1
      <4> DEFINE f == [w \in 1 .. Listed |-> w - 1]
      <4>1. f \in [1 .. Listed -> Points] /\ \A w \in 1 .. Listed : f[w] = w - 1
        BY <3>1
      <4> QED
        BY <4>1
    <3>3. \A w, x \in 1 .. Listed : w < x => f[w] # f[x]
      BY <1>1, <3>2
    <3>4. PICK w \in 1 .. u : \A b \in 1 .. u - 1 : f[w] # g[b]
      <4>1. u \in Nat \ {0} /\ Differ(f, u)
        BY <1>1, <3>3 DEF Differ
      <4>2. Missing(f, g, u)
        BY <4>1, OneMissing
      <4> QED
        BY <4>2 DEF Missing
    <3>5. f[w] \in Points
      BY <1>1, <3>2
    <3> QED
      BY <3>4, <3>5
  <2> QED
    BY <1>2, <2>2, <2>3
<1>4. Entries(s) = Within(q) /\ Distinct(s) /\ Len(s) \in Nat /\ DOMAIN s = 1 .. Len(s)
  BY AllTaken DEF Ranked, Reachable
<1>5. \A a \in 1 .. Listed : g[a] \in Within(q)
  <2>1. {g[a] : a \in DOMAIN g} \in NeighbourSets(q)
    BY DEF NeighbourSets
  <2>2. {g[a] : a \in DOMAIN g} \subseteq Within(q)
    BY <2>1 DEF Reachable
  <2> QED
    BY <1>2, <2>2
<1>6. Listed <= Len(s)
  <2>1. Cardinality(Within(q)) = Len(s)
    BY <1>4, DistinctCount
  <2>2. \A t, u \in 1 .. Listed : g[t] = g[u] => t = u
    <3> SUFFICES ASSUME NEW t \in 1 .. Listed, NEW u \in 1 .. Listed, g[t] = g[u], t # u PROVE FALSE
      OBVIOUS
    <3>1. t < u \/ u < t
      BY <1>1
    <3> QED
      BY <1>3, <3>1
  <2>3. g \in Injection(1 .. Listed, Within(q))
    BY <1>2, <1>5, <2>2 DEF Injection, IsInjective
  <2>4. Cardinality(1 .. Listed) = Listed
    BY <1>1, OneTo
  <2> QED
    BY <2>1, <2>3, <2>4, WithinFacts, FS_Injection
<1> DEFINE h == [a \in 1 .. Listed |-> s[a]]
<1>7. \A a \in 1 .. Listed : a \in DOMAIN s /\ h[a] = s[a] /\ s[a] \in Within(q) /\ s[a] \in Points
  <2>1. \A a \in 1 .. Listed : a \in DOMAIN s
    BY <1>1, <1>4, <1>6
  <2>2. \A a \in DOMAIN s : s[a] \in Within(q)
    BY <1>4 DEF Entries
  <2> QED
    BY <2>1, <2>2, WithinFacts
<1>8. h \in [1 .. Listed -> Points]
  BY <1>7
<1> HIDE DEF h
<1>9. ASSUME NEW a \in 1 .. Listed, NEW p \in Within(q) \ {h[b] : b \in 1 .. a - 1}
      PROVE  TrueDistance(q, h[a]) <= TrueDistance(q, p)
  <2>1. PICK e \in DOMAIN s : p = s[e]
    BY <1>4 DEF Entries
  <2>2. ~(e < a)
    <3> SUFFICES ASSUME e < a PROVE FALSE
      OBVIOUS
    <3>1. e \in 1 .. a - 1 /\ e \in 1 .. Listed
      BY <1>1, <1>4
    <3> QED
      BY <1>7, <1>9, <2>1, <3>1
  <2>3. CASE e = a
    <3>1. p = h[a] /\ p \in Points
      BY <1>7, <2>1, <2>3
    <3>2. TrueDistance(q, p) \in Int
      BY <3>1, DistancesTrue
    <3> QED
      BY <3>1, <3>2
  <2>4. CASE a < e
    BY <1>7, <2>1, <2>4 DEF Ranked
  <2>5. a \in Nat /\ e \in Nat
    BY <1>1, <1>4
  <2> QED
    BY <2>2, <2>3, <2>4, <2>5
<1>10. ASSUME NEW a \in 1 .. Listed, NEW p \in Points \ {h[b] : b \in 1 .. a - 1}
       PROVE  TrueDistance(q, h[a]) <= TrueDistance(q, p)
  <2>1. CASE p \in Within(q)
    BY <1>9, <1>10, <2>1
  <2>2. CASE p \notin Within(q)
    <3>0. a \in Nat \ {0} /\ \A t, u \in 1 .. a : t \in 1 .. Listed /\ u \in 1 .. Listed
      BY <1>1
    <3>1. PICK t \in 1 .. a : \A b \in 1 .. a - 1 : g[t] # h[b]
      <4>1. Differ(g, a)
        BY <1>3, <3>0 DEF Differ
      <4> QED
        BY <3>0, <4>1, OneMissing DEF Missing
    <3>2. t \in 1 .. Listed /\ g[t] \in Within(q) /\ g[t] \in Points
      BY <1>2, <1>5, <3>0
    <3>3. TrueDistance(q, h[a]) <= TrueDistance(q, g[t])
      BY <1>9, <3>1, <3>2
    <3>4. p \notin {g[b] : b \in 1 .. t - 1}
      <4>1. \A b \in 1 .. t - 1 : b \in 1 .. Listed
        BY <1>1, <3>2
      <4> QED
        BY <1>5, <2>2, <4>1
    <3>5. TrueDistance(q, g[t]) <= TrueDistance(q, p)
      BY <1>2, <3>2, <3>4
    <3>6. h[a] \in Points
      BY <1>7
    <3>7. TrueDistance(q, h[a]) \in Int /\ TrueDistance(q, g[t]) \in Int /\ TrueDistance(q, p) \in Int
      BY <3>2, <3>6, DistancesTrue
    <3> QED
      BY <3>3, <3>5, <3>7
  <2> QED
    BY <2>1, <2>2
<1>11. ASSUME NEW a \in 1 .. Listed PROVE h[a] \notin {h[b] : b \in 1 .. a - 1}
  <2> SUFFICES ASSUME NEW b \in 1 .. a - 1, h[a] = h[b] PROVE FALSE
    OBVIOUS
  <2>1. b \in 1 .. Listed /\ b # a
    BY <1>1
  <2> QED
    BY <1>4, <1>7, <2>1 DEF Distinct
<1>12. h \in Neighbours(q)
  BY <1>8, <1>10, <1>11 DEF Neighbours
<1>13. IsFiniteSet(NeighbourSets(q))
  <2>1. \A f \in Neighbours(q) : f \in [1 .. Listed -> Points]
    BY DEF Neighbours
  <2>2. NeighbourSets(q) \subseteq SUBSET Points
    <3>1. \A f \in Neighbours(q) : {f[a] : a \in DOMAIN f} \subseteq Points
      BY <2>1
    <3> QED
      BY <3>1 DEF NeighbourSets
  <2>3. IsFiniteSet(Points)
    BY PointsFacts DEF Typed
  <2> QED
    BY <2>2, <2>3, FS_SUBSET, FS_Subset
<1>14. {h[a] : a \in DOMAIN h} = {g[a] : a \in DOMAIN g}
  <2>1. {h[a] : a \in DOMAIN h} \in NeighbourSets(q) /\ {g[a] : a \in DOMAIN g} \in NeighbourSets(q)
    BY <1>12 DEF NeighbourSets
  <2>2. PICK x : NeighbourSets(q) = {x}
    BY <1>13, FS_Singleton DEF Reachable
  <2> QED
    BY <2>1, <2>2
<1>15. {h[a] : a \in DOMAIN h} = {s[a] : a \in 1 .. Listed}
  BY <1>7, <1>8
<1> QED
  BY <1>2, <1>6, <1>14, <1>15

\* Then every one of the k_size results is in the ground truth.
LEMMA AllHits ==
    ASSUME Typed, Held, pc \in Asked, NEW q \in Queries, q + 1 \in DOMAIN nodes,
           num_thread = 1, k_size = Listed, Reachable(q), Ranked(q, nodes[q + 1]),
           groundtruth_result[q] \in Neighbours(q)
    PROVE  Hits(q) = 1 .. k_size /\ Doubtful(q) = {}
<1>1. PICK s \in Seq(Nat) : s = nodes[q + 1]
  BY DEF Typed
<1>2. PICK g : g = groundtruth_result[q]
  OBVIOUS
<1>3. Listed <= Len(s) /\ {s[a] : a \in 1 .. Listed} = {g[a] : a \in 1 .. Listed}
  <2>1. Ranked(q, s) /\ g \in Neighbours(q)
    BY <1>1, <1>2
  <2> QED
    BY <2>1, NearestFirst
<1>4. Listed \in Nat /\ Len(s) \in Nat /\ DOMAIN s = 1 .. Len(s)
  BY ListedFacts
<1>5. ASSUME NEW j \in 1 .. k_size
      PROVE  \E t \in 1 .. k_size : Obtained(q, j) = groundtruth_result[q][t] /\ Obtained(q, j) # Uninit
  <2>1. j \in DOMAIN s
    BY <1>3, <1>4
  <2>2. Obtained(q, j) = s[j] /\ s[j] \in Nat
    BY <1>1, <2>1 DEF Obtained
  <2>3. s[j] \in {g[a] : a \in 1 .. Listed}
    BY <1>3
  <2>4. s[j] # Uninit
    BY <2>2 DEF Uninit
  <2> QED
    BY <1>2, <2>2, <2>3, <2>4
<1>6. Hits(q) = 1 .. k_size
  BY <1>5 DEF Hits
<1> QED
  BY <1>6 DEF Doubtful

\* Of k_size results no more than that are counted.
LEMMA HitsBounded ==
    ASSUME k_size \in Nat, NEW q
    PROVE  /\ Cardinality(Hits(q)) \in Nat /\ Cardinality(Doubtful(q)) \in Nat
           /\ Cardinality(Hits(q)) + Cardinality(Doubtful(q)) <= k_size
<1>1. IsFiniteSet(1 .. k_size) /\ Cardinality(1 .. k_size) = k_size
  BY OneTo
<1>2. Hits(q) \subseteq 1 .. k_size
  BY DEF Hits
<1>3. Doubtful(q) \subseteq (1 .. k_size) \ Hits(q)
  BY DEF Doubtful
<1>4. (1 .. k_size) \cap Hits(q) = Hits(q)
  BY <1>2
<1>5. /\ IsFiniteSet((1 .. k_size) \ Hits(q))
      /\ Cardinality((1 .. k_size) \ Hits(q)) = k_size - Cardinality(Hits(q))
  <2> PICK S : S = 1 .. k_size
    OBVIOUS
  <2> PICK T : T = Hits(q)
    OBVIOUS
  <2>1. IsFiniteSet(S \ T) /\ Cardinality(S \ T) = Cardinality(S) - Cardinality(S \cap T)
    BY <1>1, FS_Difference
  <2> QED
    BY <1>1, <1>4, <2>1
<1>6. /\ Cardinality(Doubtful(q)) <= Cardinality((1 .. k_size) \ Hits(q))
      /\ IsFiniteSet(Doubtful(q))
  BY <1>3, <1>5, FS_Subset
<1>7. Cardinality(Hits(q)) \in Nat /\ Cardinality(Doubtful(q)) \in Nat
  BY <1>1, <1>2, <1>6, FS_Subset, FS_CardinalityType
<1> QED
  BY <1>5, <1>6, <1>7

-----------------------------------------------------------------------------
(* The steps.                                                              *)

\* What the operators read does not change once the leaves are found.
LEMMA Settled ==
    ASSUME UNCHANGED <<option, num_thread, dataset_size, range_queue_result>>
    PROVE  /\ data_dimensionality' = data_dimensionality /\ k_size' = k_size
           /\ Points' = Points /\ Queries' = Queries /\ Listed' = Listed
           /\ \A q : Neighbours(q)' = Neighbours(q)
           /\ \A q : Within(q)' = Within(q)
           /\ \A q, s : Ranked(q, s)' = Ranked(q, s)
           /\ \A q, c : Filled(q, c)' = Filled(q, c)
           /\ Attainable' = Attainable
<1>1. data_dimensionality' = data_dimensionality /\ k_size' = k_size
  BY DEF data_dimensionality, k_size
<1>2. Points' = Points /\ Queries' = Queries /\ Listed' = Listed /\ Trees' = Trees
  BY DEF Points, Queries, Listed, Trees
<1>3. ASSUME NEW q, NEW p PROVE TrueDistance(q, p)' = TrueDistance(q, p)
  BY <1>1 DEF TrueDistance, QueryPoint, RawFile
<1>4. ASSUME NEW q PROVE Neighbours(q)' = Neighbours(q)
  BY <1>2, <1>3 DEF Neighbours
<1>5. ASSUME NEW q PROVE Found(q)' = Found(q)
  BY <1>2 DEF Found
<1>6. ASSUME NEW q PROVE Within(q)' = Within(q)
  BY <1>2, <1>5 DEF Within
<1>7. ASSUME NEW q, NEW c PROVE Filled(q, c)' = Filled(q, c)
  BY <1>6 DEF Filled
<1>8. ASSUME NEW q, NEW s PROVE Ranked(q, s)' = Ranked(q, s)
  BY <1>1, <1>2, <1>3, <1>7 DEF Ranked
<1>9. ASSUME NEW q PROVE NeighbourSets(q)' = NeighbourSets(q)
  BY <1>4 DEF NeighbourSets
<1>10. ASSUME NEW q PROVE Reachable(q)' = Reachable(q)
  BY <1>6, <1>9 DEF Reachable
<1>11. Attainable' = Attainable
  BY <1>1, <1>2, <1>10 DEF Attainable
<1> QED
  BY <1>1, <1>2, <1>4, <1>6, <1>7, <1>8, <1>11

LEMMA PipelineInit == Init => PipelineInv
<1> SUFFICES ASSUME Init PROVE PipelineInv
  OBVIOUS
<1>1. option \in CommandLine
  BY DefaultsAssumption DEF Init
<1>2. /\ data_dimensionality \in Nat /\ option.LSH_dimensionality \in Nat
  BY <1>1, OptionTypes DEF data_dimensionality
<1>3. Typed
  BY <1>1, <1>2, MaxOptionsAssumption DEF Init, Typed, Stages
<1>4. Unmade
  BY DEF Init, Unmade
<1>5. Held
  <2>1. 0 * data_dimensionality = 0 /\ Len(DataFile) \in Nat
    BY <1>2, FilesAssumption
  <2> QED
    BY <2>1 DEF Init, Held, Asked
<1>6. AtQuery /\ Chosen /\ Answered /\ Aligned /\ Counted
  BY DEF Init, AtQuery, Chosen, Answered, Aligned, Counted
<1> QED
  BY <1>3, <1>4, <1>5, <1>6 DEF PipelineInv

\* The program is stopped: what is made stays.
LEMMA Stopped ==
    ASSUME PipelineInv, pc' \in {"exit", "trap"}, parsed' \in 0 .. MaxOptions,
           UNCHANGED <<option, num_thread, mask, settings_dimensionality, dataset_size,
                       range_queue_result, nodes>>,
           q_loaded' \in Nat, retrived_data_num' \in Nat
    PROVE  PipelineInv'
<1>1. Typed'
  BY DEF PipelineInv, Typed, Stages
<1>2. Unmade' /\ AtQuery' /\ Chosen' /\ Aligned' /\ Counted'
  BY DEF Unmade, AtQuery, Chosen, Aligned, Counted
<1>3. Held'
  BY Settled DEF PipelineInv, Held, Asked
<1>4. Answered'
  BY Settled DEF PipelineInv, Answered
<1> QED
  BY <1>1, <1>2, <1>3, <1>4 DEF PipelineInv

\* Before there are answers only what is typed, held and counted matters.
LEMMA Unanswered ==
    ASSUME Typed', Unmade', Held',
           pc' \in {"options", "settings", "load", "index", "queries", "range"},
           pc' = "range" => q_loaded' < option'.queries_size,
           retrived_data_num' = 0
    PROVE  PipelineInv'
<1>1. nodes' = <<>>
  BY DEF Unmade
<1>2. Chosen' /\ Answered' /\ Aligned' /\ Counted' /\ AtQuery'
  BY <1>1 DEF Chosen, Answered, Aligned, Counted, AtQuery
<1> QED
  BY <1>2 DEF PipelineInv

LEMMA OptionStep ==
    ASSUME PipelineInv, NEW o \in DOMAIN OptionValues, NEW v \in OptionValues[o], Option(o, v)
    PROVE  PipelineInv'
<1>1. option' \in CommandLine
  <2>1. [Defaults EXCEPT ![o] = v] \in CommandLine /\ Defaults \in CommandLine /\ o \in DOMAIN Defaults
    BY OptionsAssumption, DefaultsAssumption
  <2>2. option \in CommandLine /\ option' = [option EXCEPT ![o] = v]
    BY DEF PipelineInv, Typed, Option
  <2>3. o \in {"cpu_type", "queries_size", "dataset_size", "l_size", "k_size", "max_candidate_size",
               "data_dimensionality", "LSH_dimensionality"}
    BY <2>1 DEF CommandLine
  <2>4. CASE o = "cpu_type"
    BY <2>1, <2>2, <2>4 DEF CommandLine
  <2>5. CASE o = "queries_size"
    BY <2>1, <2>2, <2>5 DEF CommandLine
  <2>6. CASE o = "dataset_size"
    BY <2>1, <2>2, <2>6 DEF CommandLine
  <2>7. CASE o = "l_size"
    BY <2>1, <2>2, <2>7 DEF CommandLine
  <2>8. CASE o = "k_size"
    BY <2>1, <2>2, <2>8 DEF CommandLine
  <2>9. CASE o = "max_candidate_size"
    BY <2>1, <2>2, <2>9 DEF CommandLine
  <2>10. CASE o = "data_dimensionality"
    BY <2>1, <2>2, <2>10 DEF CommandLine
  <2>11. CASE o = "LSH_dimensionality"
    BY <2>1, <2>2, <2>11 DEF CommandLine
  <2> QED
    BY <2>3, <2>4, <2>5, <2>6, <2>7, <2>8, <2>9, <2>10, <2>11
<1>2. /\ pc' = "options" /\ pc = "options" /\ parsed' \in 0 .. MaxOptions
      /\ UNCHANGED <<num_thread, mask, settings_dimensionality, dataset_size, range_queue_result,
                     q_loaded, nodes, retrived_data_num>>
  BY MaxOptionsAssumption DEF PipelineInv, Typed, Option, parameters
<1>3. option'.LSH_dimensionality \in Nat /\ option'.data_dimensionality \in Nat
  BY <1>1, OptionTypes
<1>4. settings_dimensionality = 0 /\ dataset_size = 0 /\ range_queue_result = <<>>
  BY <1>2 DEF PipelineInv, Unmade
<1>5. Typed'
  BY <1>1, <1>2, <1>3, <1>4 DEF PipelineInv, Typed, Stages
<1>6. Unmade'
  BY <1>2 DEF PipelineInv, Unmade
<1>7. Held'
  <2>1. 0 * option'.data_dimensionality = 0 /\ Len(DataFile) \in Nat
    BY <1>3, FilesAssumption
  <2> QED
    BY <1>2, <1>4, <2>1 DEF Held, Asked, data_dimensionality
<1>8. retrived_data_num' = 0
  BY <1>2 DEF PipelineInv, Counted
<1> QED
  BY <1>2, <1>5, <1>6, <1>7, <1>8, Unanswered

LEMMA UnknownOptionStep == ASSUME PipelineInv, UnknownOption PROVE PipelineInv'
<1>1. /\ pc' \in {"exit", "trap"} /\ parsed' \in 0 .. MaxOptions
      /\ UNCHANGED <<option, num_thread, mask, settings_dimensionality, dataset_size,
                     range_queue_result, nodes>>
      /\ q_loaded' \in Nat /\ retrived_data_num' \in Nat
  BY MaxOptionsAssumption DEF PipelineInv, Typed, UnknownOption, parameters
<1> QED
  BY <1>1, Stopped

\* A mask that names CPUs names one for each thread.
LEMMA MaskSize ==
    ASSUME NEW t \in Nat, Mask(t) # {}
    PROVE  Cardinality(Mask(t)) = NumThread(t)
<1>1. PICK n \in Nat : n = NumThread(t)
  BY DEF NumThread, OneCpu, TwoCpus
<1>2. IsFiniteSet(0 .. n - 1) /\ Cardinality(0 .. n - 1) = n
  BY FS_Interval
<1>3. CASE t \in OneCpu
  <2> DEFINE T == {2 * c : c \in 0 .. n - 1}
             f == [c \in 0 .. n - 1 |-> 2 * c]
  <2>1. Mask(t) = T
    <3>1. Mask(t) = {2 * c : c \in 0 .. NumThread(t) - 1}
      <4>1. t \notin TwoCpus
        BY <1>3 DEF OneCpu, TwoCpus
      <4> QED
        BY <1>3, <4>1 DEF Mask
    <3> QED
      BY <1>1, <3>1
  <2>2. f \in [0 .. n - 1 -> T] /\ \A c, e \in 0 .. n - 1 : f[c] = f[e] => c = e
    OBVIOUS
  <2>3. \A x \in T : \E c \in 0 .. n - 1 : f[c] = x
    OBVIOUS
  <2> HIDE DEF T, f
  <2>4. f \in Bijection(0 .. n - 1, T)
    BY <2>2, <2>3 DEF Bijection, Injection, Surjection, IsInjective
  <2>5. Cardinality(T) = n
    BY <1>2, <2>4, FS_Bijection DEF ExistsBijection
  <2> QED
    BY <1>1, <2>1, <2>5
<1>4. CASE t \in TwoCpus /\ t \notin OneCpu
  BY <1>1, <1>2, <1>4 DEF Mask
<1>5. CASE t \notin TwoCpus /\ t \notin OneCpu
  BY <1>5 DEF Mask
<1> QED
  BY <1>3, <1>4, <1>5

LEMMA SetThreadsStep == ASSUME PipelineInv, SetThreads PROVE PipelineInv'
<1>0. /\ UNCHANGED <<option, parsed, dataset_size, range_queue_result, q_loaded, nodes, retrived_data_num>>
      /\ pc = "options"
  BY DEF SetThreads
<1>1. CASE Refused(option.cpu_type)
  <2>1. /\ pc' \in {"exit", "trap"} /\ parsed' \in 0 .. MaxOptions
        /\ UNCHANGED <<option, num_thread, mask, settings_dimensionality, dataset_size,
                       range_queue_result, nodes>>
        /\ q_loaded' \in Nat /\ retrived_data_num' \in Nat
    BY <1>0, <1>1 DEF PipelineInv, Typed, SetThreads, parameters
  <2> QED
    BY <2>1, Stopped
<1>2. CASE ~Refused(option.cpu_type)
  <2>1. option.cpu_type \in Nat
    BY <1>2, OptionTypes DEF PipelineInv, Typed, Refused
  <2>2. /\ num_thread' = NumThread(option.cpu_type) /\ mask' = Mask(option.cpu_type)
        /\ pc' = "settings" /\ UNCHANGED settings_dimensionality
    BY <1>2 DEF SetThreads
  <2>3. num_thread' \in Nat
    BY <2>1, <2>2 DEF NumThread, OneCpu, TwoCpus
  <2>4. mask' # {} => Cardinality(mask') = num_thread'
    BY <2>1, <2>2, MaskSize
  <2>5. Typed'
    BY <1>0, <2>2, <2>3, <2>4 DEF PipelineInv, Typed, Stages
  <2>6. Unmade'
    BY <1>0, <2>2 DEF PipelineInv, Unmade
  <2>7. Held'
    BY <1>0, <2>2 DEF PipelineInv, Held, Asked, data_dimensionality
  <2>8. retrived_data_num' = 0
    BY <1>0 DEF PipelineInv, Counted
  <2> QED
    BY <2>2, <2>5, <2>6, <2>7, <2>8, Unanswered
<1> QED
  BY <1>1, <1>2

LEMMA InitSettingsStep == ASSUME PipelineInv, InitSettings PROVE PipelineInv'
<1>0. /\ UNCHANGED <<option, parsed, num_thread, mask, dataset_size, range_queue_result, q_loaded, nodes, retrived_data_num>>
      /\ pc = "settings"
  BY DEF InitSettings
<1>1. CASE SettingsRefused(option.LSH_dimensionality)
  <2>1. /\ pc' \in {"exit", "trap"} /\ parsed' \in 0 .. MaxOptions
        /\ UNCHANGED <<option, num_thread, mask, settings_dimensionality, dataset_size,
                       range_queue_result, nodes>>
        /\ q_loaded' \in Nat /\ retrived_data_num' \in Nat
    BY <1>0, <1>1 DEF PipelineInv, Typed, InitSettings
  <2> QED
    BY <2>1, Stopped
<1>2. CASE ~SettingsRefused(option.LSH_dimensionality)
  <2>1. option.LSH_dimensionality \in Nat /\ data_dimensionality \in Nat
    BY OptionTypes DEF PipelineInv, Typed, data_dimensionality
  <2>2. /\ pc' = "load"
        /\ settings_dimensionality' = SettingsDimensionality(option.LSH_dimensionality, data_dimensionality)
    BY <1>2 DEF InitSettings
  <2>3. settings_dimensionality' \in Nat /\ settings_dimensionality' <= option.LSH_dimensionality
    BY <2>1, <2>2 DEF SettingsDimensionality
  <2>5. Typed'
    BY <1>0, <2>2, <2>3 DEF PipelineInv, Typed, Stages
  <2>6. Unmade'
    BY <1>0, <2>2 DEF PipelineInv, Unmade
  <2>7. Held'
    BY <1>0, <2>2 DEF PipelineInv, Held, Asked, data_dimensionality
  <2>8. retrived_data_num' = 0
    BY <1>0 DEF PipelineInv, Counted
  <2> QED
    BY <2>2, <2>5, <2>6, <2>7, <2>8, Unanswered
<1> QED
  BY <1>1, <1>2

\* What is not refused lies in the file.
LEMMA Fits ==
    ASSUME NEW len \in Nat, NEW e \in Nat \ {0}, NEW n \in Int, ~Fewer(len \div e, n)
    PROVE  n \in Nat /\ n * e <= len
<1> PICK x : x = len \div e
  OBVIOUS
<1>1. x \in Nat /\ x * e <= len
  BY ONLY x = len \div e, len \in Nat, e \in Nat \ {0}, Quotients
<1>2. n \in Nat /\ n <= x
  BY <1>1 DEF Fewer
<1>3. n * e \in Nat /\ x * e \in Nat /\ n * e <= x * e
  BY <1>1, <1>2, Grows
<1> QED
  BY <1>1, <1>2, <1>3

LEMMA LoadDataStep == ASSUME PipelineInv, LoadData PROVE PipelineInv'
<1>0. /\ UNCHANGED <<option, parsed, num_thread, mask, settings_dimensionality,
                     range_queue_result, q_loaded, nodes, retrived_data_num>>
      /\ pc = "load"
  BY DEF LoadData, parameters
<1> DEFINE n == option.dataset_size - HeldOut
           Short == data_dimensionality = 0 \/ Fewer(Len(DataFile) \div data_dimensionality, n)
<1>1. CASE Short
  <2>1. pc' \in {"exit", "trap"} /\ UNCHANGED dataset_size
    BY <1>1 DEF LoadData
  <2>2. /\ parsed' \in 0 .. MaxOptions /\ q_loaded' \in Nat /\ retrived_data_num' \in Nat
    BY <1>0 DEF PipelineInv, Typed
  <2> QED
    BY <1>0, <2>1, <2>2, Stopped
<1>2. CASE ~Short
  <2>1. data_dimensionality \in Nat \ {0} /\ n \in Int /\ Len(DataFile) \in Nat
    BY <1>2, OptionTypes, HeldOutAssumption, FilesAssumption DEF PipelineInv, Typed, data_dimensionality
  <2>2. pc' = "index" /\ dataset_size' = n
    BY <1>2 DEF LoadData
  <2>3. n \in Nat /\ n * data_dimensionality <= Len(DataFile)
    BY <1>2, <2>1, Fits
  <2> HIDE DEF n
  <2>5. Typed'
    BY <1>0, <2>2, <2>3 DEF PipelineInv, Typed, Stages
  <2>6. Unmade'
    BY <1>0, <2>2 DEF PipelineInv, Unmade
  <2>7. Held'
    <3>1. data_dimensionality' = data_dimensionality
      BY <1>0 DEF data_dimensionality
    <3>2. range_queue_result' = <<>>
      BY <1>0 DEF PipelineInv, Unmade
    <3> QED
      BY <2>1, <2>2, <2>3, <3>1, <3>2 DEF Held, Asked
  <2>8. retrived_data_num' = 0
    BY <1>0 DEF PipelineInv, Counted
  <2> QED
    BY <2>2, <2>5, <2>6, <2>7, <2>8, Unanswered
<1> QED
  BY <1>1, <1>2

LEMMA BuildTreeStep == ASSUME PipelineInv, BuildTree PROVE PipelineInv'
<1>0. /\ UNCHANGED <<option, parsed, num_thread, mask, settings_dimensionality, dataset_size,
                     range_queue_result, q_loaded, nodes, retrived_data_num>>
      /\ pc = "index" /\ pc' \in {"trap", "index", "queries"}
  BY DEF BuildTree, parameters
<1>1. CASE pc' = "trap"
  <2>1. /\ parsed' \in 0 .. MaxOptions /\ q_loaded' \in Nat /\ retrived_data_num' \in Nat
    BY <1>0 DEF PipelineInv, Typed
  <2> QED
    BY <1>0, <1>1, <2>1, Stopped
<1>2. CASE pc' # "trap"
  <2>1. Typed'
    BY <1>0, <1>2 DEF PipelineInv, Typed, Stages
  <2>2. Unmade'
    BY <1>0, <1>2 DEF PipelineInv, Unmade
  <2>3. Held'
    BY <1>0, <1>2 DEF PipelineInv, Held, Asked, data_dimensionality
  <2>4. retrived_data_num' = 0
    BY <1>0 DEF PipelineInv, Counted
  <2> QED
    BY <1>0, <1>2, <2>1, <2>2, <2>3, <2>4, Unanswered
<1> QED
  BY <1>1, <1>2

LEMMA FileMissingStep == ASSUME PipelineInv, FileMissing PROVE PipelineInv'
<1>1. /\ pc' \in {"exit", "trap"} /\ parsed' \in 0 .. MaxOptions
      /\ UNCHANGED <<option, num_thread, mask, settings_dimensionality, dataset_size,
                     range_queue_result, nodes>>
      /\ q_loaded' \in Nat /\ retrived_data_num' \in Nat
  BY DEF PipelineInv, Typed, FileMissing, parameters
<1> QED
  BY <1>1, Stopped

LEMMA LoadQueriesStep == ASSUME PipelineInv, LoadQueries PROVE PipelineInv'
<1>0. /\ UNCHANGED <<option, parsed, num_thread, mask, settings_dimensionality, dataset_size,
                     q_loaded, nodes, retrived_data_num>>
      /\ pc = "queries"
  BY DEF LoadQueries, parameters
<1>1. CASE Fewer(Len(QueryFile) \div data_dimensionality, option.queries_size)
  <2>1. pc' \in {"exit", "trap"} /\ UNCHANGED range_queue_result
    BY <1>1 DEF LoadQueries
  <2>2. /\ parsed' \in 0 .. MaxOptions /\ q_loaded' \in Nat /\ retrived_data_num' \in Nat
    BY <1>0 DEF PipelineInv, Typed
  <2> QED
    BY <1>0, <2>1, <2>2, Stopped
<1>2. CASE ~Fewer(Len(QueryFile) \div data_dimensionality, option.queries_size)
  <2>1. data_dimensionality \in Nat \ {0} /\ option.queries_size \in Int /\ Len(QueryFile) \in Nat
    <3>1. data_dimensionality \in Nat /\ option.queries_size \in Int
      BY OptionTypes DEF PipelineInv, Typed, data_dimensionality
    <3>2. data_dimensionality # 0
      BY <1>0 DEF PipelineInv, Held
    <3> QED
      BY <3>1, <3>2, FilesAssumption
  <2>2. option.queries_size \in Nat /\ option.queries_size * data_dimensionality <= Len(QueryFile)
    BY <1>2, <2>1, Fits
  <2>3. pc' = IF option.queries_size = 0 THEN "report" ELSE "range"
    BY <1>2 DEF LoadQueries
  <2>4. nodes' = <<>> /\ q_loaded' = 0 /\ retrived_data_num' = 0
    BY <1>0 DEF PipelineInv, Unmade, Counted
  <2>5. Typed'
    BY <1>0, <2>3 DEF PipelineInv, Typed, Stages
  <2>6. Unmade'
    BY <1>0, <2>3, <2>4 DEF PipelineInv, Unmade
  <2>7. Held'
    <3>1. data_dimensionality' = data_dimensionality
      BY <1>0 DEF data_dimensionality
    <3> QED
      BY <1>0, <2>1, <2>2, <2>3, <3>1 DEF PipelineInv, Held
  <2>8. AtQuery'
    BY <1>0, <2>2, <2>3, <2>4 DEF AtQuery
  <2>9. Chosen' /\ Answered' /\ Aligned' /\ Counted'
    BY <2>3, <2>4 DEF Chosen, Answered, Aligned, Counted
  <2> QED
    BY <2>5, <2>6, <2>7, <2>8, <2>9 DEF PipelineInv
<1> QED
  BY <1>1, <1>2

LEMMA RangeQueryStep == ASSUME PipelineInv, RangeQuery PROVE PipelineInv'
<1>0. /\ UNCHANGED <<option, parsed, num_thread, mask, settings_dimensionality, dataset_size,
                     nodes, retrived_data_num>>
      /\ pc = "range" /\ pc' \in {"range", "candidates"}
  BY DEF RangeQuery, parameters
<1>1. nodes' = <<>> /\ retrived_data_num' = 0 /\ q_loaded < option.queries_size
  BY <1>0 DEF PipelineInv, Unmade, Counted, AtQuery
<1>2. q_loaded \in Nat /\ option.queries_size \in Nat
  BY <1>0 DEF PipelineInv, Typed, Held, Asked
<1>3. q_loaded' \in Nat /\ q_loaded' < option.queries_size /\ (pc' = "candidates" => q_loaded' = 0)
  BY <1>0, <1>1, <1>2 DEF RangeQuery
<1>4. Typed'
  BY <1>0, <1>3 DEF PipelineInv, Typed, Stages
<1>5. Unmade'
  BY <1>0, <1>1 DEF Unmade
<1>6. Held'
  BY <1>0 DEF PipelineInv, Held, Asked, data_dimensionality
<1>7. AtQuery'
  BY <1>0, <1>1, <1>3 DEF AtQuery
<1>8. Chosen' /\ Answered' /\ Aligned' /\ Counted'
  BY <1>0, <1>1 DEF Chosen, Answered, Aligned, Counted
<1> QED
  BY <1>4, <1>5, <1>6, <1>7, <1>8 DEF PipelineInv

LEMMA CandidatesStep == ASSUME PipelineInv, Candidates PROVE PipelineInv'
<1>0. /\ UNCHANGED <<option, parsed, num_thread, mask, settings_dimensionality, dataset_size,
                     range_queue_result, q_loaded, nodes, retrived_data_num>>
      /\ pc = "candidates"
  BY DEF Candidates, parameters
<1>1. PICK c \in IF num_thread = 1 THEN Nearest(q_loaded) ELSE SUBSET PointsIn(Found(q_loaded)) :
          /\ candidates' = c
          /\ pc' = IF Cardinality(c) > option.max_candidate_size THEN "trap" ELSE "rank"
  BY DEF Candidates
<1>2. Typed /\ data_dimensionality # 0
  BY <1>0 DEF PipelineInv, Held, Asked
<1>3. CASE Cardinality(c) > option.max_candidate_size
  <2>1. /\ parsed' \in 0 .. MaxOptions /\ q_loaded' \in Nat /\ retrived_data_num' \in Nat
    BY <1>0 DEF PipelineInv, Typed
  <2> QED
    BY <1>0, <1>1, <1>3, <2>1, Stopped
<1>4. CASE ~(Cardinality(c) > option.max_candidate_size)
  <2>1. pc' = "rank"
    BY <1>1, <1>4
  <2>2. num_thread = 1 => Filled(q_loaded, c)
    BY <1>1, <1>2, NearestFilled
  <2>3. c \subseteq Within(q_loaded)
    BY <1>1, <1>2, <2>2, PointsFound DEF Filled
  <2>4. c \subseteq Points /\ IsFiniteSet(c) /\ Cardinality(c) \in Nat
    BY <1>2, <2>3, WithinFacts, FS_Subset, FS_CardinalityType
  <2>5. Cardinality(c) <= option.max_candidate_size
    <3>1. option.max_candidate_size \in Nat
      BY OptionTypes DEF PipelineInv, Typed
    <3> QED
      BY <1>4, <2>4, <3>1
  <2>6. Chosen'
    BY <1>0, <1>1, <2>2, <2>4, <2>5, Settled DEF Chosen
  <2>7. Typed'
    BY <1>0, <2>1 DEF PipelineInv, Typed, Stages
  <2>8. Unmade' /\ AtQuery' /\ Aligned' /\ Counted'
    BY <1>0, <2>1 DEF PipelineInv, Unmade, AtQuery, Aligned, Counted
  <2>9. Held'
    BY <1>0, <2>1, Settled DEF PipelineInv, Held, Asked
  <2>10. Answered'
    BY <1>0, Settled DEF PipelineInv, Answered
  <2> QED
    BY <2>6, <2>7, <2>8, <2>9, <2>10 DEF PipelineInv
<1> QED
  BY <1>3, <1>4

LEMMA RankStep == ASSUME PipelineInv, Rank PROVE PipelineInv'
<1>0. /\ UNCHANGED <<option, parsed, num_thread, mask, settings_dimensionality, dataset_size,
                     range_queue_result, retrived_data_num>>
      /\ pc = "rank"
  BY DEF Rank, parameters
<1>1. PICK n : n = Cardinality(candidates)
  OBVIOUS
<1>2. PICK s \in [1 .. n -> candidates] :
          /\ \A a, b \in 1 .. n : a < b => /\ s[a] # s[b]
                                           /\ a <= Sorted(n) => Dist(q_loaded, s[a]) <= Dist(q_loaded, s[b])
          /\ nodes' = Append(nodes, s)
  <2> DEFINE dist == [p \in candidates |-> Dist(q_loaded, p)]
  <2>1. PICK s \in {f \in [1 .. n -> candidates] :
                     \A a, b \in 1 .. n : a < b => /\ f[a] # f[b]
                                                   /\ a <= Sorted(n) => dist[f[a]] <= dist[f[b]]} :
            nodes' = Append(nodes, s)
    BY <1>1 DEF Rank
  <2>2. s \in [1 .. n -> candidates]
    BY <2>1
  <2>3. \A a \in 1 .. n : s[a] \in candidates /\ dist[s[a]] = Dist(q_loaded, s[a])
    BY <2>2
  <2> QED
    BY <2>1, <2>2, <2>3
<1>3. Ranked(q_loaded, s) /\ s \in Seq(Nat)
  BY <1>0, <1>1, <1>2, RankedAnswer DEF PipelineInv
<1>4. /\ nodes \in Seq(Seq(Nat)) /\ Len(nodes) = q_loaded /\ q_loaded \in Nat
      /\ q_loaded < option.queries_size /\ option.queries_size \in Nat
  BY <1>0 DEF PipelineInv, Typed, AtQuery, Held, Asked
<1>5. /\ nodes' \in Seq(Seq(Nat)) /\ Len(nodes') = q_loaded + 1 /\ DOMAIN nodes' = 1 .. q_loaded + 1
      /\ DOMAIN nodes = 1 .. q_loaded
      /\ \A q \in 1 .. q_loaded : nodes'[q] = nodes[q]
      /\ nodes'[q_loaded + 1] = s
  BY <1>2, <1>3, <1>4
<1>6. Answered'
  <2> SUFFICES ASSUME NEW q \in 1 .. q_loaded + 1 PROVE Ranked(q - 1, nodes'[q])
    BY <1>0, <1>5, Settled DEF Answered
  <2>1. CASE q = q_loaded + 1
    BY <1>3, <1>4, <1>5, <2>1
  <2>2. CASE q # q_loaded + 1
    <3>1. q \in 1 .. q_loaded
      BY <1>4, <2>2
    <3> QED
      BY <1>5, <3>1 DEF PipelineInv, Answered
  <2> QED
    BY <2>1, <2>2
<1>7. \/ q_loaded + 1 < option.queries_size /\ q_loaded' = q_loaded + 1 /\ pc' = "candidates"
      \/ q_loaded + 1 = option.queries_size /\ q_loaded' = 0 /\ pc' = "report"
  BY <1>4 DEF Rank
<1>8. Typed'
  BY <1>0, <1>4, <1>5, <1>7 DEF PipelineInv, Typed, Stages
<1>9. Unmade' /\ Chosen' /\ Aligned'
  BY <1>7 DEF Unmade, Chosen, Aligned
<1>10. AtQuery'
  BY <1>0, <1>5, <1>7 DEF AtQuery
<1>11. Held'
  BY <1>0, <1>7, Settled DEF PipelineInv, Held, Asked
<1>12. Counted'
  BY <1>0, <1>7 DEF PipelineInv, Counted
<1> QED
  BY <1>6, <1>8, <1>9, <1>10, <1>11, <1>12 DEF PipelineInv

LEMMA ReportStep == ASSUME PipelineInv, Report PROVE PipelineInv'
<1>0. /\ UNCHANGED <<option, parsed, num_thread, mask, settings_dimensionality, dataset_size,
                     range_queue_result, q_loaded, nodes, retrived_data_num>>
      /\ pc = "report" /\ pc' = IF option.queries_size = 0 THEN "trap" ELSE "groundtruth"
  BY DEF Report, parameters
<1>1. CASE option.queries_size = 0
  <2>1. /\ parsed' \in 0 .. MaxOptions /\ q_loaded' \in Nat /\ retrived_data_num' \in Nat
    BY <1>0 DEF PipelineInv, Typed
  <2> QED
    BY <1>0, <1>1, <2>1, Stopped
<1>2. CASE option.queries_size # 0
  <2>1. pc' = "groundtruth"
    BY <1>0, <1>2
  <2>2. Typed'
    BY <1>0, <2>1 DEF PipelineInv, Typed, Stages
  <2>3. Unmade' /\ AtQuery' /\ Chosen' /\ Aligned' /\ Counted'
    BY <1>0, <2>1 DEF PipelineInv, Unmade, AtQuery, Chosen, Aligned, Counted
  <2>4. Held'
    BY <1>0, <1>2, <2>1, Settled DEF PipelineInv, Held, Asked
  <2>5. Answered'
    BY <1>0, Settled DEF PipelineInv, Answered
  <2> QED
    BY <2>2, <2>3, <2>4, <2>5 DEF PipelineInv
<1> QED
  BY <1>1, <1>2

\* The place of a number in rows of k.
LEMMA Rows ==
    ASSUME NEW k \in Nat \ {0}, NEW q \in Nat, NEW m \in Nat, q < m, NEW j \in 1 .. k
    PROVE  LET n == q * k + j - 1
           IN  n < m * k /\ n \div k = q /\ (n % k) + 1 = j
<1> PICK u \in Nat : u = q * k
  BY Grows
<1> PICK n \in Nat : n = u + j - 1
  OBVIOUS
<1>1. n < m * k
  <2>1. (q + 1) * k <= m * k /\ (q + 1) * k = q * k + k /\ m * k \in Nat
    BY Grows, NextMultiple
  <2> PICK v \in Nat : v = m * k
    BY <2>1
  <2> QED
    BY <2>1
<1> PICK x : x = n \div k
  OBVIOUS
<1>2. x \in Nat /\ x * k <= n /\ n < x * k + k
  BY ONLY n \in Nat, x = n \div k, k \in Nat \ {0}, Quotients
<1>3. ~(x < q)
  <2> SUFFICES ASSUME x < q PROVE FALSE
    OBVIOUS
  <2>1. (x + 1) * k <= q * k /\ (x + 1) * k = x * k + k
    BY <1>2, Grows, NextMultiple
  <2> PICK w : w = x * k
    OBVIOUS
  <2>2. w \in Nat /\ w + k <= u /\ n < w + k
    BY <1>2, <2>1, Grows
  <2> QED
    BY <2>2
<1>4. ~(q < x)
  <2> SUFFICES ASSUME q < x PROVE FALSE
    OBVIOUS
  <2>1. (q + 1) * k <= x * k /\ (q + 1) * k = q * k + k
    BY <1>2, Grows, NextMultiple
  <2> PICK w : w = x * k
    OBVIOUS
  <2>2. w \in Nat /\ u + k <= w /\ w <= n
    BY <1>2, <2>1, Grows
  <2> QED
    BY <2>2
<1>5. n \div k = q
  BY <1>2, <1>3, <1>4
<1>6. n % k = n - (n \div k) * k
  BY SMT
<1>7. (n % k) + 1 = j
  BY <1>5, <1>6
<1> QED
  BY <1>1, <1>5, <1>7

LEMMA LoadGroundTruthStep == ASSUME PipelineInv, LoadGroundTruth PROVE PipelineInv'
<1>0. /\ UNCHANGED <<option, parsed, num_thread, mask, settings_dimensionality, dataset_size,
                     range_queue_result, q_loaded, nodes, retrived_data_num>>
      /\ pc = "groundtruth" /\ pc' = "recall"
  BY DEF LoadGroundTruth, parameters
<1>1. /\ option.queries_size \in Nat /\ option.queries_size # 0 /\ k_size \in Nat
      /\ q_loaded = 0 /\ retrived_data_num = 0
  BY <1>0, OptionTypes DEF PipelineInv, Typed, Held, Asked, AtQuery, Counted, k_size
<1>2. Typed'
  BY <1>0 DEF PipelineInv, Typed, Stages
<1>3. Unmade' /\ AtQuery' /\ Chosen'
  BY <1>0, <1>1 DEF PipelineInv, Unmade, AtQuery, Chosen
<1>4. Held'
  BY <1>0, Settled DEF PipelineInv, Held, Asked
<1>5. Answered'
  BY <1>0, Settled DEF PipelineInv, Answered
<1>6. Counted'
  <2>1. k_size' = k_size /\ 0 * k_size = 0
    BY <1>0, <1>1, Settled
  <2> QED
    BY <1>0, <1>1, <2>1 DEF Counted
<1>7. ASSUME k_size = Listed, NEW q \in Queries PROVE groundtruth_result'[q] \in Neighbours(q)
  <2>1. PICK row :
          /\ \A e \in Queries : row[e] \in Neighbours(e)
          /\ groundtruth_result' =
                 [e \in Queries |-> [j \in 1 .. k_size |->
                     LET n == e * k_size + j - 1 IN
                     IF n < option.queries_size * Listed
                     THEN row[n \div Listed][(n % Listed) + 1]
                     ELSE Uninit]]
    BY DEF LoadGroundTruth
  <2>2. row[q] \in [1 .. k_size -> Points] /\ row[q] \in Neighbours(q)
    BY <1>7, <2>1 DEF Neighbours
  <2>3. q \in Nat /\ q < option.queries_size
    BY <1>1 DEF Queries
  <2>4. ASSUME NEW j \in 1 .. k_size
        PROVE  LET n == q * k_size + j - 1
               IN  n < option.queries_size * k_size /\ n \div k_size = q /\ (n % k_size) + 1 = j
    <3>1. k_size \in Nat \ {0}
      BY <1>1
    <3> QED
      BY <1>1, <2>3, <3>1, Rows
  <2>5. ASSUME NEW j \in 1 .. k_size PROVE groundtruth_result'[q][j] = row[q][j]
    BY <1>7, <2>1, <2>4
  <2>6. /\ DOMAIN groundtruth_result'[q] = 1 .. k_size
        /\ groundtruth_result'[q] = [j \in 1 .. k_size |-> groundtruth_result'[q][j]]
    BY <2>1
  <2>7. groundtruth_result'[q] = row[q]
    BY <2>2, <2>5, <2>6
  <2> QED
    BY <2>2, <2>7
<1>8. Aligned'
  BY <1>0, <1>7, Settled DEF Aligned
<1> QED
  BY <1>2, <1>3, <1>4, <1>5, <1>6, <1>8 DEF PipelineInv

LEMMA RecallStep == ASSUME PipelineInv, Recall PROVE PipelineInv'
<1>0. /\ UNCHANGED <<option, parsed, num_thread, mask, settings_dimensionality, dataset_size,
                     range_queue_result, nodes, groundtruth_result>>
      /\ pc = "recall"
  BY DEF Recall, parameters
<1>1. /\ option.queries_size \in Nat /\ k_size \in Nat /\ q_loaded \in Nat /\ retrived_data_num \in Nat
      /\ q_loaded < option.queries_size /\ q_loaded \in Queries
      /\ Len(nodes) = option.queries_size /\ nodes \in Seq(Seq(Nat))
  BY <1>0, OptionTypes DEF PipelineInv, Typed, Held, Asked, AtQuery, k_size, Queries
<1>2. PICK n \in 0 .. Cardinality(Doubtful(q_loaded)) :
          retrived_data_num' = retrived_data_num + Cardinality(Hits(q_loaded)) + n
  BY DEF Recall
<1>3. PICK hits : hits = Cardinality(Hits(q_loaded))
  OBVIOUS
<1>4. /\ hits \in Nat /\ n \in Nat /\ hits + n <= k_size
      /\ Cardinality(Doubtful(q_loaded)) \in Nat
  BY <1>1, <1>2, <1>3, HitsBounded
<1>5. PICK so_far \in Nat : so_far = q_loaded * k_size
  BY <1>1, Grows
<1>6. (q_loaded + 1) * k_size = so_far + k_size
  BY <1>1, <1>5, NextMultiple
<1>7. /\ retrived_data_num' \in Nat
      /\ retrived_data_num' <= (q_loaded + 1) * k_size
  BY <1>0, <1>1, <1>2, <1>3, <1>4, <1>5, <1>6, SMTT(30) DEF PipelineInv, Counted
<1>8. ASSUME Attainable PROVE retrived_data_num' = (q_loaded + 1) * k_size
  <2>1. num_thread = 1 /\ k_size = Listed /\ Reachable(q_loaded)
    BY <1>1, <1>8 DEF Attainable
  <2>2. q_loaded + 1 \in DOMAIN nodes /\ (q_loaded + 1) - 1 = q_loaded
    BY <1>1
  <2>3. Ranked(q_loaded, nodes[q_loaded + 1])
    <3>1. Ranked((q_loaded + 1) - 1, nodes[q_loaded + 1])
      BY <2>2 DEF PipelineInv, Answered
    <3> QED
      BY <2>2, <3>1
  <2>4. groundtruth_result[q_loaded] \in Neighbours(q_loaded)
    BY <1>0, <1>1, <2>1 DEF PipelineInv, Aligned
  <2>5. Typed /\ Held /\ pc \in Asked
    BY <1>0 DEF PipelineInv, Asked
  <2>6. Hits(q_loaded) = 1 .. k_size /\ Doubtful(q_loaded) = {}
    BY <1>1, <2>1, <2>2, <2>3, <2>4, <2>5, AllHits
  <2>7. hits = k_size /\ n = 0
    <3>1. Cardinality(1 .. k_size) = k_size
      BY <1>1, OneTo
    <3>2. Cardinality(Doubtful(q_loaded)) = 0
      BY <2>6, FS_EmptySet
    <3> QED
      BY <1>2, <1>3, <2>6, <3>1, <3>2
  <2>8. retrived_data_num = q_loaded * k_size
    BY <1>0, <1>8 DEF PipelineInv, Counted
  <2> QED
    BY <1>1, <1>2, <1>3, <1>5, <1>6, <2>7, <2>8
<1>9. \/ q_loaded + 1 < option.queries_size /\ q_loaded' = q_loaded + 1 /\ pc' = "recall"
      \/ q_loaded + 1 = option.queries_size /\ q_loaded' = 0 /\ pc' \in {"end", "trap"}
  BY <1>0 DEF Recall
<1>10. q_loaded' \in Nat
  BY <1>1, <1>9
<1>11. CASE pc' = "trap"
  <2>1. parsed' \in 0 .. MaxOptions
    BY <1>0 DEF PipelineInv, Typed
  <2> QED
    BY <1>0, <1>7, <1>10, <1>11, <2>1, Stopped
<1>12. CASE pc' # "trap"
  <2>1. pc' \in {"recall", "end"}
    BY <1>9, <1>12
  <2>2. Typed'
    BY <1>0, <1>7, <1>10, <2>1 DEF PipelineInv, Typed, Stages
  <2>3. Unmade' /\ AtQuery' /\ Chosen'
    BY <1>0, <1>1, <1>9, <2>1 DEF PipelineInv, Unmade, AtQuery, Chosen
  <2>4. Held'
    BY <1>0, <2>1, Settled DEF PipelineInv, Held, Asked
  <2>5. Answered'
    BY <1>0, Settled DEF PipelineInv, Answered
  <2>6. Aligned'
    <3>1. k_size = Listed => \A q \in Queries : groundtruth_result[q] \in Neighbours(q)
      BY <1>0 DEF PipelineInv, Aligned
    <3> QED
      BY <1>0, <3>1, Settled DEF Aligned
  <2>7. Counted'
    <3>1. k_size' = k_size /\ Attainable' = Attainable
      BY <1>0, Settled
    <3>2. option'.queries_size = option.queries_size
      BY <1>0
    <3> QED
      BY <1>7, <1>8, <1>9, <2>1, <3>1, <3>2 DEF Counted
  <2> QED
    BY <2>2, <2>3, <2>4, <2>5, <2>6, <2>7 DEF PipelineInv
<1> QED
  BY <1>11, <1>12

LEMMA Stutter == ASSUME PipelineInv, UNCHANGED vars PROVE PipelineInv'
<1>0. UNCHANGED <<pc, option, parsed, num_thread, mask, settings_dimensionality, dataset_size,
                  range_queue_result, q_loaded, candidates, nodes, groundtruth_result, retrived_data_num>>
  BY DEF vars, parameters
<1>1. Typed' /\ Unmade' /\ AtQuery'
  BY <1>0 DEF PipelineInv, Typed, Unmade, AtQuery
<1>2. Held' /\ Chosen' /\ Answered' /\ Counted'
  BY <1>0, Settled DEF PipelineInv, Held, Chosen, Answered, Counted
<1>3. Aligned'
  BY <1>0, Settled DEF PipelineInv, Aligned
<1> QED
  BY <1>1, <1>2, <1>3 DEF PipelineInv

LEMMA PipelineNext == PipelineInv /\ [Next]_vars => PipelineInv'
<1> SUFFICES ASSUME PipelineInv, [Next]_vars PROVE PipelineInv'
  OBVIOUS
<1>1. ASSUME NEW o \in DOMAIN OptionValues, NEW v \in OptionValues[o], Option(o, v) PROVE PipelineInv'
  BY <1>1, OptionStep
<1>2. CASE UnknownOption
  BY <1>2, UnknownOptionStep
<1>3. CASE SetThreads
  BY <1>3, SetThreadsStep
<1>4. CASE InitSettings
  BY <1>4, InitSettingsStep
<1>5. CASE LoadData
  BY <1>5, LoadDataStep
<1>6. CASE BuildTree
  BY <1>6, BuildTreeStep
<1>7. CASE FileMissing
  BY <1>7, FileMissingStep
<1>8. CASE LoadQueries
  BY <1>8, LoadQueriesStep
<1>9. CASE RangeQuery
  BY <1>9, RangeQueryStep
<1>10. CASE Candidates
  BY <1>10, CandidatesStep
<1>11. CASE Rank
  BY <1>11, RankStep
<1>12. CASE Report
  BY <1>12, ReportStep
<1>13. CASE LoadGroundTruth
  BY <1>13, LoadGroundTruthStep
<1>14. CASE Recall
  BY <1>14, RecallStep
<1>15. CASE UNCHANGED vars
  BY <1>15, Stutter
<1> QED
  BY <1>1, <1>2, <1>3, <1>4, <1>5, <1>6, <1>7, <1>8, <1>9, <1>10, <1>11, <1>12, <1>13, <1>14, <1>15
  DEF Next, Done

LEMMA PipelineAlways == Spec => []PipelineInv
  BY PipelineInit, PipelineNext, PTL DEF Spec

-----------------------------------------------------------------------------
(* What follows.                                                           *)

LEMMA InvTypes == PipelineInv => TypeOK
<1> SUFFICES ASSUME PipelineInv PROVE TypeOK
  OBVIOUS
<1>1. /\ data_dimensionality \in Nat /\ dataset_size \in Nat
      /\ Len(DataFile) \in Nat /\ Len(QueryFile) \in Nat
  BY OptionTypes, FilesAssumption DEF PipelineInv, Typed, data_dimensionality
<1>2. dataset_size * data_dimensionality \in 0 .. Len(DataFile)
  <2>1. dataset_size * data_dimensionality \in Nat
    BY <1>1, Grows
  <2> QED
    BY <1>1, <2>1 DEF PipelineInv, Held
<1>3. ASSUME range_queue_result # <<>>
      PROVE  option.queries_size * data_dimensionality \in 0 .. Len(QueryFile)
  <2>1. option.queries_size \in Nat /\ option.queries_size * data_dimensionality <= Len(QueryFile)
    BY <1>3 DEF PipelineInv, Held
  <2>2. option.queries_size * data_dimensionality \in Nat
    BY <1>1, <2>1, Grows
  <2> QED
    BY <1>1, <2>1, <2>2
<1>4. \A q \in DOMAIN nodes : Len(nodes[q]) <= option.max_candidate_size
  BY DEF PipelineInv, Answered, Ranked
<1>5. ASSUME pc \in {"recall", "end"}
      PROVE  retrived_data_num \in 0 .. option.queries_size * k_size
  <2>1. option.queries_size \in Nat /\ k_size \in Nat /\ q_loaded \in Nat /\ retrived_data_num \in Nat
    BY <1>5, OptionTypes DEF PipelineInv, Typed, Held, Asked, k_size
  <2>2. PICK all \in Nat : all = option.queries_size * k_size
    BY <2>1, Grows
  <2>3. CASE pc = "end"
    BY <2>1, <2>2, <2>3 DEF PipelineInv, Counted
  <2>4. CASE pc = "recall"
    <3>1. q_loaded <= option.queries_size
      BY <2>1, <2>4 DEF PipelineInv, AtQuery
    <3>2. q_loaded * k_size \in Nat /\ q_loaded * k_size <= option.queries_size * k_size
      BY <2>1, <3>1, Grows
    <3>3. retrived_data_num <= q_loaded * k_size
      BY <2>4 DEF PipelineInv, Counted
    <3> QED
      BY <2>1, <2>2, <3>2, <3>3
  <2> QED
    BY <1>5, <2>3, <2>4
<1> QED
  BY <1>2, <1>3, <1>4, <1>5 DEF PipelineInv, Typed, Stages, TypeOK

LEMMA InvAnswers == PipelineInv => AnswersExact
<1> SUFFICES ASSUME PipelineInv PROVE AnswersExact
  OBVIOUS
<1>1. KernelsExact
  <2> SUFFICES ASSUME pc = "rank", NEW p \in candidates
               PROVE  KernelsRight(QueryPoint(q_loaded), RawFile(p), data_dimensionality)
    BY DEF KernelsExact
  <2>1. Typed /\ Held /\ pc \in Asked /\ p \in Points
    BY DEF PipelineInv, Chosen, Asked
  <2>2. q_loaded \in Queries
    BY DEF PipelineInv, Typed, AtQuery, Held, Asked, Queries
  <2> QED
    BY <2>1, <2>2, DistancesTrue
<1>2. NearestReturned
  BY DEF NearestReturned, PipelineInv, Answered, Ranked
<1> QED
  BY <1>1, <1>2 DEF AnswersExact

LEMMA InvRecall == PipelineInv => RecallComplete
<1> SUFFICES ASSUME PipelineInv, pc = "end", num_thread = 1, k_size = Listed,
                    \A q \in Queries : Reachable(q)
             PROVE  retrived_data_num = option.queries_size * k_size
  BY DEF RecallComplete, Reachable, NeighbourSets, Within
<1> QED
  BY DEF PipelineInv, Counted, Attainable

\* The type invariant of main: a mask has a CPU for every thread, no vector is
\* read from outside its file whatever sizes the command line asks for, nodes[q]
\* stays within max_candidate_size points and the recall within 1.
THEOREM PipelineTypeCorrect == Spec => []TypeOK
  BY PipelineAlways, InvTypes, PTL

\* For every dimensionality and every number of threads: the kernel main ranks the
\* candidates with gives the squared distance, and the first k_size places of a
\* query's nodes are the nearest of its candidates, in order.
THEOREM AnswersAreExact == Spec => []AnswersExact
  BY PipelineAlways, InvAnswers, PTL

\* With one thread, leaves that hold all nearest neighbours of each query and no
\* more points than max_candidate_size, and a ground truth made for this k_size:
\* every neighbour is counted once, and main reports a recall of 1.
THEOREM RecallIsComplete == Spec => []RecallComplete
  BY PipelineAlways, InvRecall, PTL
=============================================================================
