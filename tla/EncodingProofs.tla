--------------------------- MODULE EncodingProofs ---------------------------
(***************************************************************************)
(* Theorems about encodings: how breakpoints are selected for them         *)
(* (Breakpoints), what distance they stand for (Encoding), and the tree    *)
(* that holds them (EncodingTree).                                         *)
(*                                                                         *)
(* The binary search of encoding brackets its value for every number of    *)
(* dimensions, every alphabet and every table of breakpoints. That the     *)
(* breakpoints may be out of order is why the usual argument, by which the *)
(* search drops lines that cannot matter, does not apply: the invariant    *)
(* speaks of the two lines next to the interval only. And pruning by       *)
(* query_to_node_dist is sound: the lines the search has compared are the  *)
(* ends of the regions of the symbol's prefixes.                           *)
(*                                                                         *)
(* The breakpoints come from breakpoints_selection. Its workers leave no   *)
(* gap, neither in the sample nor between the lines of a dimension; what   *)
(* nth_element does outside its contract costs the order of the lines, and *)
(* nothing else, as it can only rearrange.                                 *)
(*                                                                         *)
(* A subtree of the DE-Tree loses no record and hides none, for every      *)
(* number of segments and bits, every leaf size and any number of records. *)
(* The invariant follows the routes of words: every word has one leaf,     *)
(* a record is in the leaf of its word, the words on the route to a node   *)
(* agree in all bits that were split on above it, and the box of a node is *)
(* that of a word on its route.                                            *)
(***************************************************************************)
EXTENDS Encoding, Breakpoints, EncodingTree, InductionLemmas

\* The interval lies within the lines; the line before it is not above the
\* value and the line after it is.
SearchInterval ==
    k < LSHDimensionality =>
        /\ left \in 0 .. LastLine + 1
        /\ right \in -1 .. LastLine
        /\ left <= right + 1
        /\ left > 0 => bins[k][left - 1] <= lsh[k]
        /\ right < LastLine => lsh[k] < bins[k][right + 1]

SearchInv ==
    /\ bins \in [Dims -> [Lines -> Int]]
    /\ lsh \in [Dims -> Int]
    /\ k \in 0 .. LSHDimensionality
    /\ sax_out \in [Dims -> Int]
    /\ SearchInterval
    /\ SymbolBrackets

LEMMA SearchInit == EncodingInit => SearchInv
<1> SUFFICES ASSUME EncodingInit PROVE SearchInv
  OBVIOUS
<1>1. /\ bins \in [Dims -> [Lines -> Int]]
      /\ lsh \in [Dims -> Int]
      /\ sax_out \in [Dims -> Int]
  <2>1. bins \in [Dims -> [Lines -> Int]]
    BY TablesAssumption DEF EncodingInit
  <2>2. lsh \in [Dims -> Values]
    BY DEF EncodingInit
  <2>3. lsh \in [Dims -> Int]
    BY <2>2, ValuesAssumption
  <2>4. sax_out \in [Dims -> Int]
    BY DEF EncodingInit
  <2> QED
    BY <2>1, <2>3, <2>4
<1>2. k \in 0 .. LSHDimensionality
  BY DimensionalityAssumption DEF EncodingInit
<1>3. SearchInterval
  BY CardinalityAssumption DEF EncodingInit, SearchInterval, LastLine
<1>4. SymbolBrackets
  BY DimensionalityAssumption DEF EncodingInit, SymbolBrackets, Dims
<1> QED
  BY <1>1, <1>2, <1>3, <1>4 DEF SearchInv

\* Wherever the interval is not empty its middle is a line.
LEMMA MiddleIsLine ==
    ASSUME SearchInv, k < LSHDimensionality, left <= right
    PROVE  /\ k \in Dims
           /\ Middle \in Lines
           /\ left <= Middle /\ Middle <= right
<1>1. k \in Dims
  BY DimensionalityAssumption DEF SearchInv, Dims
<1>2. left \in 0 .. LastLine + 1 /\ right \in -1 .. LastLine
  BY DEF SearchInv, SearchInterval
<1>3. left <= Middle /\ Middle <= right
  BY <1>2, CardinalityAssumption DEF Middle, LastLine
<1> QED
  BY <1>1, <1>2, <1>3, CardinalityAssumption DEF Middle, Lines, LastLine

LEMMA SearchNext == SearchInv /\ [EncodingNext]_encodingVars => SearchInv'
<1> SUFFICES ASSUME SearchInv, [EncodingNext]_encodingVars PROVE SearchInv'
  OBVIOUS
<1>1. CASE Probe
  <2>1. /\ k \in Dims /\ Middle \in Lines
        /\ left <= Middle /\ Middle <= right
    BY <1>1, MiddleIsLine DEF Probe
  <2>2. /\ left \in 0 .. LastLine + 1 /\ right \in -1 .. LastLine
        /\ lsh[k] \in Int /\ bins[k][Middle] \in Int
        /\ LastLine \in Int /\ Middle \in 0 .. LastLine
    BY <1>1, <2>1, CardinalityAssumption
       DEF Probe, SearchInv, SearchInterval, Lines, LastLine
  <2>3. UNCHANGED <<bins, lsh, k, sax_out>>
    BY <1>1 DEF Probe
  <2>4. SearchInterval'
    <3> DEFINE m == Middle
    <3>0. m \in Int
      BY <2>2
    <3>1. CASE lsh[k] >= bins[k][m] /\ left' = m + 1 /\ right' = right
      <4>1. (m + 1) - 1 = m
        BY <3>0
      <4>2. bins[k][left' - 1] <= lsh[k]
        BY <3>1, <4>1, <2>2
      <4> HIDE DEF m
      <4> QED
        BY <3>0, <3>1, <4>2, <2>1, <2>2, <2>3 DEF SearchInv, SearchInterval, LastLine, m
    <3>2. CASE ~(lsh[k] >= bins[k][m]) /\ right' = m - 1 /\ left' = left
      <4>1. (m - 1) + 1 = m
        BY <3>0
      <4>2. lsh[k] < bins[k][right' + 1]
        BY <3>2, <4>1, <2>2
      <4> QED
        BY <3>0, <3>2, <4>2, <2>1, <2>2, <2>3 DEF SearchInv, SearchInterval, LastLine
    <3> QED
      BY <1>1, <3>1, <3>2 DEF Probe, GoesRight
  <2>5. SymbolBrackets'
    BY <2>3 DEF SearchInv, SymbolBrackets, Brackets, LastLine
  <2> QED
    BY <2>3, <2>4, <2>5 DEF SearchInv
<1>2. CASE Emit
  <2>1. k \in Dims /\ k' = k + 1 /\ k' \in 0 .. LSHDimensionality
    BY <1>2, DimensionalityAssumption DEF Emit, SearchInv, Dims
  <2>2. UNCHANGED <<bins, lsh>>
    BY <1>2 DEF Emit
  <2>3. left = right + 1 /\ left \in 0 .. AlphabetCardinality - 1
    BY <1>2, CardinalityAssumption DEF Emit, SearchInv, SearchInterval, LastLine
  <2>4. Char(left) = left
    BY <2>3, CardinalityAssumption DEF Char
  <2>5. Brackets(k, left, lsh[k])
    BY <1>2, <2>3, CardinalityAssumption
       DEF Emit, SearchInv, SearchInterval, Brackets, LastLine
  <2>6. sax_out' = [sax_out EXCEPT ![k] = left] /\ sax_out' \in [Dims -> Int]
    <3>1. sax_out' = [sax_out EXCEPT ![k] = left]
      BY <1>2, <2>4 DEF Emit
    <3>2. left \in Int
      BY <2>3, CardinalityAssumption
    <3>3. sax_out \in [Dims -> Int]
      BY DEF SearchInv
    <3> QED
      BY <3>1, <3>2, <3>3
  <2>7. SearchInterval'
    BY <1>2, CardinalityAssumption DEF Emit, SearchInterval, LastLine
  <2>8. SymbolBrackets'
    <3> SUFFICES ASSUME NEW d \in Dims, d < k + 1
                 PROVE  Brackets(d, sax_out[d], lsh[d])'
      BY <2>1 DEF SymbolBrackets
    <3>1. CASE d = k
      BY <3>1, <2>2, <2>5, <2>6 DEF SearchInv, Brackets, LastLine
    <3>2. CASE d # k
      <4>1. d < k /\ sax_out'[d] = sax_out[d]
        BY <3>2, <2>1, <2>6 DEF SearchInv, Dims
      <4> QED
        BY <4>1, <2>2 DEF SearchInv, SymbolBrackets, Brackets, LastLine
    <3> QED
      BY <3>1, <3>2
  <2> QED
    BY <2>1, <2>2, <2>6, <2>7, <2>8 DEF SearchInv
<1>3. CASE UNCHANGED encodingVars
  BY <1>3 DEF encodingVars, SearchInv, SearchInterval, SymbolBrackets, Brackets, LastLine
<1> QED
  BY <1>1, <1>2, <1>3 DEF EncodingNext, EncodingDone

\* Every symbol encoding returns has its value between the two breakpoints
\* around it, whatever the breakpoints are.
THEOREM EncodingBrackets == EncodingSpec => []SymbolBrackets
<1>1. SearchInv => SymbolBrackets
  BY DEF SearchInv
<1> QED
  BY SearchInit, SearchNext, <1>1, PTL DEF EncodingSpec

-----------------------------------------------------------------------------
(* Powers of two.                                                          *)

LEMMA PowerDef ==
    Power = [n \in 0 .. Bits |-> IF n = 0 THEN 1 ELSE 2 * Power[n - 1]]
<1> DEFINE Doubles(f) == f = [n \in 0 .. Bits |-> IF n = 0 THEN 1 ELSE 2 * f[n - 1]]
           step == [n \in 1 .. Bits |-> [x \in Nat |-> 2 * x]]
<1>1. \E f : Doubles(f)
  <2>1. step \in [1 .. Bits -> [Nat -> Nat]] /\ Bits \in Nat /\ 1 \in Nat
    BY BitsAssumption, AlphabetAssumption
  <2>2. \A n \in 1 .. Bits : \A x \in Nat : step[n][x] = 2 * x
    OBVIOUS
  <2> HIDE DEF step
  <2>3. PICK g \in [0 .. Bits -> Nat] : Iterates(g, Bits, 1, step)
    BY <2>1, Recursion
  <2>4. g[0] = 1 /\ \A n \in 1 .. Bits : g[n] = 2 * g[n - 1]
    <3>1. \A n \in 1 .. Bits : g[n - 1] \in Nat
      BY <2>1, <2>3
    <3> QED
      BY <2>2, <2>3, <3>1 DEF Iterates
  <2>5. \A n \in 0 .. Bits : g[n] = IF n = 0 THEN 1 ELSE 2 * g[n - 1]
    BY <2>1, <2>4
  <2>6. g = [n \in 0 .. Bits |-> g[n]]
    BY <2>3
  <2>7. g = [n \in 0 .. Bits |-> IF n = 0 THEN 1 ELSE 2 * g[n - 1]]
    BY <2>5, <2>6
  <2> QED
    BY <2>7
<1>2. Power = CHOOSE f : Doubles(f)
  BY DEF Power
<1>3. Doubles(CHOOSE f : Doubles(f))
  BY <1>1
<1> QED
  BY <1>2, <1>3

LEMMA PowerFacts ==
    /\ Power[0] = 1
    /\ \A n \in 1 .. Bits : Power[n] = 2 * Power[n - 1]
    /\ \A n \in 0 .. Bits : Power[n] \in Nat /\ Power[n] >= 1
<1>0. Bits \in Nat
  BY BitsAssumption, AlphabetAssumption
<1>1. Power[0] = 1 /\ \A n \in 1 .. Bits : Power[n] = 2 * Power[n - 1]
  <2> DEFINE P == Power
  <2>1. P = [n \in 0 .. Bits |-> IF n = 0 THEN 1 ELSE 2 * P[n - 1]]
    BY PowerDef
  <2> SUFFICES P[0] = 1 /\ \A n \in 1 .. Bits : P[n] = 2 * P[n - 1]
    OBVIOUS
  <2> HIDE DEF P
  <2>2. P[0] = 1
    BY ONLY <1>0, <2>1
  <2>3. ASSUME NEW n \in 1 .. Bits PROVE P[n] = 2 * P[n - 1]
    <3>1. n \in 0 .. Bits /\ n # 0
      BY ONLY <1>0
    <3> QED
      BY ONLY <2>1, <3>1
  <2> QED
    BY ONLY <2>2, <2>3
<1> DEFINE T == {n \in Nat : Power[n] \in Nat /\ Power[n] >= 1}
<1>2. 0 \in T
  BY <1>1
<1>3. \A n \in 1 .. Bits : n - 1 \in T => n \in T
  BY <1>1
<1>4. 0 .. Bits \subseteq T
  <2> HIDE DEF T
  <2> QED
    BY <1>0, <1>2, <1>3, Induction
<1> QED
  BY <1>1, <1>4

-----------------------------------------------------------------------------
(* The regions of the prefixes.                                            *)

\* Region b of the 2^e symbols b*2^e, b*2^e + 1 ... of dimension d holds v: the
\* breakpoint below the region is not above v, the one that ends it is.
Holds(d, b, e, v) ==
    /\ b * Power[e] > 0 => bins[d][b * Power[e] - 1] <= v
    /\ b * Power[e] + Power[e] - 1 <= LastLine => v < bins[d][b * Power[e] + Power[e] - 1]

\* The symbols from lo to hi are in one region of 2^e symbols, and it holds v.
Within(d, lo, hi, e, v) ==
    \E b \in Nat : /\ b * Power[e] <= lo
                   /\ hi < b * Power[e] + Power[e]
                   /\ b * Power[e] + Power[e] <= AlphabetCardinality
                   /\ Holds(d, b, e, v)

\* The symbols still possible, left to right + 1, are one region of 2^h symbols,
\* and every region around it holds the value.
Halving(h) ==
    /\ \E a \in Nat : left = a * Power[h]
    /\ right = left + Power[h] - 2
    /\ \A e \in h .. Bits : Within(k, left, right + 1, e, lsh[k])

\* The regions around every symbol that is done hold its value.
Regions == \A d \in Dims : d < k =>
               \A e \in 0 .. Bits : Within(d, sax_out[d], sax_out[d], e, lsh[d])

RegionInv == /\ SearchInv
             /\ k < LSHDimensionality => \E h \in 0 .. Bits : Halving(h)
             /\ Regions

\* Before the first comparison: all symbols, without a breakpoint at either end.
LEMMA AllSymbols ==
    ASSUME left = 0, right = LastLine
    PROVE  Halving(Bits)
<1>0. Bits \in Nat /\ Power[Bits] = AlphabetCardinality /\ AlphabetCardinality \in 2 .. 256
  BY BitsAssumption, AlphabetAssumption, CardinalityAssumption
<1>1. Within(k, left, right + 1, Bits, lsh[k])
  <2>1. 0 * Power[Bits] = 0
    BY <1>0
  <2>2. Holds(k, 0, Bits, lsh[k])
    BY <1>0, <2>1 DEF Holds, LastLine
  <2>3. 0 * Power[Bits] <= left /\ right + 1 < 0 * Power[Bits] + Power[Bits]
        /\ 0 * Power[Bits] + Power[Bits] <= AlphabetCardinality
    BY <1>0, <2>1 DEF LastLine
  <2> QED
    BY <2>2, <2>3 DEF Within
<1>2. \A e \in Bits .. Bits : e = Bits
  BY <1>0
<1>3. left = 0 * Power[Bits]
  BY <1>0
<1> QED
  BY <1>0, <1>1, <1>2, <1>3 DEF Halving, LastLine

LEMMA AllSymbolsNext == left' = 0 /\ right' = LastLine' => Halving(Bits)'
<1>1. left = 0 /\ right = LastLine => Halving(Bits)
  BY AllSymbols
<1>2. (left = 0 /\ right = LastLine => Halving(Bits))'
  BY <1>1, PTL
<1> QED
  BY <1>2

\* A smaller range of symbols is in the same region.
LEMMA WithinSmaller ==
    ASSUME NEW d, NEW lo \in Int, NEW hi \in Int, NEW e \in 0 .. Bits, NEW v,
           Within(d, lo, hi, e, v),
           NEW lo2 \in Int, NEW hi2 \in Int, lo <= lo2, hi2 <= hi
    PROVE  Within(d, lo2, hi2, e, v)
<1>1. PICK b \in Nat : /\ b * Power[e] <= lo
                       /\ hi < b * Power[e] + Power[e]
                       /\ b * Power[e] + Power[e] <= AlphabetCardinality
                       /\ Holds(d, b, e, v)
  BY DEF Within
<1>2. Power[e] \in Nat
  BY PowerFacts
<1>3. b * Power[e] \in Nat
  BY <1>2
<1>4. b * Power[e] <= lo2 /\ hi2 < b * Power[e] + Power[e]
  BY <1>1, <1>2, <1>3
<1> QED
  BY <1>1, <1>4 DEF Within

\* A comparison leaves the upper or the lower half of the symbols.
LEMMA HalvingProbe ==
    ASSUME RegionInv, Probe PROVE \E h \in 0 .. Bits : Halving(h)'
<1>0. /\ k < LSHDimensionality /\ left <= right
      /\ bins' = bins /\ lsh' = lsh /\ k' = k
      /\ \/ lsh[k] >= bins[k][Middle] /\ left' = Middle + 1 /\ right' = right
         \/ ~(lsh[k] >= bins[k][Middle]) /\ right' = Middle - 1 /\ left' = left
  BY DEF Probe, GoesRight
<1>1. PICK h \in 0 .. Bits : Halving(h)
  BY <1>0 DEF RegionInv
<1>2. PICK a \in Nat : left = a * Power[h]
  BY <1>1 DEF Halving
<1>3. k \in Dims /\ Middle \in Lines /\ lsh[k] \in Int /\ bins[k][Middle] \in Int
  BY <1>0, MiddleIsLine DEF RegionInv, SearchInv
<1>4. Power[h] \in Nat /\ left \in Nat /\ right = left + Power[h] - 2 /\ right \in Int
  <2>1. Power[h] \in Nat /\ right = left + Power[h] - 2
    BY <1>1, PowerFacts DEF Halving
  <2>2. left \in Nat
    BY <1>2, <2>1
  <2> QED
    BY <2>1, <2>2
<1>5. h \in 1 .. Bits
  <2>1. h # 0
    BY <1>0, <1>4, PowerFacts
  <2> QED
    BY <2>1
<1> DEFINE half == Power[h - 1]
<1>6. half \in Nat /\ half >= 1 /\ Power[h] = 2 * half /\ h - 1 \in 0 .. Bits
  <2>1. h - 1 \in 0 .. Bits
    BY <1>5, BitsAssumption, AlphabetAssumption
  <2> QED
    BY <1>5, <2>1, PowerFacts
<1>7. Middle = left + half - 1
  BY <1>4, <1>6 DEF Middle
<1>8. /\ (2 * a) * half = left /\ (2 * a + 1) * half = left + half
      /\ 2 * a \in Nat /\ 2 * a + 1 \in Nat
  <2>1. a * Power[h] = a * (2 * half)
    BY <1>6
  <2> HIDE DEF half
  <2> QED
    BY <1>2, <1>6, <2>1
<1>9. PICK b \in Nat : /\ b * Power[h] <= left
                       /\ right + 1 < b * Power[h] + Power[h]
                       /\ b * Power[h] + Power[h] <= AlphabetCardinality
                       /\ Holds(k, b, h, lsh[k])
  <2>1. Within(k, left, right + 1, h, lsh[k])
    BY <1>1 DEF Halving
  <2> QED
    BY <2>1 DEF Within
<1>10. b * Power[h] = left
  <2>1. b * Power[h] \in Nat
    BY <1>4
  <2> QED
    BY <1>4, <1>9, <2>1
<1>11. /\ left + 2 * half <= AlphabetCardinality
       /\ left > 0 => bins[k][left - 1] <= lsh[k]
       /\ left + 2 * half - 1 <= LastLine => lsh[k] < bins[k][left + 2 * half - 1]
  BY <1>6, <1>9, <1>10 DEF Holds
<1>12. LastLine \in Int /\ AlphabetCardinality \in Int
  BY CardinalityAssumption DEF LastLine
<1>13. CASE lsh[k] >= bins[k][Middle] /\ left' = Middle + 1 /\ right' = right
  <2>1. left' = (2 * a + 1) * half /\ left' = left + half /\ right' = left' + half - 2
    BY <1>4, <1>6, <1>7, <1>8, <1>13
  <2>2. left' - 1 = Middle
    BY <1>4, <1>6, <1>7, <2>1
  <2>3. ASSUME NEW e \in h - 1 .. Bits PROVE Within(k, left', right' + 1, e, lsh[k])
    <3>1. CASE e = h - 1
      <4> DEFINE c == 2 * a + 1
      <4>1. c * Power[e] = left' /\ Power[e] = half
        BY <2>1, <3>1
      <4>2. /\ left' <= left' /\ right' + 1 < left' + half
            /\ left' + half = left + 2 * half
        BY <1>4, <1>6, <2>1
      <4>3. Holds(k, c, e, lsh[k])
        <5>1. bins[k][left' - 1] <= lsh[k]
          BY <1>3, <1>13, <2>2
        <5>2. left' + half - 1 = left + 2 * half - 1
          <6>1. half \in Int /\ left \in Int /\ left' \in Int
            BY <1>4, <1>6, <2>1
          <6> QED
            BY ONLY <4>2, <6>1
        <5>3. left' + half - 1 <= LastLine => lsh[k] < bins[k][left' + half - 1]
          BY <1>11, <5>2
        <5> HIDE DEF c, half
        <5> QED
          BY <4>1, <5>1, <5>3 DEF Holds
      <4>4. c * Power[e] <= left' /\ right' + 1 < c * Power[e] + Power[e]
            /\ c * Power[e] + Power[e] <= AlphabetCardinality
        BY <1>11, <4>1, <4>2
      <4>5. c \in Nat
        BY <1>8
      <4> HIDE DEF c
      <4> QED
        BY <4>3, <4>4, <4>5 DEF Within
    <3>2. CASE e # h - 1
      <4>1. e \in h .. Bits /\ e \in 0 .. Bits
        BY <1>5, <3>2
      <4>2. Within(k, left, right + 1, e, lsh[k])
        BY <1>1, <4>1 DEF Halving
      <4> QED
        BY <1>4, <1>6, <2>1, <1>13, <4>1, <4>2, WithinSmaller
    <3> QED
      BY <3>1, <3>2
  <2>4. \A e \in h - 1 .. Bits : Within(k, left, right + 1, e, lsh[k])'
    BY <1>0, <2>3 DEF Within, Holds, LastLine
  <2> QED
    BY <1>6, <1>8, <2>1, <2>4 DEF Halving
<1>14. CASE ~(lsh[k] >= bins[k][Middle]) /\ right' = Middle - 1 /\ left' = left
  <2>1. left' = (2 * a) * half /\ right' = left' + half - 2
    BY <1>4, <1>6, <1>7, <1>8, <1>14
  <2>2. left' + half - 1 = Middle /\ lsh[k] < bins[k][Middle]
    BY <1>3, <1>4, <1>6, <1>7, <1>14
  <2>3. ASSUME NEW e \in h - 1 .. Bits PROVE Within(k, left', right' + 1, e, lsh[k])
    <3>1. CASE e = h - 1
      <4> DEFINE c == 2 * a
      <4>1. c * Power[e] = left' /\ Power[e] = half
        BY <2>1, <3>1
      <4>2. right' + 1 < left' + half /\ left' + half <= AlphabetCardinality
        BY <1>4, <1>6, <1>11, <1>12, <1>14, <2>1
      <4>3. Holds(k, c, e, lsh[k])
        BY <1>11, <1>14, <2>2, <4>1 DEF Holds
      <4>4. c * Power[e] <= left' /\ right' + 1 < c * Power[e] + Power[e]
            /\ c * Power[e] + Power[e] <= AlphabetCardinality
        BY <1>4, <1>14, <4>1, <4>2
      <4>5. c \in Nat
        BY <1>8
      <4> HIDE DEF c
      <4> QED
        BY <4>3, <4>4, <4>5 DEF Within
    <3>2. CASE e # h - 1
      <4>1. e \in h .. Bits /\ e \in 0 .. Bits
        BY <1>5, <3>2
      <4>2. Within(k, left, right + 1, e, lsh[k])
        BY <1>1, <4>1 DEF Halving
      <4> QED
        BY <1>4, <1>6, <2>1, <1>14, <4>1, <4>2, WithinSmaller
    <3> QED
      BY <3>1, <3>2
  <2>4. \A e \in h - 1 .. Bits : Within(k, left, right + 1, e, lsh[k])'
    BY <1>0, <2>3 DEF Within, Holds, LastLine
  <2> QED
    BY <1>6, <1>8, <2>1, <2>4 DEF Halving
<1> QED
  BY <1>0, <1>13, <1>14

\* The search ends with one symbol, which is in every region that is left.
LEMMA HalvingEmit ==
    ASSUME RegionInv, Emit PROVE \A e \in 0 .. Bits : Within(k, left, left, e, lsh[k])
<1>1. k < LSHDimensionality /\ left > right
  BY DEF Emit
<1>2. PICK h \in 0 .. Bits : Halving(h)
  BY <1>1 DEF RegionInv
<1>3. left \in Int /\ right \in Int /\ Power[h] \in Nat /\ Power[h] >= 1
      /\ right = left + Power[h] - 2
  BY <1>1, <1>2, PowerFacts, CardinalityAssumption
     DEF RegionInv, SearchInv, SearchInterval, LastLine, Halving
<1>4. Power[h] = 1 /\ right + 1 = left
  BY <1>1, <1>3
<1>5. h = 0
  <2>1. CASE h # 0
    <3>1. h \in 1 .. Bits /\ h - 1 \in 0 .. Bits
      BY <2>1, BitsAssumption, AlphabetAssumption
    <3>2. Power[h - 1] \in Nat /\ Power[h - 1] >= 1 /\ Power[h] = 2 * Power[h - 1]
      BY <3>1, PowerFacts
    <3> QED
      BY <1>4, <3>2
  <2> QED
    BY <2>1
<1> QED
  BY <1>2, <1>4, <1>5 DEF Halving

LEMMA RegionInit == EncodingInit => RegionInv
<1> SUFFICES ASSUME EncodingInit PROVE RegionInv
  OBVIOUS
<1>1. Halving(Bits) /\ Bits \in 0 .. Bits
  BY AllSymbols, BitsAssumption, AlphabetAssumption DEF EncodingInit
<1>2. Regions
  BY DimensionalityAssumption DEF EncodingInit, Regions, Dims
<1> QED
  BY <1>1, <1>2, SearchInit DEF RegionInv

LEMMA RegionNext == RegionInv /\ [EncodingNext]_encodingVars => RegionInv'
<1> SUFFICES ASSUME RegionInv, [EncodingNext]_encodingVars PROVE RegionInv'
  OBVIOUS
<1>0. SearchInv /\ SearchInv'
  BY SearchNext DEF RegionInv
<1>1. CASE Probe
  <2>1. Regions'
    <3>1. bins' = bins /\ lsh' = lsh /\ k' = k /\ sax_out' = sax_out
      BY <1>1 DEF Probe
    <3> QED
      BY <3>1 DEF RegionInv, Regions, Within, Holds, LastLine
  <2> QED
    BY <1>0, <1>1, <2>1, HalvingProbe DEF RegionInv
<1>2. CASE Emit
  <2>1. /\ k \in Dims /\ bins' = bins /\ lsh' = lsh /\ k' = k + 1
        /\ left' = 0 /\ right' = LastLine
        /\ sax_out' = [sax_out EXCEPT ![k] = Char(left)]
        /\ k < LSHDimensionality /\ left > right
    BY <1>0, <1>2, DimensionalityAssumption DEF Emit, SearchInv, Dims
  <2>2. left \in 0 .. AlphabetCardinality - 1
    BY <1>0, <2>1, CardinalityAssumption DEF SearchInv, SearchInterval, LastLine
  <2>3. Char(left) = left
    BY <2>2, CardinalityAssumption DEF Char
  <2>4. sax_out'[k] = left /\ \A d \in Dims : d # k => sax_out'[d] = sax_out[d]
    BY <1>0, <2>1, <2>3 DEF SearchInv
  <2>5. ASSUME NEW d \in Dims, d < k + 1, NEW e \in 0 .. Bits
        PROVE  Within(d, sax_out'[d], sax_out'[d], e, lsh[d])
    <3>1. CASE d = k
      BY <1>2, <2>4, <3>1, HalvingEmit
    <3>2. CASE d # k
      <4>1. d < k
        BY <1>0, <2>5, <3>2, DimensionalityAssumption DEF SearchInv, Dims
      <4> QED
        BY <2>4, <3>2, <4>1 DEF RegionInv, Regions
    <3> QED
      BY <3>1, <3>2
  <2>6. Regions'
    BY <2>1, <2>5 DEF Regions, Within, Holds, LastLine
  <2>7. Halving(Bits)'
    <3>1. left' = 0 /\ right' = LastLine'
      BY <2>1 DEF LastLine
    <3> QED
      BY <3>1, AllSymbolsNext
  <2> QED
    BY <1>0, <2>6, <2>7, BitsAssumption, AlphabetAssumption DEF RegionInv
<1>3. CASE UNCHANGED encodingVars
  <2>1. bins' = bins /\ lsh' = lsh /\ k' = k /\ sax_out' = sax_out /\ left' = left /\ right' = right
    BY <1>3 DEF encodingVars
  <2>2. Regions'
    BY <2>1 DEF RegionInv, Regions, Within, Holds, LastLine
  <2>3. ASSUME NEW h \in 0 .. Bits, Halving(h) PROVE Halving(h)'
    BY <2>1, <2>3 DEF Halving, Within, Holds, LastLine
  <2> QED
    BY <1>0, <2>1, <2>2, <2>3 DEF RegionInv
<1> QED
  BY <1>1, <1>2, <1>3 DEF EncodingNext, EncodingDone

-----------------------------------------------------------------------------
(* Pruning.                                                                *)

LEMMA SquareGrows ==
    ASSUME NEW x \in Int, NEW y \in Int, 0 <= x, x <= y
    PROVE  Square(x) <= Square(y) /\ 0 <= Square(x)
<1>1. x * x <= x * y /\ x * y <= y * y /\ 0 <= x * x /\ x * x \in Int /\ x * y \in Int /\ y * y \in Int
  OBVIOUS
<1> QED
  BY <1>1 DEF Square

\* The prefix that query_to_node_dist is given names the region the symbol is in.
LEMMA PrefixRegion ==
    ASSUME NEW s \in Nat, NEW p \in Nat, p >= 1, NEW b \in Nat, b * p <= s, s < b * p + p
    PROVE  s \div p = b
<1> DEFINE z == s \div p
<1>1. z \in Nat /\ z * p <= s /\ s < z * p + p
  OBVIOUS
<1> HIDE DEF z
<1>2. ~(z < b)
  <2> SUFFICES ASSUME z + 1 <= b PROVE FALSE
    BY <1>1
  <2>1. (z + 1) * p <= b * p
    BY <1>1
  <2> QED
    BY <1>1, <2>1
<1>3. ~(b < z)
  <2> SUFFICES ASSUME b + 1 <= z PROVE FALSE
    BY <1>1
  <2>1. (b + 1) * p <= z * p
    BY <1>1
  <2> QED
    BY <1>1, <2>1
<1> QED
  BY <1>1, <1>2, <1>3 DEF z

LEMMA InvNear == ASSUME RegionInv PROVE NeverTooFar
<1> SUFFICES ASSUME NEW d \in Dims, d < k, NEW c \in 1 .. Bits, NEW q \in Values
             PROVE  LowerDistance(d, q, sax_out[d] \div Power[Bits - c], c)
                        <= Square(Apart(lsh[d], q) + Beyond(d, lsh[d]))
  BY DEF NeverTooFar
<1> PICK e : e = Bits - c
  OBVIOUS
<1> PICK v : v = lsh[d]
  OBVIOUS
<1> PICK x : x = Beyond(d, v)
  OBVIOUS
<1> PICK y : y = Apart(v, q)
  OBVIOUS
<1>0. /\ e \in 0 .. Bits /\ Power[e] \in Nat /\ Power[e] >= 1
      /\ v \in Int /\ q \in Int /\ sax_out[d] \in Nat
      /\ BinsLowerBound[d] \in Int /\ BinsUpperBound[d] \in Int
      /\ x \in Int /\ 0 <= x /\ BinsLowerBound[d] <= v + x /\ v - x <= BinsUpperBound[d]
      /\ y \in Int /\ 0 <= y /\ v - q <= y /\ q - v <= y
      /\ AlphabetCardinality \in Nat
  <2>1. e \in 0 .. Bits
    BY BitsAssumption, AlphabetAssumption
  <2>2. sax_out[d] \in Nat
    BY CardinalityAssumption DEF RegionInv, SearchInv, SymbolBrackets, Brackets
  <2>3. v \in Int /\ q \in Int
    BY ValuesAssumption DEF RegionInv, SearchInv
  <2>4. BinsLowerBound[d] \in Int /\ BinsUpperBound[d] \in Int
    BY BoundsAssumption
  <2>5. /\ x \in Int /\ 0 <= x /\ BinsLowerBound[d] <= v + x /\ v - x <= BinsUpperBound[d]
        /\ y \in Int /\ 0 <= y /\ v - q <= y /\ q - v <= y
    <3> PICK l, u : l = BinsLowerBound[d] /\ u = BinsUpperBound[d]
      OBVIOUS
    <3>1. l \in Int /\ u \in Int /\ v \in Int /\ q \in Int
      BY <2>3, <2>4
    <3>2. \E z : /\ z = IF l - v < v - u THEN v - u ELSE l - v
                /\ x = IF 0 < z THEN z ELSE 0
      BY DEF Beyond, Larger
    <3>3. y = IF v < q THEN q - v ELSE v - q
      BY DEF Apart
    <3>4. x \in Int /\ 0 <= x /\ l <= v + x /\ v - x <= u
      BY ONLY <3>1, <3>2
    <3>5. y \in Int /\ 0 <= y /\ v - q <= y /\ q - v <= y
      BY ONLY <3>1, <3>3
    <3> QED
      BY <3>4, <3>5
  <2> QED
    BY <2>1, <2>2, <2>3, <2>4, <2>5, PowerFacts, CardinalityAssumption
<1>1. PICK b \in Nat : /\ b * Power[e] <= sax_out[d]
                       /\ sax_out[d] < b * Power[e] + Power[e]
                       /\ b * Power[e] + Power[e] <= AlphabetCardinality
                       /\ Holds(d, b, e, v)
  BY <1>0 DEF RegionInv, Regions, Within
<1>2. sax_out[d] \div Power[e] = b
  BY <1>0, <1>1, PrefixRegion
<1> PICK first : first = b * Power[e]
  OBVIOUS
<1> PICK last : last = b * Power[e] + Power[e] - 1
  OBVIOUS
<1>3. first \in Nat /\ last \in Nat /\ last <= AlphabetCardinality - 1
  BY <1>0, <1>1
<1> PICK lower : lower = BreakpointLower(d, b, c)
  OBVIOUS
<1> PICK upper : upper = BreakpointUpper(d, b, c)
  OBVIOUS
<1>4. lower = IF first = 0 THEN BinsLowerBound[d] ELSE bins[d][first - 1]
  BY DEF BreakpointLower, RegionLower
<1>5. upper = IF last = AlphabetCardinality - 1 THEN BinsUpperBound[d] ELSE bins[d][last]
  BY DEF BreakpointUpper, RegionUpper
<1>6. bins \in [Dims -> [Lines -> Int]]
  BY DEF RegionInv, SearchInv
<1>7. lower \in Int /\ lower <= v + x
  <2>1. CASE first = 0
    BY <1>0, <1>4, <2>1
  <2>2. CASE first # 0
    <3>1. first - 1 \in Lines
      BY <1>0, <1>1, <1>3, <2>2 DEF Lines
    <3>2. bins[d][first - 1] \in Int
      BY <1>6, <3>1
    <3>3. bins[d][first - 1] <= v
      BY <1>1, <1>3, <2>2 DEF Holds
    <3> QED
      BY <1>0, <1>4, <2>2, <3>2, <3>3
  <2> QED
    BY <2>1, <2>2
<1>8. upper \in Int /\ v - x <= upper
  <2>1. CASE last = AlphabetCardinality - 1
    BY <1>0, <1>5, <2>1
  <2>2. CASE last # AlphabetCardinality - 1
    <3>1. last \in Lines /\ last <= LastLine
      <4>1. AlphabetCardinality \in Nat
        BY <1>0
      <4> QED
        BY ONLY <1>3, <2>2, <4>1 DEF Lines, LastLine
    <3>2. bins[d][last] \in Int
      BY <1>6, <3>1
    <3>3. v < bins[d][last]
      BY <1>1, <3>1 DEF Holds
    <3> QED
      BY <1>0, <1>5, <2>2, <3>2, <3>3
  <2> QED
    BY <2>1, <2>2
<1>9. LowerDistance(d, q, b, c) = IF lower > q THEN Square(lower - q)
                                  ELSE IF upper < q THEN Square(q - upper) ELSE 0
  BY DEF LowerDistance
<1>10. LowerDistance(d, q, b, c) <= Square(y + x)
  <2>1. CASE lower > q
    <3>1. lower - q \in Int /\ y + x \in Int /\ 0 <= lower - q /\ lower - q <= y + x
      BY <1>0, <1>7, <2>1
    <3> QED
      BY <1>9, <2>1, <3>1, SquareGrows
  <2>2. CASE ~(lower > q) /\ upper < q
    <3>1. q - upper \in Int /\ y + x \in Int /\ 0 <= q - upper /\ q - upper <= y + x
      BY <1>0, <1>8, <2>2
    <3> QED
      BY <1>9, <2>2, <3>1, SquareGrows
  <2>3. CASE ~(lower > q) /\ ~(upper < q)
    <3>1. y + x \in Int /\ 0 <= y + x /\ y + x <= y + x
      BY <1>0
    <3> QED
      BY <1>9, <2>3, <3>1, SquareGrows
  <2> QED
    BY <2>1, <2>2, <2>3
<1> QED
  BY <1>2, <1>10

\* At every cardinality and for every table of breakpoints, query_to_node_dist
\* takes a query to be no farther from the region of a symbol's prefix than from
\* the value encoded, and by what that value lies beyond the sample's bounds: so
\* traverse_subtree prunes no node with a near point within these bounds. Of a
\* point beyond them, which the input may well have, this is all that holds.
THEOREM PruningWithinBounds == EncodingSpec => []NeverTooFar
<1>1. RegionInv => NeverTooFar
  BY InvNear
<1> QED
  BY <1>1, RegionInit, RegionNext, PTL DEF EncodingSpec

-----------------------------------------------------------------------------
(* The breakpoints, which encoding takes from breakpoints_selection.       *)

\* The slice of the w-th of t workers when n things are shared out.
Share(n, t, w) == IF w = t - 1 THEN n - (t - 1) * (n \div t) ELSE n \div t

LEMMA Shares ==
    ASSUME NEW n \in Nat, NEW t \in Nat \ {0}, NEW w \in 0 .. t - 1
    PROVE  /\ n \div t \in Nat /\ w * (n \div t) \in Nat /\ Share(n, t, w) \in Nat
           /\ w * (n \div t) + Share(n, t, w) <= n
           /\ w < t - 1 => Share(n, t, w) = n \div t
<1> PICK q : q = n \div t
  OBVIOUS
<1>1. q \in Nat /\ t * q <= n
  BY SMT
<1>2. w * q \in Nat /\ w \in Nat /\ (w + 1) * q = w * q + q /\ (w + 1) * q <= t * q /\ t * q \in Nat
  BY <1>1, Grows, NextMultiple
<1>3. t - 1 \in Nat /\ (t - 1) * q \in Nat /\ ((t - 1) + 1) * q = (t - 1) * q + q /\ (t - 1) + 1 = t
  BY <1>1, Grows, NextMultiple
<1>4. Share(n, t, w) = IF w = t - 1 THEN n - (t - 1) * q ELSE q
  BY DEF Share
<1>5. CASE w = t - 1
  BY <1>1, <1>2, <1>3, <1>4, <1>5
<1>6. CASE w # t - 1
  BY <1>1, <1>2, <1>3, <1>4, <1>6
<1> QED
  BY <1>5, <1>6

\* Everything is in some slice.
LEMMA SharesCover ==
    ASSUME NEW n \in Nat, NEW t \in Nat \ {0}, NEW p \in 0 .. n - 1
    PROVE  \E w \in 0 .. t - 1 : w * (n \div t) <= p /\ p < w * (n \div t) + Share(n, t, w)
<1> DEFINE last == t - 1
<1> PICK q : q = n \div t
  OBVIOUS
<1>1. q \in Nat /\ last \in Nat /\ last * q \in Nat /\ last \in 0 .. t - 1
  <2>1. q \in Nat
    BY SMT
  <2> QED
    BY <2>1, Grows
<1>2. \A w \in 0 .. t - 1 : Share(n, t, w) = IF w = last THEN n - last * q ELSE q
  BY DEF Share
<1>3. CASE last * q <= p
  <2>1. p < last * q + Share(n, t, last)
    BY <1>1, <1>2
  <2> QED
    BY <1>1, <1>3, <2>1
<1>4. CASE p < last * q
  <2>1. q \in Nat \ {0} /\ p \in Nat
    BY <1>1, <1>4
  <2> PICK w : w = p \div q
    OBVIOUS
  <2>2. w \in Nat /\ w * q <= p /\ p < w * q + q
    <3>1. p \div q \in Nat /\ (p \div q) * q <= p /\ p < (p \div q) * q + q
      BY ONLY <2>1, Quotients
    <3> QED
      BY ONLY <3>1, w = p \div q
  <2>3. w < last
    <3> SUFFICES ASSUME last <= w PROVE FALSE
      BY <1>1, <2>2
    <3>1. last * q <= w * q /\ w * q \in Nat
      BY <1>1, <2>2, Grows
    <3> QED
      BY <1>1, <1>4, <2>2, <3>1
  <2>4. w \in 0 .. t - 1 /\ Share(n, t, w) = q
    BY <1>1, <1>2, <2>2, <2>3
  <2> QED
    BY <2>2, <2>4
<1> QED
  BY <1>1, <1>3, <1>4

\* Nothing is in two.
LEMMA SharesApart ==
    ASSUME NEW n \in Nat, NEW t \in Nat \ {0}, NEW w \in 0 .. t - 1, NEW v \in 0 .. t - 1,
           NEW a \in 0 .. Share(n, t, w) - 1, NEW b \in 0 .. Share(n, t, v) - 1,
           w * (n \div t) + a = v * (n \div t) + b
    PROVE  w = v /\ a = b
<1> PICK q : q = n \div t
  OBVIOUS
<1>0. q \in Nat
  BY SMT
<1>a. \A x \in 0 .. t - 1 : Share(n, t, x) \in Nat /\ (x < t - 1 => Share(n, t, x) = q)
  BY ONLY n \in Nat, t \in Nat \ {0}, q = n \div t, Shares
<1>1. ASSUME NEW x \in 0 .. t - 1, NEW y \in 0 .. t - 1, x < y, NEW c \in 0 .. Share(n, t, x) - 1
      PROVE  x * q + c < y * q
  <2>1. q \in Nat /\ x \in Nat /\ x + 1 \in Nat /\ y \in Nat /\ x + 1 <= y
    BY <1>0, <1>1
  <2>2. Share(n, t, x) = q /\ c < q /\ c \in Nat
    BY <1>1, <1>a, <2>1
  <2>3. (x + 1) * q = x * q + q /\ (x + 1) * q <= y * q /\ x * q \in Nat /\ y * q \in Nat
    BY <2>1, Grows, NextMultiple
  <2> QED
    BY <2>1, <2>2, <2>3
<1>2. w * q \in Nat /\ v * q \in Nat /\ a \in Nat /\ b \in Nat
  <2>1. w \in Nat /\ v \in Nat /\ a \in Nat /\ b \in Nat
    BY <1>a
  <2> QED
    BY <1>0, <2>1, Grows
<1>3. ~(w < v)
  <2> SUFFICES ASSUME w < v PROVE FALSE
    OBVIOUS
  <2>1. w * q + a < v * q
    BY <1>1
  <2> QED
    BY <1>2, <2>1
<1>4. ~(v < w)
  <2> SUFFICES ASSUME v < w PROVE FALSE
    OBVIOUS
  <2>1. v * q + b < w * q
    BY <1>1
  <2> QED
    BY <1>2, <2>1
<1>5. w = v
  BY <1>3, <1>4
<1> QED
  BY <1>2, <1>5

LEMMA SizesFacts ==
    /\ NumThread \in Nat \ {0} /\ SampleSize \in Nat /\ DataPointNum \in Nat
    /\ Bits \in Nat /\ LSHDimensionality \in Nat
    /\ AlphabetCardinality = Power[Bits] /\ SampleSize >= AlphabetCardinality
    /\ DataSets \subseteq [Dims -> [0 .. DataPointNum - 1 -> Int]]
  BY NumThreadAssumption, SampleAssumption, BitsAssumption, AlphabetAssumption,
     DimensionalityAssumption, DataSetsAssumption

-----------------------------------------------------------------------------
(* Rearrangements.                                                         *)

PlacesOf(s, v) == {p \in Places : s[p] = v}

\* The same values, each as often.
SameValues(e, s) == \A v : Cardinality(PlacesOf(e, v)) = Cardinality(PlacesOf(s, v))

LEMMA PlacesFinite == \A S \in SUBSET Places : IsFiniteSet(S) /\ Cardinality(S) \in Nat
<1>1. IsFiniteSet(Places)
  BY SizesFacts, FS_Interval DEF Places
<1> QED
  BY <1>1, FS_Subset, FS_CardinalityType

LEMMA SameRange ==
    ASSUME NEW e, NEW s, SameValues(e, s)
    PROVE  {e[p] : p \in Places} = {s[p] : p \in Places}
<1>1. \A v : /\ PlacesOf(e, v) = {} <=> Cardinality(PlacesOf(e, v)) = 0
             /\ PlacesOf(s, v) = {} <=> Cardinality(PlacesOf(s, v)) = 0
  <2> SUFFICES ASSUME NEW S \in SUBSET Places PROVE S = {} <=> Cardinality(S) = 0
    BY DEF PlacesOf
  <2> QED
    BY PlacesFinite, FS_EmptySet
<1>2. \A v : PlacesOf(e, v) = {} <=> PlacesOf(s, v) = {}
  BY <1>1 DEF SameValues
<1>3. \A v : /\ v \in {e[p] : p \in Places} <=> PlacesOf(e, v) # {}
             /\ v \in {s[p] : p \in Places} <=> PlacesOf(s, v) # {}
  BY DEF PlacesOf
<1> QED
  BY <1>2, <1>3

\* An array that has the same elements as another in some range and is equal to
\* it elsewhere has the same values.
LEMMA RearrangedKeeps ==
    ASSUME NEW s, NEW first \in Nat, NEW last \in Int, last <= SampleSize,
           NEW e \in Rearranged(s, first, last)
    PROVE  SameValues(e, s)
<1> DEFINE range == first .. last - 1
           elements == {s[p] : p \in range}
           In(f, v) == {p \in range : f[p] = v}
<1>0. SampleSize \in Nat /\ range \subseteq Places
  BY SizesFacts DEF Places
<1>1. e \in {[p \in Places |-> IF p \in range THEN f[p] ELSE s[p]] :
                f \in {g \in [range -> elements] :
                          \A v \in elements : Cardinality(In(g, v)) = Cardinality(In(s, v))}}
  BY ONLY e \in Rearranged(s, first, last) DEF Rearranged
<1>2. PICK f \in [range -> elements] :
          /\ \A v \in elements : Cardinality(In(f, v)) = Cardinality(In(s, v))
          /\ e = [p \in Places |-> IF p \in range THEN f[p] ELSE s[p]]
  BY <1>0, <1>1
<1>3. ASSUME NEW v PROVE Cardinality(PlacesOf(e, v)) = Cardinality(PlacesOf(s, v))
  <2> DEFINE O == {p \in Places \ range : s[p] = v}
             A == In(f, v)
             B == In(s, v)
  <2>1. PlacesOf(e, v) = A \cup O /\ PlacesOf(s, v) = B \cup O
    BY <1>0, <1>2 DEF PlacesOf
  <2>2. A \in SUBSET Places /\ B \in SUBSET Places /\ O \in SUBSET Places /\ A \cap O = {} /\ B \cap O = {}
    BY <1>0
  <2>3. Cardinality(A) = Cardinality(B)
    <3>1. CASE v \in elements
      BY <1>2, <3>1
    <3>2. CASE v \notin elements
      <4>1. A = {} /\ B = {}
        BY <1>2, <3>2
      <4> QED
        BY <4>1
    <3> QED
      BY <3>1, <3>2
  <2> HIDE DEF A, B, O
  <2>4. IsFiniteSet(A) /\ IsFiniteSet(B) /\ IsFiniteSet(O)
    BY <2>2, PlacesFinite
  <2>5. /\ Cardinality(A \cup O) = Cardinality(A) + Cardinality(O) - Cardinality(A \cap O)
        /\ Cardinality(B \cup O) = Cardinality(B) + Cardinality(O) - Cardinality(B \cap O)
    BY <2>4, FS_Union
  <2> QED
    BY <2>1, <2>2, <2>3, <2>5
<1> QED
  BY <1>3 DEF SameValues

\* Whatever nth_element does with its range, inside its contract or not.
LEMMA NthElementKeeps ==
    ASSUME NEW s, NEW first \in Nat, NEW nth, NEW last \in Int, last <= SampleSize,
           NEW e \in NthElement(s, first, nth, last)
    PROVE  SameValues(e, s)
<1>1. CASE e = s
  BY <1>1 DEF SameValues
<1>2. CASE e \in Rearranged(s, first, last)
  BY <1>2, RearrangedKeeps
<1> QED
  BY <1>1, <1>2 DEF NthElement

-----------------------------------------------------------------------------
(* Which line a turn of the loop sets.                                     *)

LEMMA Exact == ASSUME NEW a \in Nat \ {0}, NEW b \in Nat PROVE (a * b) \div a = b
<1> PICK c : c = a * b
  OBVIOUS
<1>0. c \in Nat
  BY Grows
<1> PICK x : x = c \div a
  OBVIOUS
<1>1. x \in Nat /\ x * a <= c /\ c < x * a + a
  BY ONLY <1>0, x = c \div a, a \in Nat \ {0}, Quotients
<1>2. c = b * a
  BY SMT
<1>3. ~(x < b)
  <2> SUFFICES ASSUME x < b PROVE FALSE
    OBVIOUS
  <2>1. (x + 1) * a <= b * a /\ (x + 1) * a = x * a + a
    BY <1>1, Grows, NextMultiple
  <2> QED
    BY <1>1, <1>2, <2>1, Grows
<1>4. ~(b < x)
  <2> SUFFICES ASSUME b < x PROVE FALSE
    OBVIOUS
  <2>1. (b + 1) * a <= x * a /\ (b + 1) * a = b * a + a
    BY <1>1, Grows, NextMultiple
  <2> QED
    BY <1>0, <1>1, <1>2, <2>1, Grows
<1> QED
  BY <1>1, <1>3, <1>4

LEMMA Factor == ASSUME NEW a \in Nat, NEW b \in Nat, 1 <= b PROVE a <= a * b
<1>1. 1 * a <= b * a
  BY Grows
<1>2. 1 * a = a /\ b * a = a * b
  BY SMT
<1> QED
  BY <1>1, <1>2

LEMMA TwiceMoves == ASSUME NEW a \in Nat, NEW b \in Nat PROVE (2 * a) * b = a * (2 * b) /\ a * b \in Nat
  BY SMT

LEMMA PowerSplit == ASSUME NEW r \in 0 .. Bits PROVE Power[Bits] = Power[r] * Power[Bits - r]
<1>0. Bits \in Nat
  BY BitsAssumption, AlphabetAssumption
<1> DEFINE T == {n \in Nat : Power[Bits] = Power[n] * Power[Bits - n]}
<1>1. 0 \in T
  BY <1>0, PowerFacts
<1>2. ASSUME NEW n \in 1 .. Bits, n - 1 \in T PROVE n \in T
  <2> PICK a : a = Power[n - 1]
    OBVIOUS
  <2> PICK b : b = Power[Bits - n]
    OBVIOUS
  <2>1. n - 1 \in 0 .. Bits /\ Bits - n \in 0 .. Bits /\ Bits - (n - 1) \in 1 .. Bits
        /\ (Bits - (n - 1)) - 1 = Bits - n
    BY <1>0
  <2>2. a \in Nat /\ b \in Nat /\ Power[n] = 2 * a /\ Power[Bits - (n - 1)] = 2 * b
    BY <2>1, PowerFacts
  <2>3. Power[Bits] = a * (2 * b)
    BY <1>2, <2>2
  <2> QED
    BY <2>2, <2>3, TwiceMoves
<1>3. 0 .. Bits \subseteq T
  <2>1. \A n \in 1 .. Bits : n - 1 \in T => n \in T
    BY <1>2
  <2> HIDE DEF T
  <2> QED
    BY <1>0, <1>1, <2>1, Induction
<1> QED
  BY <1>3

\* Turn u of round r reads a place of the sample, and sets a line of its own.
LineAt(r, u) == (2 * u - 1) * Power[Bits - r] - 1

LEMMA LinePlace ==
    ASSUME NEW r \in 1 .. Bits, NEW u \in 1 .. Power[r - 1]
    PROVE  LET interval == Interval(r)
               start == (2 * u - 2) * interval
               end == IF u = LinesToInsert(r) THEN SampleSize - 1 ELSE (2 * u) * interval - 1
           IN  /\ start \in Nat /\ end \in Int /\ end <= SampleSize
               /\ start + interval \in Places
<1> PICK q : q = Interval(r)
  OBVIOUS
<1> PICK N \in Nat : N = SampleSize
  BY SizesFacts
<1>0. r \in 0 .. Bits /\ r - 1 \in 0 .. Bits /\ Bits - r \in 0 .. Bits
  BY BitsAssumption, AlphabetAssumption
<1> PICK a : a = Power[r]
  OBVIOUS
<1>1. a \in Nat \ {0} /\ a = 2 * Power[r - 1] /\ Power[r - 1] \in Nat
  BY <1>0, PowerFacts
<1>2. q = N \div a
  BY DEF Interval
<1>3. q \in Nat /\ q * a <= N /\ N < q * a + a
  BY ONLY <1>1, <1>2, N \in Nat, Quotients
<1>4. q # 0
  <2> PICK b : b = Power[Bits - r]
    OBVIOUS
  <2>1. Power[Bits] = a * b /\ b \in Nat /\ 1 <= b
    BY <1>0, PowerSplit, PowerFacts
  <2>2. N >= Power[Bits]
    BY SizesFacts
  <2>3. a <= N
    BY ONLY <1>1, <2>1, <2>2, N \in Nat, Factor
  <2> QED
    BY ONLY <1>1, <1>3, <2>3, N \in Nat
<1>5. u \in Nat /\ 1 <= u /\ 2 * u \in Nat /\ 2 * u <= a /\ 2 * u - 2 \in Nat
  BY <1>1
<1>6. (2 * u) * q <= a * q /\ (2 * u) * q \in Nat /\ a * q = q * a /\ (2 * u - 2) * q \in Nat
  BY <1>1, <1>3, <1>5, Grows
<1>7. (2 * u) * q = (2 * u - 2) * q + q + q
  <2>1. ((2 * u - 2) + 1) * q = (2 * u - 2) * q + q
    BY <1>3, <1>5, NextMultiple
  <2>2. ((2 * u - 1) + 1) * q = (2 * u - 1) * q + q
    BY <1>3, <1>5, NextMultiple
  <2>3. (2 * u - 2) + 1 = 2 * u - 1 /\ (2 * u - 1) + 1 = 2 * u
    BY <1>5
  <2> QED
    BY <2>1, <2>2, <2>3
<1> PICK s : s = (2 * u - 2) * q
  OBVIOUS
<1> PICK t : t = (2 * u) * q
  OBVIOUS
<1>8. s \in Nat /\ t \in Nat /\ t = s + q + q /\ t <= N /\ s + q < N
  BY ONLY s = (2 * u - 2) * q, t = (2 * u) * q, <1>1, <1>3, <1>4, <1>6, <1>7, N \in Nat
<1> QED
  BY <1>3, <1>8 DEF Places

LEMMA LineFacts ==
    ASSUME NEW r \in 1 .. Bits, NEW u \in 1 .. Power[r - 1]
    PROVE  LineAt(r, u) \in Lines
<1>0. r \in 0 .. Bits /\ r - 1 \in 0 .. Bits /\ Bits - r \in 0 .. Bits
  BY BitsAssumption, AlphabetAssumption
<1> PICK a : a = Power[r]
  OBVIOUS
<1> PICK b : b = Power[Bits - r]
  OBVIOUS
<1>1. a \in Nat /\ a = 2 * Power[r - 1] /\ Power[r - 1] \in Nat /\ b \in Nat /\ 1 <= b
  BY <1>0, PowerFacts
<1>2. AlphabetCardinality = a * b
  BY <1>0, PowerSplit, BitsAssumption, AlphabetAssumption
<1>3. 2 * u \in Nat /\ 2 * u <= a /\ 2 * u - 1 \in Nat /\ 1 <= 2 * u - 1
  BY <1>1
<1>4. (2 * u) * b <= a * b /\ ((2 * u - 1) + 1) * b = (2 * u - 1) * b + b /\ (2 * u - 1) + 1 = 2 * u
      /\ (2 * u - 1) * b \in Nat /\ 1 * b <= (2 * u - 1) * b /\ 1 * b = b
  BY <1>1, <1>3, Grows, NextMultiple
<1> PICK c : c = (2 * u - 1) * b
  OBVIOUS
<1>5. c \in Nat /\ b <= c /\ c + b <= AlphabetCardinality
  BY <1>2, <1>4
<1>6. LineAt(r, u) = c - 1
  BY DEF LineAt
<1> QED
  BY <1>1, <1>5, <1>6, CardinalityAssumption DEF Lines

\* The lines that are set before turn u of round r: the even places of the
\* round are those of the rounds before it.
IsSet(r, u, l) == \/ \E m \in Nat : l + 1 = m * Power[Bits + 1 - r]
                  \/ \E v \in 1 .. u - 1 : l = LineAt(r, v)

LEMMA NoneSet == \A l \in Lines : ~IsSet(1, 1, l)
<1> SUFFICES ASSUME NEW l \in Lines, NEW m \in Nat, l + 1 = m * Power[Bits] PROVE FALSE
  BY BitsAssumption, AlphabetAssumption DEF IsSet
<1> PICK P : P = Power[Bits]
  OBVIOUS
<1>1. P \in Nat /\ l \in Nat /\ l + 1 < P /\ 0 < l + 1
  BY BitsAssumption, AlphabetAssumption, CardinalityAssumption DEF Lines
<1>2. CASE m = 0
  <2>1. 0 * P = 0
    BY <1>1
  <2> QED
    BY <1>1, <1>2, <2>1
<1>3. CASE 1 <= m
  <2>1. P <= P * m /\ P * m = m * P
    BY <1>1, <1>3, Factor
  <2> QED
    BY <1>1, <2>1
<1> QED
  BY <1>2, <1>3

LEMMA AllSet == \A l \in Lines : \A u : IsSet(Bits + 1, u, l)
<1> SUFFICES ASSUME NEW l \in Lines PROVE l + 1 \in Nat /\ l + 1 = (l + 1) * Power[Bits + 1 - (Bits + 1)]
  BY DEF IsSet
<1>1. l + 1 \in Nat /\ Bits + 1 - (Bits + 1) = 0
  BY BitsAssumption, AlphabetAssumption, CardinalityAssumption DEF Lines
<1>2. Power[Bits + 1 - (Bits + 1)] = 1
  BY <1>1, PowerFacts
<1> QED
  BY <1>1, <1>2

\* After the last turn of a round the next one finds its even places set.
LEMMA RoundEnds ==
    ASSUME NEW r \in 1 .. Bits, NEW l \in Lines, IsSet(r + 1, 1, l)
    PROVE  IsSet(r, Power[r - 1], l) \/ l = LineAt(r, Power[r - 1])
<1>0. Bits \in Nat /\ r \in 0 .. Bits /\ r - 1 \in 0 .. Bits /\ Bits - r \in 0 .. Bits
      /\ Bits + 1 - (r + 1) = Bits - r /\ Bits + 1 - r \in 1 .. Bits /\ (Bits + 1 - r) - 1 = Bits - r
  BY BitsAssumption, AlphabetAssumption
<1> PICK a : a = Power[r]
  OBVIOUS
<1> PICK half : half = Power[r - 1]
  OBVIOUS
<1> PICK b : b = Power[Bits - r]
  OBVIOUS
<1>1. a \in Nat /\ a = 2 * half /\ half \in Nat /\ half >= 1 /\ b \in Nat /\ 1 <= b
      /\ Power[Bits + 1 - r] = 2 * b
  BY <1>0, PowerFacts
<1> PICK m \in Nat : l + 1 = m * b
  <2>1. ~\E v \in 1 .. 1 - 1 : l = LineAt(r + 1, v)
    OBVIOUS
  <2> QED
    BY <1>0, <2>1 DEF IsSet
<1>2. CASE \E n \in Nat : m = 2 * n
  <2> PICK n \in Nat : m = 2 * n
    BY <1>2
  <2>1. l + 1 = n * (2 * b)
    BY <1>1, TwiceMoves
  <2> QED
    BY <1>1, <2>1 DEF IsSet
<1>3. CASE \E v \in Nat \ {0} : m = 2 * v - 1
  <2> PICK v \in Nat \ {0} : m = 2 * v - 1
    BY <1>3
  <2>1. l \in Int /\ l = LineAt(r, v)
    BY <1>1 DEF LineAt, Lines
  <2>2. v <= half
    <3>1. AlphabetCardinality = a * b /\ l + 1 < AlphabetCardinality
      BY <1>0, PowerSplit, BitsAssumption, AlphabetAssumption, CardinalityAssumption DEF Lines
    <3>2. ~(a <= m)
      <4> SUFFICES ASSUME a <= m PROVE FALSE
        OBVIOUS
      <4>1. a * b <= m * b /\ a * b \in Nat /\ m * b \in Nat
        BY <1>1, Grows
      <4> QED
        BY <2>1, <3>1, <4>1
    <3> QED
      BY <1>1, <3>2
  <2> QED
    BY <1>1, <2>1, <2>2 DEF IsSet
<1>4. m \div 2 \in Nat /\ (m = 2 * (m \div 2) \/ m = 2 * ((m \div 2) + 1) - 1)
  BY SMT
<1> PICK h \in Nat : m = 2 * h \/ m = 2 * (h + 1) - 1
  BY <1>4
<1>5. h + 1 \in Nat \ {0}
  OBVIOUS
<1> QED
  BY <1>2, <1>3, <1>5

\* Turn u of round r adds its own line.
LEMMA TurnEnds ==
    ASSUME NEW r, NEW u \in Nat \ {0}, NEW l, IsSet(r, u + 1, l)
    PROVE  IsSet(r, u, l) \/ l = LineAt(r, u)
  BY DEF IsSet

-----------------------------------------------------------------------------
(* The invariant.                                                          *)

\* The values that breakpoints_selection has for a dimension, and those it
\* takes them from.
Sampled(d) == {sampled_data[d][p] : p \in Places}
Projections(d) == {data[d][n] : n \in 0 .. DataPointNum - 1}

SelTypes ==
    /\ sample_type \in SampleTypes
    /\ data \in DataSets
    /\ main \in {"sample", "select", "done"}
    /\ sampled_data \in [Dims -> [Places -> Int]]
    /\ i \in [Workers -> Nat]
    /\ \A w \in Workers : i[w] <= Records(w)
    /\ dim \in [Workers -> Nat]
    /\ round \in [Workers -> 1 .. Bits + 1]
    /\ j \in [Workers -> Nat \ {0}]
    /\ \A w \in Workers : j[w] <= Power[round[w] - 1]
    /\ interval_lines \in [Workers -> [Lines -> Int]]
    /\ bins \in [Dims -> [Lines -> Int]]

\* What the workers have sampled so far is in its places.
SampledSoFar ==
    main = "sample" => \A d \in Dims, w \in Workers : \A n \in 0 .. i[w] - 1 :
        /\ sampled_data[d][Offset(w) + n] \in Projections(d)
        /\ sample_type # Random =>
               sampled_data[d][Offset(w) + n] = data[d][StartNumber(sample_type, w) + n]

\* The selection starts from nothing.
Fresh == main = "sample" => round = [w \in Workers |-> 1] /\ j = [w \in Workers |-> 1]

\* Every line that a worker has set for its dimension is from the sample.
LinesSoFar ==
    main # "sample" => \A w \in Workers : dim[w] \in Dims =>
        \A l \in Lines : IsSet(round[w], j[w], l) => interval_lines[w][l] \in Sampled(dim[w])

\* So are the bins of the dimensions it is done with.
BinsSoFar ==
    main # "sample" => \A w \in Workers : \A d \in Dims :
        StartDim(w) <= d /\ d < dim[w] => \A l \in Lines : bins[d][l] \in Sampled(d)

\* The join waits for all.
AllSelected == main = "done" => \A w \in Workers : dim[w] >= StopDim(w)

SelInv == SelTypes /\ SampledSoFar /\ Fresh /\ LinesSoFar /\ BinsSoFar /\ AllSelected
          /\ SampleWhole

LEMMA WorkerFacts ==
    ASSUME NEW w \in Workers
    PROVE  /\ w \in 0 .. NumThread - 1
           /\ Records(w) = Share(SampleSize, NumThread, w)
           /\ Offset(w) = w * (SampleSize \div NumThread)
           /\ Records(w) \in Nat /\ Offset(w) \in Nat
           /\ Offset(w) + Records(w) <= SampleSize
           /\ StartDim(w) \in Nat
           /\ StopDim(w) = w * (LSHDimensionality \div NumThread) + Share(LSHDimensionality, NumThread, w)
           /\ StopDim(w) \in Nat /\ StopDim(w) <= LSHDimensionality
<1>1. NumThread \in Nat \ {0} /\ SampleSize \in Nat /\ LSHDimensionality \in Nat /\ w \in 0 .. NumThread - 1
  BY SizesFacts DEF Workers
<1>2. Records(w) = Share(SampleSize, NumThread, w) /\ Offset(w) = w * (SampleSize \div NumThread)
  BY DEF Records, Offset, Share
<1>3. /\ Records(w) \in Nat /\ Offset(w) \in Nat
      /\ Offset(w) + Records(w) <= SampleSize
  BY <1>1, <1>2, Shares
<1> PICK q : q = LSHDimensionality \div NumThread
  OBVIOUS
<1>4. /\ q \in Nat /\ w * q \in Nat /\ Share(LSHDimensionality, NumThread, w) \in Nat
      /\ w * q + Share(LSHDimensionality, NumThread, w) <= LSHDimensionality
  BY <1>1, Shares
<1>5. StartDim(w) = w * q
  BY DEF StartDim
<1>6. StopDim(w) = w * q + Share(LSHDimensionality, NumThread, w)
  <2>1. (w + 1) * q = w * q + q
    BY <1>1, <1>4, NextMultiple
  <2>2. StopDim(w) = IF w = NumThread - 1 THEN LSHDimensionality ELSE (w + 1) * q
    BY DEF StopDim
  <2>3. Share(LSHDimensionality, NumThread, w) =
            IF w = NumThread - 1 THEN LSHDimensionality - (NumThread - 1) * q ELSE q
    BY DEF Share
  <2>4. CASE w = NumThread - 1
    <3> PICK x : x = (NumThread - 1) * q
      OBVIOUS
    <3>1. x = w * q /\ x \in Nat
      BY <1>4, <2>4
    <3>2. StopDim(w) = LSHDimensionality
      BY <2>2, <2>4
    <3>3. Share(LSHDimensionality, NumThread, w) = LSHDimensionality - x
      BY <2>3, <2>4
    <3>4. w * q + (LSHDimensionality - x) = LSHDimensionality
      BY ONLY <1>1, <3>1
    <3> QED
      BY ONLY <3>2, <3>3, <3>4
  <2>5. CASE w # NumThread - 1
    BY <1>1, <1>4, <2>1, <2>2, <2>3, <2>5
  <2> QED
    BY <2>4, <2>5
<1> QED
  BY <1>1, <1>2, <1>3, <1>4, <1>5, <1>6

LEMMA PlaceFacts ==
    ASSUME NEW w \in Workers, NEW n \in 0 .. Records(w) - 1
    PROVE  Offset(w) + n \in Places /\ n \in Places /\ n < Records(w)
<1> PICK a : a = Offset(w)
  OBVIOUS
<1> PICK b : b = Records(w)
  OBVIOUS
<1>1. a \in Nat /\ b \in Nat /\ a + b <= SampleSize /\ SampleSize \in Nat /\ n \in 0 .. b - 1
  BY WorkerFacts, SizesFacts
<1>2. a + n \in 0 .. SampleSize - 1 /\ n \in 0 .. SampleSize - 1 /\ n < b
  BY ONLY <1>1
<1> QED
  BY <1>2 DEF Places

\* Both parts leave no gap between the workers.
LEMMA PlacesShared ==
    ASSUME NEW p \in Places
    PROVE  \E w \in Workers : \E n \in 0 .. Records(w) - 1 : p = Offset(w) + n
<1>1. NumThread \in Nat \ {0} /\ SampleSize \in Nat /\ p \in 0 .. SampleSize - 1
  BY SizesFacts DEF Places
<1> PICK w \in 0 .. NumThread - 1 :
        /\ w * (SampleSize \div NumThread) <= p
        /\ p < w * (SampleSize \div NumThread) + Share(SampleSize, NumThread, w)
  BY <1>1, SharesCover
<1>2. w \in Workers
  BY DEF Workers
<1>3. Offset(w) \in Nat /\ Records(w) \in Nat /\ Offset(w) <= p
      /\ p < Offset(w) + Records(w)
  BY <1>2, WorkerFacts
<1> DEFINE n == p - Offset(w)
<1>4. n \in 0 .. Records(w) - 1 /\ p = Offset(w) + n
  BY <1>1, <1>3
<1> QED
  BY <1>2, <1>4

LEMMA DimsShared ==
    ASSUME NEW d \in Dims
    PROVE  \E w \in Workers : StartDim(w) <= d /\ d < StopDim(w)
<1>1. NumThread \in Nat \ {0} /\ LSHDimensionality \in Nat /\ d \in 0 .. LSHDimensionality - 1
  BY SizesFacts DEF Dims
<1> PICK w \in 0 .. NumThread - 1 :
        /\ w * (LSHDimensionality \div NumThread) <= d
        /\ d < w * (LSHDimensionality \div NumThread) + Share(LSHDimensionality, NumThread, w)
  BY <1>1, SharesCover
<1>2. w \in Workers
  BY DEF Workers
<1> QED
  BY <1>2, WorkerFacts DEF StartDim

\* No place is two workers'.
LEMMA PlacesApart ==
    ASSUME NEW w \in Workers, NEW v \in Workers,
           NEW a \in 0 .. Records(w) - 1, NEW b \in 0 .. Records(v) - 1,
           Offset(w) + a = Offset(v) + b
    PROVE  w = v /\ a = b
<1>1. NumThread \in Nat \ {0} /\ SampleSize \in Nat /\ w \in 0 .. NumThread - 1 /\ v \in 0 .. NumThread - 1
  BY SizesFacts DEF Workers
<1>2. /\ a \in 0 .. Share(SampleSize, NumThread, w) - 1
      /\ b \in 0 .. Share(SampleSize, NumThread, v) - 1
      /\ w * (SampleSize \div NumThread) + a = v * (SampleSize \div NumThread) + b
  BY WorkerFacts
<1> QED
  BY ONLY <1>1, <1>2, SharesApart, ZenonT(60)

-----------------------------------------------------------------------------
(* Sampling.                                                               *)

Named(d, v) ==
    {x \in Workers \X Places :
        x[2] < Records(x[1]) /\ data[d][StartNumber(sample_type, x[1]) + x[2]] = v}

LEMMA WholeMeans ==
    SampleWhole <=>
        (main # "sample" => \A d \in Dims :
            /\ \A p \in Places : sampled_data[d][p] \in Projections(d)
            /\ sample_type # Random => \A v \in Projections(d) :
                   Cardinality(PlacesOf(sampled_data[d], v)) = Cardinality(Named(d, v)))
  BY DEF SampleWhole, Projections, PlacesOf, Named

LEMMA WholeMeansThen ==
    SampleWhole' <=>
        (main' # "sample" => \A d \in Dims :
            /\ \A p \in Places : sampled_data'[d][p] \in Projections(d)'
            /\ sample_type' # Random => \A v \in Projections(d)' :
                   Cardinality(PlacesOf(sampled_data'[d], v)) = Cardinality(Named(d, v)'))
  BY DEF SampleWhole, Projections, PlacesOf, Named

\* When all are joined, what a value is named by and where it is held are as many.
LEMMA JoinCounts ==
    ASSUME SelTypes, SampledSoFar, main = "sample",
           \A w \in Workers : i[w] >= Records(w),
           sample_type # Random, NEW d \in Dims, NEW v
    PROVE  Cardinality(PlacesOf(sampled_data[d], v)) = Cardinality(Named(d, v))
<1> DEFINE S == Named(d, v)
           T == PlacesOf(sampled_data[d], v)
           Place(x) == Offset(x[1]) + x[2]
           f == [x \in S |-> Place(x)]
<1>1. \A w \in Workers : \A n \in 0 .. Records(w) - 1 :
          /\ Offset(w) + n \in Places
          /\ sampled_data[d][Offset(w) + n] = data[d][StartNumber(sample_type, w) + n]
  <2> SUFFICES ASSUME NEW w \in Workers, NEW n \in 0 .. Records(w) - 1
               PROVE  /\ Offset(w) + n \in Places
                      /\ sampled_data[d][Offset(w) + n] = data[d][StartNumber(sample_type, w) + n]
    OBVIOUS
  <2>1. Records(w) \in Nat /\ i[w] \in Nat /\ i[w] >= Records(w)
    BY WorkerFacts DEF SelTypes
  <2>2. n \in 0 .. i[w] - 1
    BY <2>1
  <2>3. Offset(w) + n \in Places
    BY PlaceFacts
  <2> QED
    BY <2>2, <2>3 DEF SampledSoFar
<1>2. \A x \in S : /\ x[1] \in Workers /\ x[2] \in 0 .. Records(x[1]) - 1
                   /\ x = <<x[1], x[2]>>
                   /\ data[d][StartNumber(sample_type, x[1]) + x[2]] = v
  BY WorkerFacts DEF Named, Places
<1>3. \A x \in S : Place(x) \in T
  BY <1>1, <1>2 DEF PlacesOf
<1>4. \A x, y \in S : Place(x) = Place(y) => x = y
  BY <1>2, PlacesApart
<1>5. \A t \in T : \E x \in S : Place(x) = t
  <2> SUFFICES ASSUME NEW t \in T PROVE \E x \in S : Place(x) = t
    OBVIOUS
  <2>1. t \in Places /\ sampled_data[d][t] = v
    BY DEF PlacesOf
  <2> PICK w \in Workers : \E n \in 0 .. Records(w) - 1 : t = Offset(w) + n
    BY <2>1, PlacesShared
  <2> PICK n \in 0 .. Records(w) - 1 : t = Offset(w) + n
    OBVIOUS
  <2>2. n \in Places /\ n < Records(w)
    BY PlaceFacts
  <2>3. data[d][StartNumber(sample_type, w) + n] = v
    BY <1>1, <2>1
  <2>4. <<w, n>> \in S
    BY <2>2, <2>3 DEF Named
  <2> QED
    BY <2>4
<1>6. IsFiniteSet(T)
  BY PlacesFinite DEF PlacesOf
<1> HIDE DEF S, T, Place
<1>7. f \in Injection(S, T)
  BY <1>3, <1>4 DEF Injection, IsInjective
<1>8. f \in Surjection(S, T)
  BY <1>3, <1>5 DEF Surjection
<1>9. Cardinality(S) = Cardinality(T)
  BY <1>6, <1>7, <1>8, FS_Injection
<1> QED
  BY <1>9 DEF S, T

\* A sampled record is from the data.
LEMMA SampleInRange ==
    ASSUME SelTypes, NEW w \in Workers, NEW n \in 0 .. Records(w) - 1, NEW d \in Dims,
           NEW x \in Candidates(sample_type, w, n)
    PROVE  /\ data[d][x] \in Projections(d)
           /\ data[d][x] \in Int
           /\ sample_type # Random => x = StartNumber(sample_type, w) + n
<1>1. x \in 0 .. DataPointNum - 1
  BY RecordsAssumption DEF SelTypes
<1>2. data \in [Dims -> [0 .. DataPointNum - 1 -> Int]]
  BY SizesFacts DEF SelTypes
<1>3. sample_type # Random => x = StartNumber(sample_type, w) + n
  BY DEF Candidates
<1> QED
  BY <1>1, <1>2, <1>3 DEF Projections

LEMMA InitFacts == ASSUME SelectionInit PROVE SelInv
<1>1. SelTypes
  <2>1. /\ sampled_data = [d \in Dims |-> [p \in Places |-> 0]]
        /\ bins = [d \in Dims |-> [l \in Lines |-> FltMax]]
        /\ interval_lines = [w \in Workers |-> [l \in Lines |-> 0]]
    BY DEF SelectionInit, NoLines
  <2>2. /\ i = [w \in Workers |-> 0] /\ dim = [w \in Workers |-> 0]
        /\ round = [w \in Workers |-> 1] /\ j = [w \in Workers |-> 1]
        /\ main = "sample" /\ sample_type \in SampleTypes /\ data \in DataSets
    BY DEF SelectionInit
  <2>3. \A w \in Workers : i[w] <= Records(w)
    BY <2>2, WorkerFacts
  <2>4. \A w \in Workers : j[w] <= Power[round[w] - 1]
    BY <2>2, PowerFacts
  <2>5. 1 \in 1 .. Bits + 1
    BY BitsAssumption, AlphabetAssumption
  <2> QED
    BY <2>1, <2>2, <2>3, <2>4, <2>5 DEF SelTypes, FltMax
<1>2. main = "sample" /\ i = [w \in Workers |-> 0]
      /\ round = [w \in Workers |-> 1] /\ j = [w \in Workers |-> 1]
  BY DEF SelectionInit
<1>3. SampledSoFar
  BY <1>2 DEF SampledSoFar
<1> QED
  BY <1>1, <1>2, <1>3, WholeMeans DEF SelInv, Fresh, LinesSoFar, BinsSoFar, AllSelected

LEMMA SampleStep ==
    ASSUME SelInv, NEW w \in Workers, Sample(w)
    PROVE  SelInv'
<1>1. /\ main = "sample" /\ main' = "sample" /\ i[w] < Records(w)
      /\ i' = [i EXCEPT ![w] = @ + 1]
      /\ UNCHANGED <<sample_type, data, dim, round, j, interval_lines, bins>>
  BY DEF Sample, selecting
<1> PICK drawn \in [Dims -> Candidates(sample_type, w, i[w])] :
        sampled_data' = [d \in Dims |->
            [sampled_data[d] EXCEPT ![Offset(w) + i[w]] = data[d][drawn[d]]]]
  BY DEF Sample
<1>2. SelTypes
  BY DEF SelInv
<1> PICK n : n = i[w]
  OBVIOUS
<1>3. n \in Nat /\ n \in 0 .. Records(w) - 1
  <2>1. n \in Nat /\ n < Records(w) /\ Records(w) \in Nat
    BY <1>1, <1>2, WorkerFacts DEF SelTypes
  <2> QED
    BY ONLY <2>1
<1>4. /\ Offset(w) + n \in Places
      /\ \A d \in Dims : /\ data[d][drawn[d]] \in Projections(d) /\ data[d][drawn[d]] \in Int
                         /\ sample_type # Random =>
                                data[d][drawn[d]] = data[d][StartNumber(sample_type, w) + n]
  BY <1>2, <1>3, PlaceFacts, SampleInRange
<1>5. \A d \in Dims, p \in Places : sampled_data'[d][p] =
          IF p = Offset(w) + n THEN data[d][drawn[d]] ELSE sampled_data[d][p]
  BY <1>2 DEF SelTypes
<1>6. SelTypes'
  <2>1. sampled_data' \in [Dims -> [Places -> Int]]
    BY <1>2, <1>4 DEF SelTypes
  <2>2. i' \in [Workers -> Nat]
    BY <1>1, <1>2 DEF SelTypes
  <2>3. \A v \in Workers : i'[v] <= Records(v)
    BY <1>1, <1>2, WorkerFacts DEF SelTypes
  <2> QED
    BY <1>1, <1>2, <2>1, <2>2, <2>3 DEF SelTypes
<1>7. SampledSoFar'
  <2> SUFFICES ASSUME NEW d \in Dims, NEW v \in Workers, NEW m \in 0 .. i'[v] - 1
               PROVE  /\ sampled_data'[d][Offset(v) + m] \in Projections(d)
                      /\ sample_type # Random =>
                             sampled_data'[d][Offset(v) + m] = data[d][StartNumber(sample_type, v) + m]
    BY <1>1 DEF SampledSoFar, Projections
  <2>1. i'[v] \in Nat /\ i'[v] <= Records(v) /\ Records(v) \in Nat
    BY <1>6, WorkerFacts DEF SelTypes
  <2>2. m \in 0 .. Records(v) - 1
    BY ONLY <2>1, m \in 0 .. i'[v] - 1
  <2>3. Offset(v) + m \in Places
    BY <2>2, PlaceFacts
  <2>4. CASE v = w /\ m = n
    BY <1>4, <1>5, <2>3, <2>4
  <2>5. CASE ~(v = w /\ m = n)
    <3>1. Offset(v) + m # Offset(w) + n
      BY <1>3, <2>2, <2>5, PlacesApart
    <3>2. m \in 0 .. i[v] - 1
      <4>1. i[v] \in Nat /\ i'[v] = IF v = w THEN n + 1 ELSE i[v]
        BY <1>1, <1>2 DEF SelTypes
      <4>2. CASE v # w
        BY <4>1, <4>2
      <4>3. CASE v = w
        <5>1. i'[v] = n + 1 /\ i[v] = n /\ m # n
          BY <2>5, <4>1, <4>3
        <5> QED
          BY ONLY <1>3, <5>1, m \in 0 .. i'[v] - 1
      <4> QED
        BY <4>2, <4>3
    <3> QED
      BY <1>1, <1>5, <2>3, <3>1, <3>2 DEF SelInv, SampledSoFar
  <2> QED
    BY <2>4, <2>5
<1>8. Fresh'
  BY <1>1 DEF SelInv, Fresh
<1>9. SampleWhole'
  BY <1>1 DEF SampleWhole
<1> QED
  BY <1>1, <1>6, <1>7, <1>8, <1>9 DEF SelInv, LinesSoFar, BinsSoFar, AllSelected

LEMMA JoinSamplingStep ==
    ASSUME SelInv, JoinSampling
    PROVE  SelInv'
<1>1. /\ main = "sample" /\ main' = "select"
      /\ \A w \in Workers : i[w] >= Records(w)
      /\ dim' = [w \in Workers |-> StartDim(w)]
      /\ UNCHANGED <<sample_type, data, sampled_data, i, round, j, interval_lines, bins>>
  BY DEF JoinSampling, sampling
<1>2. SelTypes /\ SampledSoFar /\ Fresh
  BY DEF SelInv
<1>3. SelTypes'
  <2>1. dim' \in [Workers -> Nat]
    BY <1>1, WorkerFacts
  <2> QED
    BY <1>1, <1>2, <2>1 DEF SelTypes
<1>4. SampleWhole'
  <2>1. \A d \in Dims : \A p \in Places : sampled_data[d][p] \in Projections(d)
    <3> SUFFICES ASSUME NEW d \in Dims, NEW p \in Places PROVE sampled_data[d][p] \in Projections(d)
      OBVIOUS
    <3> PICK w \in Workers : \E n \in 0 .. Records(w) - 1 : p = Offset(w) + n
      BY PlacesShared
    <3> PICK n \in 0 .. Records(w) - 1 : p = Offset(w) + n
      OBVIOUS
    <3>1. i[w] \in Nat /\ i[w] >= Records(w) /\ Records(w) \in Nat
      BY <1>1, <1>2, WorkerFacts DEF SelTypes
    <3>2. n \in 0 .. i[w] - 1
      BY ONLY <3>1, n \in 0 .. Records(w) - 1
    <3> QED
      BY <1>1, <1>2, <3>2 DEF SampledSoFar
  <2>2. sample_type # Random => \A v : \A d \in Dims :
            Cardinality(PlacesOf(sampled_data[d], v)) = Cardinality(Named(d, v))
    BY <1>1, <1>2, JoinCounts
  <2>3. \A v : \A d \in Dims : Projections(d)' = Projections(d) /\ Named(d, v)' = Named(d, v)
    BY <1>1 DEF Projections, Named
  <2> QED
    BY <1>1, <2>1, <2>2, <2>3, WholeMeansThen
<1>5. LinesSoFar'
  <2>1. \A w \in Workers : round'[w] = 1 /\ j'[w] = 1
    BY <1>1, <1>2 DEF Fresh
  <2> QED
    BY <2>1, NoneSet DEF LinesSoFar
<1>6. BinsSoFar'
  <2> SUFFICES ASSUME NEW w \in Workers, NEW d \in Dims, StartDim(w) <= d /\ d < dim'[w] PROVE FALSE
    BY DEF BinsSoFar
  <2>1. dim'[w] = StartDim(w) /\ StartDim(w) \in Nat /\ d \in Nat
    BY <1>1, WorkerFacts DEF Dims
  <2> QED
    BY <2>1
<1> QED
  BY <1>1, <1>3, <1>4, <1>5, <1>6 DEF SelInv, SampledSoFar, Fresh, AllSelected

-----------------------------------------------------------------------------
(* Selection.                                                              *)

LEMMA NthElementType ==
    ASSUME NEW s \in [Places -> Int], NEW first \in Nat, NEW nth, NEW last \in Int, last <= SampleSize,
           NEW e \in NthElement(s, first, nth, last)
    PROVE  e \in [Places -> Int]
<1>1. CASE e = s
  BY <1>1
<1>2. CASE e \in Rearranged(s, first, last)
  <2> DEFINE range == first .. last - 1
             elements == {s[p] : p \in range}
  <2>1. SampleSize \in Nat /\ range \subseteq Places
    BY SizesFacts DEF Places
  <2>2. e \in {[p \in Places |-> IF p \in range THEN f[p] ELSE s[p]] : f \in [range -> elements]}
    BY <1>2 DEF Rearranged
  <2> PICK f \in [range -> elements] : e = [p \in Places |-> IF p \in range THEN f[p] ELSE s[p]]
    BY <2>1, <2>2
  <2>3. elements \subseteq Int
    BY <2>1
  <2> HIDE DEF range, elements
  <2> QED
    BY <2>3
<1> QED
  BY <1>1, <1>2 DEF NthElement

\* Steps that only rearrange the sample keep it whole.
LEMMA SampleKept ==
    ASSUME SampleWhole, main # "sample", UNCHANGED <<sample_type, data>>,
           \A d \in Dims : SameValues(sampled_data'[d], sampled_data[d])
    PROVE  SampleWhole' /\ \A d \in Dims : Sampled(d)' = Sampled(d)
<1>1. \A d \in Dims : Sampled(d)' = Sampled(d)
  BY SameRange DEF Sampled
<1>2. \A d \in Dims : \A p \in Places : sampled_data'[d][p] \in Projections(d)
  <2> SUFFICES ASSUME NEW d \in Dims, NEW p \in Places PROVE sampled_data'[d][p] \in Projections(d)
    OBVIOUS
  <2>1. sampled_data'[d][p] \in Sampled(d)
    BY <1>1 DEF Sampled
  <2> QED
    BY <2>1, WholeMeans DEF Sampled
<1>3. \A v : \A d \in Dims : Projections(d)' = Projections(d) /\ Named(d, v)' = Named(d, v)
  BY DEF Projections, Named
<1>4. sample_type # Random => \A d \in Dims : \A v \in Projections(d) :
          Cardinality(PlacesOf(sampled_data'[d], v)) = Cardinality(Named(d, v))
  BY WholeMeans DEF SameValues
<1> QED
  BY <1>1, <1>2, <1>3, <1>4, WholeMeansThen

LEMMA SelectLineStep ==
    ASSUME SelInv, NEW w \in Workers, SelectLine(w)
    PROVE  SelInv'
<1> PICK r : r = round[w]
  OBVIOUS
<1> PICK u : u = j[w]
  OBVIOUS
<1> PICK d : d = dim[w]
  OBVIOUS
<1> DEFINE interval == Interval(r)
           start == (2 * u - 2) * interval
           end == IF u = LinesToInsert(r) THEN SampleSize - 1 ELSE (2 * u) * interval - 1
<1>1. SelTypes /\ LinesSoFar /\ BinsSoFar
  BY DEF SelInv
<1>2. /\ main = "select" /\ main' = "select" /\ dim[w] < StopDim(w) /\ round[w] <= Bits
      /\ UNCHANGED <<sample_type, data, i, dim, bins>>
  BY DEF SelectLine, sampling
<1>3. d \in Dims
  <2>1. d \in Nat /\ d < StopDim(w) /\ StopDim(w) \in Nat /\ StopDim(w) <= LSHDimensionality
        /\ LSHDimensionality \in Nat
    BY <1>1, <1>2, WorkerFacts, SizesFacts DEF SelTypes
  <2> QED
    BY ONLY <2>1 DEF Dims
<1>4. r \in 1 .. Bits /\ r - 1 \in 0 .. Bits /\ r \in 0 .. Bits
  BY <1>1, <1>2, BitsAssumption, AlphabetAssumption DEF SelTypes
<1>5. Power[r - 1] \in Nat /\ Power[r] \in Nat /\ 1 <= Power[r] /\ u \in 1 .. Power[r - 1] /\ u \in Nat \ {0}
      /\ LinesToInsert(r) = Power[r - 1]
  <2>1. Power[r - 1] \in Nat /\ Power[r] \in Nat /\ 1 <= Power[r]
    BY <1>4, PowerFacts
  <2>2. u \in Nat \ {0} /\ u <= Power[r - 1]
    BY <1>1 DEF SelTypes
  <2> QED
    BY <2>1, <2>2 DEF LinesToInsert
<1>6. start \in Nat /\ end \in Int /\ end <= SampleSize /\ start + interval \in Places
  BY <1>4, <1>5, LinePlace
<1>7. Line(w) = LineAt(r, u) /\ LineAt(r, u) \in Lines
  <2>1. AlphabetCardinality = Power[r] * Power[Bits - r] /\ Power[r] \in Nat \ {0} /\ Power[Bits - r] \in Nat
    <3>1. r \in 0 .. Bits /\ Bits - r \in 0 .. Bits /\ AlphabetCardinality = Power[Bits]
      BY <1>4, BitsAssumption, AlphabetAssumption
    <3> QED
      BY <3>1, PowerSplit, PowerFacts
  <2>2. AlphabetCardinality \div Power[r] = Power[Bits - r]
    BY <2>1, Exact
  <2>3. Line(w) = (2 * u - 1) * (AlphabetCardinality \div Power[r]) - 1
    BY DEF Line, Location
  <2> QED
    BY <1>4, <1>5, <2>2, <2>3, LineFacts DEF LineAt
<1> HIDE DEF interval
<1>8. PICK s \in NthElement(sampled_data[d], start, interval, end) :
          /\ sampled_data' = [sampled_data EXCEPT ![d] = s]
          /\ interval_lines' = [interval_lines EXCEPT ![w][LineAt(r, u)] = s[start + interval]]
  <2>1. Location(w) = 2 * u - 1 /\ (2 * u - 1) - 1 = 2 * u - 2 /\ (2 * u - 1) + 1 = 2 * u
    BY <1>5 DEF Location
  <2> QED
    BY <1>7, <2>1 DEF SelectLine, interval
<1>9. s \in [Places -> Int] /\ SameValues(s, sampled_data[d])
  <2>1. sampled_data[d] \in [Places -> Int]
    BY <1>1, <1>3 DEF SelTypes
  <2> HIDE DEF start, end
  <2> QED
    BY <1>6, <1>8, <2>1, NthElementType, NthElementKeeps
<1> PICK place : place = start + interval
  OBVIOUS
<1> HIDE DEF start, end
<1>10. \A c \in Dims : SameValues(sampled_data'[c], sampled_data[c])
  BY <1>1, <1>3, <1>8, <1>9 DEF SelTypes, SameValues
<1>11. SampleWhole' /\ \A c \in Dims : Sampled(c)' = Sampled(c)
  BY <1>2, <1>10, SampleKept DEF SelInv
<1>12. s[place] \in Int /\ s[place] \in Sampled(d)
  <2>1. place \in Places /\ sampled_data'[d] = s
    BY <1>1, <1>3, <1>6, <1>8 DEF SelTypes
  <2> QED
    BY <1>3, <1>9, <1>11, <2>1 DEF Sampled
<1>13. \A v \in Workers, l \in Lines : interval_lines'[v][l] =
           IF v = w /\ l = LineAt(r, u) THEN s[place] ELSE interval_lines[v][l]
  BY <1>1, <1>7, <1>8 DEF SelTypes
<1>14. interval_lines' \in [Workers -> [Lines -> Int]]
  BY <1>1, <1>7, <1>8, <1>12 DEF SelTypes
<1>15. \A v \in Workers : v # w => round'[v] = round[v] /\ j'[v] = j[v]
  BY <1>1 DEF SelTypes, SelectLine
<1>16. \/ u = Power[r - 1] /\ round'[w] = r + 1 /\ j'[w] = 1
       \/ u # Power[r - 1] /\ round'[w] = r /\ j'[w] = u + 1
  BY <1>1, <1>5 DEF SelTypes, SelectLine
<1>17. SelTypes'
  <2>1. sampled_data' \in [Dims -> [Places -> Int]]
    BY <1>1, <1>8, <1>9 DEF SelTypes
  <2>2. round' \in [Workers -> 1 .. Bits + 1] /\ j' \in [Workers -> Nat \ {0}]
    <3>1. \E x \in {r, r + 1} : round' = [round EXCEPT ![w] = x]
      BY <1>1 DEF SelTypes, SelectLine
    <3>2. \E x \in {u + 1, 1} : j' = [j EXCEPT ![w] = x]
      BY DEF SelectLine
    <3>3. r \in 1 .. Bits + 1 /\ r + 1 \in 1 .. Bits + 1 /\ u + 1 \in Nat \ {0}
      BY <1>4, <1>5, BitsAssumption, AlphabetAssumption
    <3> QED
      BY <1>1, <3>1, <3>2, <3>3 DEF SelTypes
  <2>3. \A v \in Workers : j'[v] <= Power[round'[v] - 1]
    <3>1. j'[w] <= Power[round'[w] - 1]
      BY <1>4, <1>5, <1>16
    <3> QED
      BY <1>1, <1>15, <3>1 DEF SelTypes
  <2> QED
    BY <1>1, <1>2, <1>14, <2>1, <2>2, <2>3 DEF SelTypes
<1>18. LinesSoFar'
  <2> SUFFICES ASSUME NEW v \in Workers, dim[v] \in Dims, NEW l \in Lines, IsSet(round'[v], j'[v], l)
               PROVE  interval_lines'[v][l] \in Sampled(dim[v])
    BY <1>2, <1>11 DEF LinesSoFar
  <2>1. CASE v # w
    BY <1>1, <1>2, <1>13, <1>15, <2>1 DEF LinesSoFar
  <2>2. CASE v = w
    <3>1. IsSet(r, u, l) \/ l = LineAt(r, u)
      <4>1. CASE u = Power[r - 1] /\ round'[w] = r + 1 /\ j'[w] = 1
        BY <1>4, <2>2, <4>1, RoundEnds
      <4>2. CASE u # Power[r - 1] /\ round'[w] = r /\ j'[w] = u + 1
        BY <1>5, <2>2, <4>2, TurnEnds
      <4> QED
        BY <1>16, <4>1, <4>2
    <3> QED
      BY <1>1, <1>2, <1>3, <1>12, <1>13, <2>2, <3>1 DEF LinesSoFar
  <2> QED
    BY <2>1, <2>2
<1>19. BinsSoFar'
  BY <1>1, <1>2, <1>11 DEF BinsSoFar
<1> QED
  BY <1>2, <1>11, <1>17, <1>18, <1>19 DEF SelInv, SampledSoFar, Fresh, AllSelected

LEMMA Unmoved ==
    ASSUME UNCHANGED sampled_data
    PROVE  \A d \in Dims : SameValues(sampled_data'[d], sampled_data[d])
  BY DEF SameValues

LEMMA FinishDimensionStep ==
    ASSUME SelInv, NEW w \in Workers, FinishDimension(w)
    PROVE  SelInv'
<1> PICK d : d = dim[w]
  OBVIOUS
<1>1. SelTypes /\ LinesSoFar /\ BinsSoFar
  BY DEF SelInv
<1>2. /\ main = "select" /\ main' = "select" /\ d < StopDim(w) /\ round[w] > Bits
      /\ dim' = [dim EXCEPT ![w] = @ + 1] /\ round' = [round EXCEPT ![w] = 1]
      /\ j' = [j EXCEPT ![w] = 1]
      /\ interval_lines' = [interval_lines EXCEPT ![w] = [l \in Lines |-> 0]]
      /\ bins' = [bins EXCEPT ![d] = interval_lines[w]]
      /\ UNCHANGED <<sample_type, data, sampled_data, i>>
  BY DEF FinishDimension, sampling, NoLines
<1>3. d \in Dims /\ d \in Nat
  <2>1. d \in Nat /\ d < StopDim(w) /\ StopDim(w) \in Nat /\ StopDim(w) <= LSHDimensionality
        /\ LSHDimensionality \in Nat
    BY <1>1, <1>2, WorkerFacts, SizesFacts DEF SelTypes
  <2> QED
    BY ONLY <2>1 DEF Dims
<1>4. round[w] = Bits + 1
  <2>1. round[w] \in 1 .. Bits + 1 /\ round[w] > Bits /\ Bits \in Nat
    BY <1>1, <1>2, BitsAssumption, AlphabetAssumption DEF SelTypes
  <2> QED
    BY ONLY <2>1
<1>5. SampleWhole' /\ \A c \in Dims : Sampled(c)' = Sampled(c)
  BY <1>2, Unmoved, SampleKept DEF SelInv
<1>6. \A l \in Lines : interval_lines[w][l] \in Sampled(d)
  BY <1>1, <1>2, <1>3, <1>4, AllSet DEF LinesSoFar
<1>7. SelTypes'
  <2>1. dim' \in [Workers -> Nat]
    BY <1>1, <1>2 DEF SelTypes
  <2>2. 1 \in 1 .. Bits + 1 /\ 1 <= Power[1 - 1]
    BY BitsAssumption, AlphabetAssumption, PowerFacts
  <2>3. round' \in [Workers -> 1 .. Bits + 1] /\ j' \in [Workers -> Nat \ {0}]
    BY <1>1, <1>2, <2>2 DEF SelTypes
  <2>4. \A v \in Workers : j'[v] <= Power[round'[v] - 1]
    BY <1>1, <1>2, <2>2 DEF SelTypes
  <2>5. interval_lines' \in [Workers -> [Lines -> Int]] /\ bins' \in [Dims -> [Lines -> Int]]
    BY <1>1, <1>2, <1>3 DEF SelTypes
  <2> QED
    BY <1>1, <1>2, <2>1, <2>3, <2>4, <2>5 DEF SelTypes
<1>8. LinesSoFar'
  <2> SUFFICES ASSUME NEW v \in Workers, dim'[v] \in Dims, NEW l \in Lines, IsSet(round'[v], j'[v], l)
               PROVE  interval_lines'[v][l] \in Sampled(dim'[v])
    BY <1>5 DEF LinesSoFar
  <2>1. v # w
    BY <1>1, <1>2, NoneSet DEF SelTypes
  <2> QED
    BY <1>1, <1>2, <2>1 DEF LinesSoFar, SelTypes
<1>9. BinsSoFar'
  <2> SUFFICES ASSUME NEW v \in Workers, NEW c \in Dims, StartDim(v) <= c /\ c < dim'[v], NEW l \in Lines
               PROVE  bins'[c][l] \in Sampled(c)
    BY <1>5 DEF BinsSoFar
  <2>1. CASE c = d
    BY <1>1, <1>2, <1>6, <2>1 DEF SelTypes
  <2>2. CASE c # d
    <3>1. bins'[c] = bins[c]
      BY <1>1, <1>2, <2>2 DEF SelTypes
    <3>2. c < dim[v]
      BY <1>1, <1>2, <2>2 DEF SelTypes, Dims
    <3> QED
      BY <1>1, <1>2, <3>1, <3>2 DEF BinsSoFar
  <2> QED
    BY <2>1, <2>2
<1> QED
  BY <1>2, <1>5, <1>7, <1>8, <1>9 DEF SelInv, SampledSoFar, Fresh, AllSelected

LEMMA RestStep ==
    ASSUME SelInv, JoinSelection \/ UNCHANGED selectionVars
    PROVE  SelInv'
<1>1. UNCHANGED <<sample_type, data, sampled_data, i, dim, round, j, interval_lines, bins>>
  BY DEF JoinSelection, selectionVars, sampling, selecting
<1>2. CASE JoinSelection
  <2>1. main = "select" /\ main' = "done" /\ \A w \in Workers : dim[w] >= StopDim(w)
    BY <1>2 DEF JoinSelection
  <2>2. SampleWhole' /\ \A c \in Dims : Sampled(c)' = Sampled(c)
    BY <1>1, <2>1, Unmoved, SampleKept DEF SelInv
  <2> QED
    BY <1>1, <2>1, <2>2
       DEF SelInv, SelTypes, SampledSoFar, Fresh, LinesSoFar, BinsSoFar, AllSelected
<1>3. CASE UNCHANGED selectionVars
  <2>1. UNCHANGED main
    BY <1>3 DEF selectionVars
  <2>2. SampleWhole' <=> SampleWhole
    BY <1>1, <2>1 DEF SampleWhole
  <2>3. \A c \in Dims : Sampled(c)' = Sampled(c) /\ Projections(c)' = Projections(c)
    BY <1>1 DEF Sampled, Projections
  <2> QED
    BY <1>1, <2>1, <2>2, <2>3
       DEF SelInv, SelTypes, SampledSoFar, Fresh, LinesSoFar, BinsSoFar, AllSelected
<1> QED
  BY <1>2, <1>3

LEMMA SelStep == ASSUME SelInv, [SelectionNext]_selectionVars PROVE SelInv'
<1>1. ASSUME NEW w \in Workers, Worker(w) PROVE SelInv'
  BY <1>1, SampleStep, SelectLineStep, FinishDimensionStep DEF Worker
<1>2. CASE JoinSampling
  BY <1>2, JoinSamplingStep
<1>3. CASE JoinSelection \/ UNCHANGED selectionVars
  BY <1>3, RestStep
<1> QED
  BY <1>1, <1>2, <1>3 DEF SelectionNext, Done

LEMMA SelWhole == ASSUME SelInv PROVE SelectionWhole
<1>1. ASSUME main = "done", NEW d \in Dims, NEW l \in Lines
      PROVE  bins[d][l] \in {sampled_data[d][p] : p \in Places}
  <2> PICK w \in Workers : StartDim(w) <= d /\ d < StopDim(w)
    BY DimsShared
  <2>1. dim[w] >= StopDim(w) /\ dim[w] \in Nat /\ StopDim(w) \in Nat /\ d \in Int
    BY <1>1, WorkerFacts DEF SelInv, SelTypes, AllSelected, Dims
  <2>2. d < dim[w]
    BY <2>1
  <2> QED
    BY <1>1, <2>2 DEF SelInv, BinsSoFar, Sampled
<1> QED
  BY <1>1 DEF SelInv, SelectionWhole, LinesFromSample

\* Whatever the number of threads, of records and of dimensions, and whatever
\* nth_element makes of calls outside its contract, breakpoints_selection takes
\* every place of its sample from the data, loses no value on the way, and sets
\* every line of every dimension to a value of the sample.
THEOREM SelectionIsWhole == SelectionSpec => []SelectionWhole
<1>1. SelectionInit => SelInv
  BY InitFacts
<1>2. SelInv /\ [SelectionNext]_selectionVars => SelInv'
  BY SelStep
<1>3. SelInv => SelectionWhole
  BY SelWhole
<1> QED
  BY <1>1, <1>2, <1>3, PTL DEF SelectionSpec

\* So what encoding gets is a table of whole rows, and each breakpoint is a
\* projection that some record of the data has in that dimension.
THEOREM BreakpointsAreProjections ==
    SelectionSpec => [](main = "done" =>
               /\ bins \in [Dims -> [Lines -> Int]]
               /\ \A d \in Dims : \A l \in Lines : \E n \in 0 .. DataPointNum - 1 : bins[d][l] = data[d][n])
<1>1. SelectionInit => SelInv
  BY InitFacts
<1>2. SelInv /\ [SelectionNext]_selectionVars => SelInv'
  BY SelStep
<1> DEFINE Table == main = "done" =>
               /\ bins \in [Dims -> [Lines -> Int]]
               /\ \A d \in Dims : \A l \in Lines : \E n \in 0 .. DataPointNum - 1 : bins[d][l] = data[d][n]
<1>3. SelInv => Table
  <2> SUFFICES ASSUME SelInv, main = "done", NEW d \in Dims, NEW l \in Lines
               PROVE  bins[d][l] \in Projections(d)
    BY DEF SelInv, SelTypes, Projections
  <2>1. bins[d][l] \in {sampled_data[d][p] : p \in Places}
    BY SelWhole DEF SelectionWhole, LinesFromSample
  <2>2. \A p \in Places : sampled_data[d][p] \in Projections(d)
    BY WholeMeans DEF SelInv
  <2> QED
    BY <2>1, <2>2
<1> HIDE DEF Table
<1>4. SelectionSpec => []Table
  BY <1>1, <1>2, <1>3, PTL DEF SelectionSpec
<1> QED
  BY <1>4 DEF Table

-----------------------------------------------------------------------------
(* Paths.                                                                  *)

Paths == Seq({0, 1})
Pre(p, d) == SubSeq(p, 1, d)

\* The paths of the nodes above a node.
LEMMA PrefixFacts ==
    ASSUME NEW p \in Paths, NEW d \in 0 .. Len(p)
    PROVE  /\ Pre(p, d) \in Paths
           /\ Len(Pre(p, d)) = d
           /\ \A h \in 1 .. d : Pre(p, d)[h] = p[h]
           /\ \A e \in 0 .. d : Pre(Pre(p, d), e) = Pre(p, e)
           /\ Pre(p, Len(p)) = p
<1>1. Pre(p, d) \in Paths /\ Len(Pre(p, d)) = d /\ \A h \in 1 .. d : Pre(p, d)[h] = p[h]
  BY DEF Paths, Pre
<1>2. ASSUME NEW e \in 0 .. d PROVE Pre(Pre(p, d), e) = Pre(p, e)
  BY <1>1 DEF Paths, Pre
<1>3. Pre(p, Len(p)) = p
  BY DEF Paths, Pre
<1> QED
  BY <1>1, <1>2, <1>3

\* The path of a child.
LEMMA ChildFacts ==
    ASSUME NEW p \in Paths, NEW x \in {0, 1}
    PROVE  LET c == Append(p, x) IN
           /\ c \in Paths
           /\ Len(c) = Len(p) + 1
           /\ c[Len(p) + 1] = x
           /\ \A h \in 1 .. Len(p) : c[h] = p[h]
           /\ \A d \in 0 .. Len(p) : Pre(c, d) = Pre(p, d)
           /\ Pre(c, Len(p)) = p
           /\ Parent(c) = p
           /\ c # Root
<1> DEFINE c == Append(p, x)
<1>1. c \in Paths /\ Len(c) = Len(p) + 1 /\ c[Len(p) + 1] = x /\ \A h \in 1 .. Len(p) : c[h] = p[h]
  BY DEF Paths
<1>2. \A d \in 0 .. Len(p) : Pre(c, d) = Pre(p, d)
  BY <1>1 DEF Paths, Pre
<1>3. Pre(c, Len(p)) = p
  BY <1>1, <1>2, PrefixFacts DEF Paths, Pre
<1>4. Parent(c) = p
  BY <1>1, <1>3 DEF Parent, Pre, Paths
<1> QED
  BY <1>1, <1>2, <1>3, <1>4 DEF Root
-----------------------------------------------------------------------------
(* What a child of a split gets.                                           *)

Positions == Nat \ {0}

LEMMA SameEntries == \A b : Elements(b) = Entries(b)
  BY DEF Elements, Entries

\* One round of the loop that hands out the split buffer.
Round(buffer, K, b, n) == IF buffer[n] \in K THEN Append(b, buffer[n]) ELSE b

\* What the first m rounds have handed to the child.
Handed(buffer, K, m, b) ==
    /\ b \in Seq(Positions)
    /\ Len(b) <= m
    /\ Elements(b) = {buffer[n] : n \in 1 .. m} \cap K
    /\ Distinct(buffer) => Distinct(b)

LEMMA RoundHands ==
    ASSUME NEW buffer \in Seq(Positions), NEW K, NEW m \in 1 .. Len(buffer),
           NEW b, Handed(buffer, K, m - 1, b)
    PROVE  Handed(buffer, K, m, Round(buffer, K, b, m))
<1>1. buffer[m] \in Positions /\ DOMAIN buffer = 1 .. Len(buffer) /\ Len(b) \in Nat
  BY DEF Handed
<1>2. {buffer[n] : n \in 1 .. m} = {buffer[n] : n \in 1 .. m - 1} \cup {buffer[m]}
  <2>1. 1 .. m = (1 .. m - 1) \cup {m}
    OBVIOUS
  <2> QED
    BY <2>1
<1>3. CASE buffer[m] \in K
  <2>1. Round(buffer, K, b, m) = Append(b, buffer[m])
    BY <1>3 DEF Round
  <2>2. Distinct(buffer) => buffer[m] \notin Elements(b)
    BY <1>1 DEF Distinct, Handed
  <2> QED
    BY <1>1, <1>2, <1>3, <2>1, <2>2, AppendEntries, SameEntries DEF Handed
<1>4. CASE buffer[m] \notin K
  <2>1. Round(buffer, K, b, m) = b
    BY <1>4 DEF Round
  <2> QED
    BY <1>1, <1>2, <1>4, <2>1 DEF Handed
<1> QED
  BY <1>3, <1>4

\* The recursion of Moved, with its type.
LEMMA MovedExists ==
    ASSUME NEW buffer \in Seq(Positions), NEW K
    PROVE  \E f : f = [n \in 0 .. Len(buffer) |->
                          IF n = 0 THEN <<>>
                          ELSE IF buffer[n] \in K THEN Append(f[n - 1], buffer[n]) ELSE f[n - 1]]
<1> DEFINE m == Len(buffer)
           step == [n \in 1 .. m |-> [b \in Seq(Positions) |-> Round(buffer, K, b, n)]]
<1>1. m \in Nat /\ <<>> \in Seq(Positions)
  OBVIOUS
<1>2. step \in [1 .. m -> [Seq(Positions) -> Seq(Positions)]]
  <2>1. ASSUME NEW n \in 1 .. m, NEW b \in Seq(Positions) PROVE Round(buffer, K, b, n) \in Seq(Positions)
    BY DEF Round
  <2> QED
    BY <2>1
<1>3. \A n \in 1 .. m : \A b \in Seq(Positions) : step[n][b] = Round(buffer, K, b, n)
  OBVIOUS
<1> HIDE DEF step
<1>5. PICK g \in [0 .. m -> Seq(Positions)] :
          g[0] = <<>> /\ \A n \in 1 .. m : g[n] = step[n][g[n - 1]]
  <2> DEFINE S == Seq(Positions)
             c == <<>>
  <2>1. m \in Nat /\ c \in S /\ step \in [1 .. m -> [S -> S]]
    BY <1>1, <1>2
  <2>2. \E g \in [0 .. m -> S] : Iterates(g, m, c, step)
    <3> HIDE DEF m, S, c
    <3> QED
      BY <2>1, Recursion
  <2> QED
    BY <2>2 DEF Iterates
<1>6. \A n \in 1 .. m : g[n] = Round(buffer, K, g[n - 1], n)
  <2> SUFFICES ASSUME NEW n \in 1 .. m PROVE g[n] = Round(buffer, K, g[n - 1], n)
    OBVIOUS
  <2>1. n - 1 \in 0 .. m
    BY ONLY <1>1, n \in 1 .. m
  <2>2. g[n - 1] \in Seq(Positions)
    BY <2>1
  <2>3. step[n][g[n - 1]] = Round(buffer, K, g[n - 1], n)
    BY <1>3, <2>2
  <2> QED
    BY <1>5, <2>3
<1>7. ASSUME NEW n \in 0 .. m
      PROVE  g[n] = IF n = 0 THEN <<>>
                    ELSE IF buffer[n] \in K THEN Append(g[n - 1], buffer[n]) ELSE g[n - 1]
  <2>1. CASE n = 0
    BY <1>5, <2>1
  <2>2. CASE n # 0
    <3>1. n \in 1 .. m
      BY <2>2
    <3>2. g[n] = Round(buffer, K, g[n - 1], n)
      BY <1>6, <3>1
    <3> QED
      BY <2>2, <3>2 DEF Round
  <2> QED
    BY <2>1, <2>2
<1>8. g = [n \in 0 .. m |-> g[n]]
  BY <1>5
<1>9. g = [n \in 0 .. m |-> IF n = 0 THEN <<>>
                            ELSE IF buffer[n] \in K THEN Append(g[n - 1], buffer[n]) ELSE g[n - 1]]
  BY <1>7, <1>8
<1> QED
  BY <1>9

LEMMA MovedFacts ==
    ASSUME NEW buffer \in Seq(Positions), NEW split_mask, NEW s, NEW side
    PROVE  LET mine == Moved(buffer, split_mask, s, side) IN
           /\ mine \in Seq(Positions)
           /\ Len(mine) <= Len(buffer)
           /\ Elements(mine) =
                  {n \in Elements(buffer) : Branch(added[n], split_mask, s) = side}
           /\ Distinct(buffer) => Distinct(mine)
<1> DEFINE K == {n \in Elements(buffer) : Branch(added[n], split_mask, s) = side}
           m == Len(buffer)
<1>1. \A n \in 1 .. m : buffer[n] \in K <=> Branch(added[buffer[n]], split_mask, s) = side
  BY DEF Elements
<1> HIDE DEF K
<1>2. PICK f : /\ f = [n \in 0 .. m |->
                          IF n = 0 THEN <<>>
                          ELSE IF Branch(added[buffer[n]], split_mask, s) = side
                               THEN Append(f[n - 1], buffer[n]) ELSE f[n - 1]]
               /\ f[m] = Moved(buffer, split_mask, s, side)
  <2> DEFINE Fits(f) == f = [n \in 0 .. m |->
                                IF n = 0 THEN <<>>
                                ELSE IF Branch(added[buffer[n]], split_mask, s) = side
                                     THEN Append(f[n - 1], buffer[n]) ELSE f[n - 1]]
  <2>1. PICK g : g = [n \in 0 .. m |->
                          IF n = 0 THEN <<>>
                          ELSE IF buffer[n] \in K THEN Append(g[n - 1], buffer[n]) ELSE g[n - 1]]
    BY MovedExists, ZenonT(30)
  <2>2. Fits(g)
    <3>1. ASSUME NEW h
          PROVE  [n \in 0 .. m |->
                          IF n = 0 THEN <<>>
                          ELSE IF buffer[n] \in K THEN Append(h[n - 1], buffer[n]) ELSE h[n - 1]]
                 = [n \in 0 .. m |->
                          IF n = 0 THEN <<>>
                          ELSE IF Branch(added[buffer[n]], split_mask, s) = side
                               THEN Append(h[n - 1], buffer[n]) ELSE h[n - 1]]
      <4>1. \A n \in 0 .. m : n # 0 =>
               (buffer[n] \in K <=> Branch(added[buffer[n]], split_mask, s) = side)
        BY <1>1
      <4> QED
        BY <4>1
    <3> QED
      BY <2>1, <3>1
  <2>3. Fits(CHOOSE f : Fits(f))
    <3> HIDE DEF Fits
    <3> QED
      BY <2>2
  <2> QED
    BY <2>3 DEF Moved, Stored, EmptyBuffer
<1>3. f[0] = <<>> /\ \A n \in 1 .. m : f[n] = Round(buffer, K, f[n - 1], n)
  <2>1. ASSUME NEW g, NEW h,
               g = [n \in 0 .. m |->
                          IF n = 0 THEN <<>>
                          ELSE IF Branch(added[buffer[n]], split_mask, s) = side
                               THEN Append(h[n - 1], buffer[n]) ELSE h[n - 1]]
        PROVE  g[0] = <<>> /\ \A n \in 1 .. m : g[n] = Round(buffer, K, h[n - 1], n)
    <3>1. 0 \in 0 .. m /\ \A n \in 1 .. m : n \in 0 .. m /\ n # 0
      OBVIOUS
    <3>2. g[0] = <<>>
      BY <2>1, <3>1
    <3>3. ASSUME NEW n \in 1 .. m PROVE g[n] = Round(buffer, K, h[n - 1], n)
      <4>1. g[n] = IF Branch(added[buffer[n]], split_mask, s) = side
                   THEN Append(h[n - 1], buffer[n]) ELSE h[n - 1]
        BY <2>1, <3>1
      <4> QED
        BY <1>1, <4>1 DEF Round
    <3> QED
      BY <3>2, <3>3
  <2> QED
    BY <1>2, <2>1, ZenonT(30)
<1> DEFINE T == {n \in 0 .. m : Handed(buffer, K, n, f[n])}
<1>4. 0 \in T
  <2>1. <<>> \in Seq(Positions) /\ Len(<<>>) = 0 /\ Elements(<<>>) = {} /\ Distinct(<<>>)
    BY DEF Elements, Distinct
  <2>2. {buffer[n] : n \in 1 .. 0} = {} /\ 0 \in 0 .. m
    OBVIOUS
  <2>3. Handed(buffer, K, 0, <<>>)
    BY <2>1, <2>2 DEF Handed
  <2> QED
    BY <1>3, <2>2, <2>3
<1>5. ASSUME NEW n \in 1 .. m, n - 1 \in T PROVE n \in T
  BY <1>3, <1>5, RoundHands
<1>6. 0 .. m \subseteq T
  <2> HIDE DEF T
  <2>1. \A n \in 1 .. m : n - 1 \in T => n \in T
    BY <1>5
  <2>2. m \in Nat
    OBVIOUS
  <2> QED
    BY <1>4, <2>1, <2>2, Induction
<1>7. Handed(buffer, K, m, f[m])
  BY <1>6
<1>8. {buffer[n] : n \in 1 .. m} \cap K = K
  BY DEF Elements, K
<1> QED
  BY <1>2, <1>7, <1>8 DEF Handed, K
-----------------------------------------------------------------------------
(* The inductive invariant.                                                *)

BoxTypes == {NoBox} \cup [Segments -> Seq({0, 1})]
NodeType == [is_leaf : BOOLEAN, leaf_size : Nat, buffer : Seq(Positions), box : BoxTypes,
             split_mask : [Segments -> 0 .. Bits - 1], splitpoint : Segments \cup {0}]

Types == /\ added \in Seq(Words)
         /\ pending \in 0 .. Len(added)
         /\ exited \in BOOLEAN
         /\ tree \in [Nodes -> NodeType]

\* The nodes form a tree: what is above a node is an inner node, and an inner
\* node has both children.
Shape == /\ Root \in Nodes
         /\ \A p \in Nodes : p \in Paths /\ \A d \in 0 .. Len(p) - 1 : Pre(p, d) \in Nodes \ Leaves
         /\ \A p \in Nodes \ Leaves : Append(p, 0) \in Nodes /\ Append(p, 1) \in Nodes

\* Two leaves part at an inner node above both.
Part(p, q, d) == d < Len(p) /\ d < Len(q) /\ Pre(p, d) = Pre(q, d) /\ p[d + 1] # q[d + 1]

Routes == /\ \A p, q \in Leaves : p # q => \E d \in Nat : Part(p, q, d)
          /\ \A sax \in Words : \E p \in Leaves : OnRoute(p, sax)

\* A buffer is as long as the node says, and inner nodes have none.
Sizes == \A p \in Nodes :
             /\ tree[p].leaf_size = Len(tree[p].buffer)
             /\ tree[p].leaf_size <= MaxLeafSize
             /\ ~tree[p].is_leaf => tree[p].buffer = <<>> /\ tree[p].splitpoint \in Segments

\* Down a path the number of bits split on only grows, and the words that take
\* the path agree in those bits.
Masks == \A p \in Nodes :
             /\ \A d \in 0 .. Len(p) - 1 : \A s \in Segments :
                    tree[Pre(p, d)].split_mask[s] <= InheritedMask(p)[s]
             /\ \A v, w \in Words : OnRoute(p, v) /\ OnRoute(p, w) =>
                    \A s \in Segments : \A b \in 1 .. InheritedMask(p)[s] + 1 : v[s][b] = w[s][b]

\* The leaves hold the records that were added, on their routes.
Held == /\ \A p \in Leaves : /\ Distinct(tree[p].buffer)
                             /\ \A n \in Elements(tree[p].buffer) :
                                    /\ n \in (1 .. Len(added)) \ {pending}
                                    /\ OnRoute(p, added[n])
        /\ \A n \in (1 .. Len(added)) \ {pending} :
               \E p \in Leaves : n \in Elements(tree[p].buffer)

\* The box of a node is that of some word on its route.
Boxed == \A p \in Nodes :
             /\ tree[p].box = NoBox <=> tree[p].is_leaf /\ tree[p].leaf_size = 0
             /\ tree[p].box # NoBox =>
                    \E w \in Words : OnRoute(p, w) /\ tree[p].box = Box(w, InheritedMask(p))

TreeInv == Types /\ Shape /\ Routes /\ Sizes /\ Masks /\ Held /\ Boxed /\ ExitOnlyOnEqualWords

\* The child of q a record goes to.
Turn(q, sax) == Branch(sax, tree[q].split_mask, tree[q].splitpoint)

LEMMA RouteByTurns ==
    ASSUME NEW p \in Paths, NEW sax
    PROVE  OnRoute(p, sax) <=> \A d \in 0 .. Len(p) - 1 : p[d + 1] = Turn(Pre(p, d), sax)
<1>1. OnRoute(p, sax) <=> \A d \in 1 .. Len(p) : p[d] = Turn(Pre(p, d - 1), sax)
  BY DEF OnRoute, Turn, Pre
<1>2. ASSUME \A d \in 1 .. Len(p) : p[d] = Turn(Pre(p, d - 1), sax), NEW d \in 0 .. Len(p) - 1
      PROVE  p[d + 1] = Turn(Pre(p, d), sax)
  <2>1. d + 1 \in 1 .. Len(p) /\ (d + 1) - 1 = d
    BY DEF Paths
  <2> QED
    BY <1>2, <2>1
<1>3. ASSUME \A d \in 0 .. Len(p) - 1 : p[d + 1] = Turn(Pre(p, d), sax), NEW d \in 1 .. Len(p)
      PROVE  p[d] = Turn(Pre(p, d - 1), sax)
  <2>1. d - 1 \in 0 .. Len(p) - 1 /\ (d - 1) + 1 = d
    BY DEF Paths
  <2> QED
    BY <1>3, <2>1
<1> QED
  BY <1>1, <1>2, <1>3

\* No word has two leaves on its route, and each has one.
LEMMA OneLeaf ==
    ASSUME Shape, Routes, NEW sax, NEW p \in Leaves, NEW q \in Leaves,
           OnRoute(p, sax), OnRoute(q, sax)
    PROVE  p = q
<1> SUFFICES ASSUME p # q PROVE FALSE
  OBVIOUS
<1>1. PICK d \in Nat : Part(p, q, d)
  BY DEF Routes
<1>2. p \in Paths /\ q \in Paths
  BY DEF Shape, Leaves
<1>3. d \in 0 .. Len(p) - 1 /\ d \in 0 .. Len(q) - 1
  BY <1>1, <1>2 DEF Part, Paths
<1>4. p[d + 1] = Turn(Pre(p, d), sax) /\ q[d + 1] = Turn(Pre(q, d), sax)
  BY <1>2, <1>3, RouteByTurns
<1> QED
  BY <1>1, <1>4 DEF Part

LEMMA LeafForFacts ==
    ASSUME Shape, Routes, NEW sax \in Words
    PROVE  /\ LeafFor(sax) \in Leaves
           /\ OnRoute(LeafFor(sax), sax)
           /\ \A p \in Leaves : OnRoute(p, sax) => LeafFor(sax) = p
<1>1. \E p \in Leaves : OnRoute(p, sax)
  BY DEF Routes
<1>2. LeafFor(sax) \in Leaves /\ OnRoute(LeafFor(sax), sax)
  BY <1>1 DEF LeafFor
<1> QED
  BY <1>2, OneLeaf

\* A node that is not the root has a parent, an inner node.
LEMMA ParentFacts ==
    ASSUME Shape, NEW p \in Nodes, p # Root
    PROVE  /\ Len(p) - 1 \in 0 .. Len(p) - 1
           /\ Parent(p) = Pre(p, Len(p) - 1)
           /\ Parent(p) \in Nodes \ Leaves
<1>1. p \in Paths
  BY DEF Shape
<1>2. Len(p) \in Nat /\ Len(p) # 0
  BY <1>1 DEF Paths, Root
<1> QED
  BY <1>2 DEF Parent, Pre, Shape

LEMMA MaskType ==
    ASSUME Types, Shape, NEW p \in Nodes
    PROVE  InheritedMask(p) \in [Segments -> 0 .. Bits - 1]
<1>1. \A q \in Nodes : tree[q].split_mask \in [Segments -> 0 .. Bits - 1]
  BY DEF Types, NodeType
<1>2. CASE p = Root
  BY <1>2, BitsAssumption DEF InheritedMask
<1>3. CASE p # Root
  BY <1>1, <1>3, ParentFacts DEF InheritedMask
<1> QED
  BY <1>2, <1>3

\* What a step that leaves the inner nodes alone keeps.
LEMMA Frame ==
    ASSUME Shape,
           \A q \in Nodes \ Leaves : /\ tree'[q].split_mask = tree[q].split_mask
                                     /\ tree'[q].splitpoint = tree[q].splitpoint,
           NEW p \in Nodes
    PROVE  /\ InheritedMask(p)' = InheritedMask(p)
           /\ \A d \in 0 .. Len(p) - 1 : tree'[Pre(p, d)].split_mask = tree[Pre(p, d)].split_mask
           /\ \A sax : OnRoute(p, sax)' <=> OnRoute(p, sax)
<1>1. p \in Paths /\ \A d \in 0 .. Len(p) - 1 : Pre(p, d) \in Nodes \ Leaves
  BY DEF Shape
<1>2. InheritedMask(p)' = InheritedMask(p)
  <2>1. CASE p = Root
    BY <2>1 DEF InheritedMask
  <2>2. CASE p # Root
    BY <2>2, ParentFacts DEF InheritedMask
  <2> QED
    BY <2>1, <2>2
<1>3. ASSUME NEW sax PROVE OnRoute(p, sax)' <=> OnRoute(p, sax)
  <2>1. ASSUME NEW d \in 1 .. Len(p)
        PROVE  /\ tree'[SubSeq(p, 1, d - 1)].split_mask = tree[SubSeq(p, 1, d - 1)].split_mask
               /\ tree'[SubSeq(p, 1, d - 1)].splitpoint = tree[SubSeq(p, 1, d - 1)].splitpoint
    <3>1. d - 1 \in 0 .. Len(p) - 1
      BY <1>1 DEF Paths
    <3> QED
      BY <1>1, <3>1 DEF Pre
  <2> QED
    BY <2>1 DEF OnRoute
<1> QED
  BY <1>1, <1>2, <1>3
-----------------------------------------------------------------------------
(* What the invariant implies.                                             *)

LEMMA WordFacts ==
    ASSUME NEW w \in Words, NEW s \in Segments
    PROVE  w[s] \in Seq({0, 1}) /\ Len(w[s]) = Bits
<1>1. w[s] \in [1 .. Bits -> {0, 1}] /\ Bits \in Nat
  BY BitsAssumption DEF Words, Symbols
<1> QED
  BY <1>1

LEMMA BoxFacts ==
    ASSUME NEW w \in Words, NEW mask \in [Segments -> 0 .. Bits - 1]
    PROVE  /\ Box(w, mask) \in [Segments -> Seq({0, 1})]
           /\ Box(w, mask) # NoBox
           /\ \A s \in Segments : /\ Len(Box(w, mask)[s]) = mask[s] + 1
                                  /\ \A b \in 1 .. mask[s] + 1 : Box(w, mask)[s][b] = w[s][b]
<1>1. ASSUME NEW s \in Segments
      PROVE  /\ SubSeq(w[s], 1, mask[s] + 1) \in Seq({0, 1})
             /\ Len(SubSeq(w[s], 1, mask[s] + 1)) = mask[s] + 1
             /\ \A b \in 1 .. mask[s] + 1 : SubSeq(w[s], 1, mask[s] + 1)[b] = w[s][b]
  <2>1. w[s] \in Seq({0, 1}) /\ Len(w[s]) = Bits /\ mask[s] + 1 \in 1 .. Bits
    BY WordFacts, BitsAssumption
  <2> QED
    BY <2>1
<1>2. /\ DOMAIN Box(w, mask) = Segments
      /\ \A s \in Segments : Box(w, mask)[s] = SubSeq(w[s], 1, mask[s] + 1)
  BY DEF Box
<1>3. Box(w, mask) \in [Segments -> Seq({0, 1})]
  BY <1>1 DEF Box
<1>4. Box(w, mask) # NoBox
  <2>1. DOMAIN <<>> = {}
    OBVIOUS
  <2> QED
    BY <1>2, <2>1, SegmentsAssumption DEF NoBox
<1> QED
  BY <1>1, <1>2, <1>3, <1>4

\* All words that take the route to a node are in its box.
LEMMA RouteInBox ==
    ASSUME Types, Shape, Masks, Boxed, NEW p \in Nodes, tree[p].box # NoBox,
           NEW v \in Words, OnRoute(p, v)
    PROVE  InBox(v, tree[p].box)
<1>1. PICK w \in Words : OnRoute(p, w) /\ tree[p].box = Box(w, InheritedMask(p))
  BY DEF Boxed
<1> DEFINE mask == InheritedMask(p)
<1>2. mask \in [Segments -> 0 .. Bits - 1]
  BY MaskType
<1>3. \A s \in Segments : \A b \in 1 .. mask[s] + 1 : v[s][b] = w[s][b]
  BY <1>1 DEF Masks
<1> HIDE DEF mask
<1>4. ASSUME NEW s \in Segments PROVE SubSeq(v[s], 1, Len(Box(w, mask)[s])) = Box(w, mask)[s]
  <2>1. /\ v[s] \in Seq({0, 1}) /\ Len(v[s]) = Bits
        /\ w[s] \in Seq({0, 1}) /\ Len(w[s]) = Bits /\ mask[s] + 1 \in 1 .. Bits
    BY <1>2, WordFacts, BitsAssumption
  <2>2. Len(Box(w, mask)[s]) = mask[s] + 1 /\ Box(w, mask)[s] = SubSeq(w[s], 1, mask[s] + 1)
    BY <1>2, BoxFacts DEF Box
  <2>3. SubSeq(v[s], 1, mask[s] + 1) = SubSeq(w[s], 1, mask[s] + 1)
    BY <1>3, <2>1, SMTT(30)
  <2> QED
    BY <2>2, <2>3
<1> QED
  BY <1>1, <1>4 DEF InBox, mask

LEMMA LeavesApart ==
    ASSUME Types, Shape, Routes, Sizes, Masks, Boxed
    PROVE  LeavesDisjoint
<1> SUFFICES ASSUME NEW p \in Leaves, NEW q \in Leaves, p # q,
                    tree[p].box # NoBox, tree[q].box # NoBox
             PROVE  \E s \in Segments :
                        LET l == IF Len(tree[p].box[s]) < Len(tree[q].box[s])
                                 THEN Len(tree[p].box[s]) ELSE Len(tree[q].box[s])
                        IN  SubSeq(tree[p].box[s], 1, l) # SubSeq(tree[q].box[s], 1, l)
  BY DEF LeavesDisjoint
<1>1. PICK d \in Nat : Part(p, q, d)
  BY DEF Routes
<1>2. p \in Nodes /\ q \in Nodes /\ p \in Paths /\ q \in Paths
  BY DEF Shape, Leaves
<1>3. d \in 0 .. Len(p) - 1 /\ d \in 0 .. Len(q) - 1
  BY <1>1, <1>2 DEF Part, Paths
<1> DEFINE r == Pre(p, d)
           s == tree[r].splitpoint
           m == tree[r].split_mask[s] + 1
<1>4. r = Pre(q, d) /\ p[d + 1] # q[d + 1] /\ r \in Nodes \ Leaves
  BY <1>1, <1>2, <1>3 DEF Part, Shape
<1>5. s \in Segments /\ m \in 1 .. Bits
  BY <1>4, BitsAssumption, SMTT(30) DEF Sizes, Leaves, Types, NodeType
<1>6. ASSUME NEW x \in Nodes, x \in Paths, d \in 0 .. Len(x) - 1, r = Pre(x, d), tree[x].box # NoBox
      PROVE  /\ tree[x].box[s] \in Seq({0, 1})
             /\ m \in 1 .. Len(tree[x].box[s])
             /\ tree[x].box[s][m] = x[d + 1]
  <2>1. PICK w \in Words : OnRoute(x, w) /\ tree[x].box = Box(w, InheritedMask(x))
    BY <1>6 DEF Boxed
  <2>2. InheritedMask(x) \in [Segments -> 0 .. Bits - 1]
    BY MaskType
  <2>3. m <= InheritedMask(x)[s] + 1
    <3>1. tree[r].split_mask[s] <= InheritedMask(x)[s]
      BY <1>5, <1>6 DEF Masks
    <3>2. tree[r].split_mask[s] \in Int /\ InheritedMask(x)[s] \in Int
      BY <1>4, <1>5, <2>2 DEF Types, NodeType
    <3> QED
      BY <3>1, <3>2
  <2>4. x[d + 1] = Turn(r, w)
    BY <1>6, <2>1, RouteByTurns
  <2>5. Turn(r, w) = w[s][m]
    BY DEF Turn, Branch
  <2>6. /\ tree[x].box[s] \in Seq({0, 1})
        /\ Len(tree[x].box[s]) = InheritedMask(x)[s] + 1
        /\ \A b \in 1 .. InheritedMask(x)[s] + 1 : tree[x].box[s][b] = w[s][b]
    BY <1>5, <2>1, <2>2, BoxFacts
  <2>7. m \in 1 .. InheritedMask(x)[s] + 1
    <3>1. InheritedMask(x)[s] \in Nat
      BY <1>5, <2>2
    <3> HIDE DEF m
    <3> QED
      BY <1>5, <2>3, <3>1
  <2> QED
    BY <2>4, <2>5, <2>6, <2>7
<1> DEFINE a == tree[p].box[s]
           b == tree[q].box[s]
           l == IF Len(a) < Len(b) THEN Len(a) ELSE Len(b)
<1>7. /\ a \in Seq({0, 1}) /\ m \in 1 .. Len(a) /\ a[m] = p[d + 1]
      /\ b \in Seq({0, 1}) /\ m \in 1 .. Len(b) /\ b[m] = q[d + 1]
  BY <1>2, <1>3, <1>4, <1>6
<1>8. SubSeq(a, 1, l) # SubSeq(b, 1, l)
  <2> HIDE DEF a, b, m
  <2>1. m \in 1 .. l /\ l \in 0 .. Len(a) /\ l \in 0 .. Len(b)
    BY <1>7
  <2>2. SubSeq(a, 1, l)[m] = a[m] /\ SubSeq(b, 1, l)[m] = b[m]
    BY <1>7, <2>1
  <2> QED
    BY <1>4, <1>7, <2>2
<1> QED
  BY <1>5, <1>8

LEMMA InvSearch == ASSUME TreeInv PROVE SearchReaches
<1>0. Types /\ Shape /\ Routes /\ Sizes /\ Masks /\ Held /\ Boxed
  BY DEF TreeInv
<1>1. ASSUME NEW p \in Leaves, NEW n \in Elements(tree[p].buffer)
      PROVE  added[n] \in Words /\ OnRoute(p, added[n])
  BY <1>0 DEF Held, Types
<1>2. FoundWhereStored
  BY <1>0, <1>1, LeafForFacts DEF FoundWhereStored
<1>3. ASSUME NEW p \in Nodes, NEW q \in Leaves, Below(p, q), NEW n \in Elements(tree[q].buffer)
      PROVE  tree[p].box # NoBox /\ InBox(added[n], tree[p].box)
  <2>1. p \in Paths /\ q \in Paths /\ q \in Nodes
    BY <1>0 DEF Shape, Leaves
  <2>2. Len(p) \in 0 .. Len(q) /\ p = Pre(q, Len(p))
    BY <1>3, <2>1 DEF Below, Pre, Paths
  <2>3. OnRoute(p, added[n])
    <3>1. ASSUME NEW d \in 0 .. Len(p) - 1 PROVE p[d + 1] = Turn(Pre(p, d), added[n])
      <4>1. d \in 0 .. Len(q) - 1 /\ d \in 0 .. Len(p) /\ d + 1 \in 1 .. Len(p)
        BY <2>1, <2>2 DEF Paths
      <4>2. q[d + 1] = Turn(Pre(q, d), added[n])
        BY <1>1, <2>1, <4>1, RouteByTurns
      <4>3. q[d + 1] = p[d + 1] /\ Pre(q, d) = Pre(p, d)
        BY <2>1, <2>2, <4>1, PrefixFacts
      <4> QED
        BY <4>2, <4>3
    <3> QED
      BY <2>1, <3>1, RouteByTurns
  <2>4. tree[p].box # NoBox
    <3>1. CASE p = q
      <4>1. tree[q].leaf_size # 0
        <5>1. tree[q].buffer \in Seq(Positions) /\ tree[q].leaf_size = Len(tree[q].buffer)
          BY <1>0, <2>1 DEF Types, NodeType, Sizes
        <5> QED
          BY <1>3, <5>1 DEF Elements
      <4> QED
        BY <1>0, <3>1, <4>1 DEF Boxed
    <3>2. CASE p # q
      <4>1. Len(p) # Len(q)
        BY <2>1, <2>2, <3>2, PrefixFacts
      <4>2. Len(p) \in 0 .. Len(q) - 1
        BY <2>1, <2>2, <4>1 DEF Paths
      <4>3. p \in Nodes \ Leaves
        BY <1>0, <2>1, <2>2, <4>2 DEF Shape
      <4> QED
        BY <1>0, <4>3 DEF Boxed, Leaves
    <3> QED
      BY <3>1, <3>2
  <2> QED
    BY <1>0, <1>1, <2>3, <2>4, RouteInBox
<1>4. BoxCoversSubtree
  <2>1. \A p \in Nodes : tree[p].box = NoBox <=> tree[p].is_leaf /\ tree[p].leaf_size = 0
    BY <1>0 DEF Boxed
  <2> QED
    BY <1>3, <2>1 DEF BoxCoversSubtree
<1>5. LeavesDisjoint
  BY <1>0, LeavesApart
<1> QED
  BY <1>2, <1>4, <1>5 DEF SearchReaches

LEMMA InvNothingLost == ASSUME TreeInv PROVE NothingLost
<1>0. Types /\ Shape /\ Routes /\ Held
  BY DEF TreeInv
<1>1. UNION {Elements(tree[p].buffer) : p \in Leaves} = (1 .. Len(added)) \ {pending}
  BY <1>0 DEF Held
<1>2. ASSUME NEW p \in Leaves, NEW q \in Leaves,
             NEW m \in DOMAIN tree[p].buffer, NEW n \in DOMAIN tree[q].buffer,
             tree[p].buffer[m] = tree[q].buffer[n]
      PROVE  p = q /\ m = n
  <2> DEFINE r == tree[p].buffer[m]
  <2>1. r \in Elements(tree[p].buffer) /\ r \in Elements(tree[q].buffer)
    BY <1>2 DEF Elements
  <2>2. p = q
    BY <1>0, <2>1, OneLeaf DEF Held
  <2> QED
    BY <1>0, <1>2, <2>2 DEF Held, Distinct
<1> QED
  BY <1>1, <1>2 DEF NothingLost

LEMMA InvTypeOK == ASSUME TreeInv PROVE TypeOK
<1>0. Types /\ Shape /\ Sizes
  BY DEF TreeInv
<1>1. ASSUME NEW p \in Nodes \ {Root}
      PROVE  /\ Parent(p) \in Nodes \ Leaves
             /\ {Append(Parent(p), 0), Append(Parent(p), 1)} \subseteq Nodes
  <2>1. Parent(p) \in Nodes \ Leaves
    BY <1>0, ParentFacts
  <2> QED
    BY <1>0, <2>1 DEF Shape
<1>2. \A p \in Nodes : tree[p].split_mask \in [Segments -> 0 .. Bits - 1]
  BY <1>0 DEF Types, NodeType
<1> QED
  BY <1>0, <1>1, <1>2 DEF TypeOK, Types, Shape, Sizes
-----------------------------------------------------------------------------
(* The invariant holds at first.                                           *)

LEMMA NewLeafType == NewLeaf \in NodeType /\ NewLeaf.buffer = <<>>
<1>1. /\ <<>> \in Seq(Positions) /\ NoBox \in BoxTypes
      /\ [s \in Segments |-> 0] \in [Segments -> 0 .. Bits - 1]
  BY BitsAssumption DEF BoxTypes, NoBox
<1> QED
  BY <1>1 DEF NewLeaf, NodeType, EmptyBuffer

LEMMA TreeInit == Init => TreeInv
<1> SUFFICES ASSUME Init PROVE TreeInv
  OBVIOUS
<1>1. /\ added = <<>> /\ pending = 0 /\ exited = FALSE
      /\ tree = [p \in {Root} |-> NewLeaf]
  BY DEF Init, None
<1>2. Nodes = {Root} /\ tree[Root] = NewLeaf
  BY <1>1 DEF Nodes
<1>3. Leaves = {Root}
  BY <1>2 DEF Leaves, NewLeaf
<1>4. Root \in Paths /\ Len(Root) = 0
  BY DEF Root, Paths
<1>5. Types
  <2>1. tree \in [Nodes -> NodeType]
    BY <1>1, <1>2, NewLeafType
  <2>2. <<>> \in Seq(Words) /\ Len(<<>>) = 0
    OBVIOUS
  <2>3. added \in Seq(Words) /\ pending \in 0 .. Len(added)
    BY <1>1, <2>2
  <2>4. exited \in BOOLEAN
    BY <1>1
  <2> QED
    BY <2>1, <2>3, <2>4 DEF Types
<1>6. Shape
  BY <1>2, <1>3, <1>4 DEF Shape
<1>7. \A sax : OnRoute(Root, sax)
  BY <1>4 DEF OnRoute
<1>8. Routes
  BY <1>3, <1>7 DEF Routes
<1>9. Sizes
  BY <1>2, MaxLeafSizeAssumption DEF Sizes, NewLeaf, EmptyBuffer
<1>10. Masks
  <2>1. ASSUME NEW v \in Words, NEW w \in Words, NEW s \in Segments,
               NEW b \in 1 .. InheritedMask(Root)[s] + 1
        PROVE  v[s][b] = w[s][b]
    <3>1. b = 1
      BY DEF InheritedMask
    <3> QED
      BY <3>1 DEF Words
  <2> QED
    BY <1>2, <1>4, <2>1 DEF Masks
<1>11. Held
  <2>1. Elements(tree[Root].buffer) = {} /\ Distinct(tree[Root].buffer)
    BY <1>2, NewLeafType DEF Elements, Distinct
  <2>2. (1 .. Len(added)) \ {pending} = {}
    BY <1>1
  <2> QED
    BY <1>3, <2>1, <2>2 DEF Held
<1>12. Boxed
  BY <1>2 DEF Boxed, NewLeaf
<1>13. ExitOnlyOnEqualWords
  BY <1>1 DEF ExitOnlyOnEqualWords
<1> QED
  BY <1>5, <1>6, <1>8, <1>9, <1>10, <1>11, <1>12, <1>13 DEF TreeInv

-----------------------------------------------------------------------------
(* A step that leaves the nodes alone: Add, Exit, Stop.                    *)

LEMMA AddKeeps == ASSUME TreeInv, NEW sax \in Words, Add(sax) PROVE TreeInv'
<1>0. /\ Types /\ Shape /\ Routes /\ Sizes /\ Masks /\ Held /\ Boxed
      /\ pending = 0 /\ ~exited /\ tree' = tree /\ exited' = exited
      /\ added' = Append(added, sax) /\ pending' = Len(added')
  BY DEF TreeInv, Add, None
<1>1. /\ Len(added) \in Nat /\ added' \in Seq(Words) /\ pending' = Len(added) + 1
      /\ Len(added') = Len(added) + 1
      /\ \A n \in 1 .. Len(added) : added'[n] = added[n]
  BY <1>0 DEF Types
<1>2. Nodes' = Nodes /\ Leaves' = Leaves
  BY <1>0 DEF Nodes, Leaves
<1>3. Types'
  BY <1>0, <1>1 DEF Types, Nodes
<1>4. \A p, w : OnRoute(p, w)' <=> OnRoute(p, w)
  BY <1>0 DEF OnRoute
<1>5. \A p : InheritedMask(p)' = InheritedMask(p)
  BY <1>0 DEF InheritedMask
<1>6. Shape' /\ Sizes'
  BY <1>0, <1>2 DEF Shape, Sizes
<1>7. Routes'
  BY <1>0, <1>2, <1>4 DEF Routes
<1>8. Masks'
  BY <1>0, <1>2, <1>4, <1>5 DEF Masks
<1>9. Boxed'
  BY <1>0, <1>2, <1>4, <1>5 DEF Boxed
<1>10. Held'
  <2>1. (1 .. Len(added')) \ {pending'} = (1 .. Len(added)) \ {pending}
    BY <1>0, <1>1
  <2>2. ASSUME NEW p \in Leaves, NEW n \in Elements(tree[p].buffer)
        PROVE  n \in (1 .. Len(added)) \ {pending} /\ OnRoute(p, added'[n])
    BY <1>0, <1>1, <2>2 DEF Held
  <2> QED
    BY <1>0, <1>2, <1>4, <2>1, <2>2 DEF Held
<1>11. ExitOnlyOnEqualWords'
  BY <1>0 DEF ExitOnlyOnEqualWords
<1> QED
  BY <1>3, <1>6, <1>7, <1>8, <1>9, <1>10, <1>11 DEF TreeInv

\* Where no segment has a bit left to split on, all words on the route are equal.
LEMMA OutOfBits ==
    ASSUME Types, Shape, Masks, NEW p \in Nodes, Splittable(InheritedMask(p)) = {},
           NEW v \in Words, NEW w \in Words, OnRoute(p, v), OnRoute(p, w)
    PROVE  v = w
<1>1. ASSUME NEW s \in Segments PROVE v[s] = w[s]
  <2>1. InheritedMask(p)[s] + 1 = Bits
    BY MaskType, BitsAssumption DEF Splittable
  <2>2. \A b \in 1 .. Bits : v[s][b] = w[s][b]
    BY <2>1 DEF Masks
  <2>3. v[s] \in [1 .. Bits -> {0, 1}] /\ w[s] \in [1 .. Bits -> {0, 1}]
    BY DEF Words, Symbols
  <2>4. v[s] = [b \in 1 .. Bits |-> v[s][b]] /\ w[s] = [b \in 1 .. Bits |-> w[s][b]]
    BY <2>3
  <2>5. [b \in 1 .. Bits |-> v[s][b]] = [b \in 1 .. Bits |-> w[s][b]]
    BY <2>2
  <2> QED
    BY <2>4, <2>5
<1> QED
  BY <1>1 DEF Words

LEMMA ExitKeeps == ASSUME TreeInv, Exit PROVE TreeInv'
<1> DEFINE p == LeafFor(added[pending])
           equal == {n \in 1 .. Len(added) : added[n] = added[pending]}
<1>0. /\ Types /\ Shape /\ Routes /\ Sizes /\ Masks /\ Held /\ Boxed
      /\ pending # 0 /\ Full(tree[p]) /\ Splittable(InheritedMask(p)) = {}
      /\ added' = added /\ tree' = tree /\ pending' = pending
  BY DEF TreeInv, Exit, None
<1>1. pending \in 1 .. Len(added) /\ added[pending] \in Words
  BY <1>0 DEF Types
<1>2. p \in Leaves /\ OnRoute(p, added[pending])
  BY <1>0, <1>1, LeafForFacts
<1>3. p \in Nodes
  BY <1>2 DEF Leaves
<1> HIDE DEF p
<1> DEFINE R == Elements(tree[p].buffer)
<1>4. /\ IsFiniteSet(R) /\ Cardinality(R) >= MaxLeafSize /\ Cardinality(R) \in Nat
      /\ pending \notin R
  <2>1. tree[p].buffer \in Seq(Positions) /\ Distinct(tree[p].buffer)
    BY <1>0, <1>2, <1>3 DEF Types, NodeType, Held
  <2>2. Len(tree[p].buffer) >= MaxLeafSize
    BY <1>0, <1>3 DEF Sizes, Full
  <2>3. pending \notin R
    BY <1>0, <1>2 DEF Held
  <2>4. Len(tree[p].buffer) \in Nat
    BY <2>1
  <2> QED
    BY <2>1, <2>2, <2>3, <2>4, DistinctCount, SameEntries
<1>5. R \cup {pending} \subseteq equal
  <2>1. ASSUME NEW n \in R PROVE n \in equal
    <3>1. n \in 1 .. Len(added) /\ OnRoute(p, added[n])
      BY <1>0, <1>2, <2>1 DEF Held
    <3>2. added[n] \in Words
      BY <1>0, <3>1 DEF Types
    <3> QED
      BY <1>0, <1>1, <1>2, <1>3, <3>1, <3>2, OutOfBits
  <2>2. pending \in equal
    BY <1>1
  <2> QED
    BY <2>1, <2>2
<1>6. IsFiniteSet(equal) /\ Cardinality(equal) \in Nat
  <2>1. IsFiniteSet(1 .. Len(added)) /\ equal \subseteq 1 .. Len(added)
    <3> DEFINE len == Len(added)
    <3>1. len \in Nat
      BY <1>0 DEF Types
    <3>2. IsFiniteSet(1 .. len)
      <4> HIDE DEF len
      <4> QED
        BY <3>1, FS_Interval
    <3> QED
      BY <3>2
  <2> QED
    BY <2>1, FS_Subset, FS_CardinalityType
<1> HIDE DEF R, equal
<1>7. Cardinality(R \cup {pending}) = Cardinality(R) + 1
  BY <1>4, FS_AddElement
<1>8. Cardinality(R \cup {pending}) <= Cardinality(equal)
  BY <1>5, <1>6, FS_Subset
<1>9. Cardinality(equal) > MaxLeafSize
  BY <1>4, <1>6, <1>7, <1>8, MaxLeafSizeAssumption
<1>10. ExitOnlyOnEqualWords'
  BY <1>0, <1>9 DEF ExitOnlyOnEqualWords, equal
<1>11. Types'
  BY <1>0 DEF Types, Exit, Nodes
<1>12. Nodes' = Nodes /\ Leaves' = Leaves
  BY <1>0 DEF Nodes, Leaves
<1>13. (\A q, w : OnRoute(q, w)' <=> OnRoute(q, w)) /\ \A q : InheritedMask(q)' = InheritedMask(q)
  BY <1>0 DEF OnRoute, InheritedMask
<1>14. Shape' /\ Routes' /\ Sizes'
  BY <1>0, <1>12, <1>13 DEF Shape, Routes, Sizes
<1>15. Masks' /\ Held' /\ Boxed'
  BY <1>0, <1>12, <1>13 DEF Masks, Held, Boxed
<1> QED
  BY <1>10, <1>11, <1>14, <1>15 DEF TreeInv
-----------------------------------------------------------------------------
(* A record is stored.                                                     *)

LEMMA StoreKeeps == ASSUME TreeInv, Store PROVE TreeInv'
<1> PICK p : p = LeafFor(added[pending])
  OBVIOUS
<1> DEFINE sax == added[pending]
           mask == InheritedMask(p)
           old == tree[p]
<1>0. /\ Types /\ Shape /\ Routes /\ Sizes /\ Masks /\ Held /\ Boxed /\ ~exited
      /\ pending # 0 /\ ~Full(old)
      /\ added' = added /\ exited' = exited /\ pending' = 0
      /\ tree' = [tree EXCEPT ![p].box = IF @ = NoBox THEN Box(sax, mask) ELSE @,
                              ![p].buffer = Append(@, pending),
                              ![p].leaf_size = @ + 1]
  BY DEF TreeInv, Store, None, Stored
<1>1. pending \in 1 .. Len(added) /\ sax \in Words /\ pending \in Positions
  BY <1>0 DEF Types, Positions
<1>2. p \in Leaves /\ OnRoute(p, sax)
  BY <1>0, <1>1, LeafForFacts
<1>3. p \in Nodes /\ old \in NodeType /\ old.is_leaf
  BY <1>0, <1>2 DEF Leaves, Types
<1>4. mask \in [Segments -> 0 .. Bits - 1]
  BY <1>0, <1>3, MaskType
<1> HIDE DEF mask, sax
<1> DEFINE new == [old EXCEPT !.box = IF old.box = NoBox THEN Box(sax, mask) ELSE old.box,
                              !.buffer = Append(old.buffer, pending),
                              !.leaf_size = old.leaf_size + 1]
<1>5. /\ new.is_leaf = old.is_leaf /\ new.split_mask = old.split_mask
      /\ new.splitpoint = old.splitpoint
      /\ new.buffer = Append(old.buffer, pending)
      /\ new.leaf_size = old.leaf_size + 1
      /\ new.box = IF old.box = NoBox THEN Box(sax, mask) ELSE old.box
      /\ new \in NodeType
  <2>1. Append(old.buffer, pending) \in Seq(Positions) /\ old.leaf_size + 1 \in Nat
    BY <1>1, <1>3 DEF NodeType
  <2>2. (IF old.box = NoBox THEN Box(sax, mask) ELSE old.box) \in BoxTypes
    BY <1>1, <1>3, <1>4, BoxFacts DEF NodeType, BoxTypes
  <2> QED
    BY <1>3, <2>1, <2>2 DEF NodeType
<1>6. tree' = [tree EXCEPT ![p] = new]
  BY <1>0, <1>3 DEF Types, NodeType
<1> HIDE DEF new
<1>7. /\ Nodes' = Nodes
      /\ tree'[p] = new
      /\ \A q \in Nodes : q # p => tree'[q] = tree[q]
      /\ tree' \in [Nodes -> NodeType]
  BY <1>0, <1>3, <1>5, <1>6 DEF Types, Nodes
<1>8. Leaves' = Leaves
  BY <1>3, <1>5, <1>7 DEF Leaves
<1>9. /\ \A q \in Nodes : InheritedMask(q)' = InheritedMask(q)
      /\ \A q \in Nodes : \A d \in 0 .. Len(q) - 1 :
             tree'[Pre(q, d)].split_mask = tree[Pre(q, d)].split_mask
      /\ \A q \in Nodes : \A w : OnRoute(q, w)' <=> OnRoute(q, w)
  <2>1. \A q \in Nodes \ Leaves : /\ tree'[q].split_mask = tree[q].split_mask
                                  /\ tree'[q].splitpoint = tree[q].splitpoint
    BY <1>2, <1>7
  <2> QED
    BY <1>0, <2>1, Frame
<1>10. Types'
  BY <1>0, <1>7 DEF Types
<1>11. Shape'
  BY <1>0, <1>7, <1>8 DEF Shape
<1>12. Routes'
  <2>1. \A q \in Leaves : q \in Nodes
    BY SMTT(30) DEF Leaves
  <2> QED
    BY <1>0, <1>8, <1>9, <2>1 DEF Routes
<1>13. Sizes'
  <2>1. /\ new.leaf_size = Len(new.buffer) /\ new.leaf_size <= MaxLeafSize /\ new.is_leaf
    <3>1. /\ old.leaf_size = Len(old.buffer) /\ old.buffer \in Seq(Positions)
          /\ old.leaf_size \in Nat
      BY <1>0, <1>3 DEF Sizes, NodeType
    <3>2. old.leaf_size < MaxLeafSize
      BY <1>0, <3>1, MaxLeafSizeAssumption DEF Full
    <3> HIDE DEF old
    <3> QED
      BY <1>1, <1>3, <1>5, <3>1, <3>2, MaxLeafSizeAssumption
  <2> QED
    BY <1>0, <1>7, <2>1 DEF Sizes
<1>14. Masks'
  <2>1. ASSUME NEW q \in Nodes, NEW d \in 0 .. Len(q) - 1, NEW s \in Segments
        PROVE  tree'[Pre(q, d)].split_mask[s] <= InheritedMask(q)'[s]
    BY <1>0, <1>9 DEF Masks
  <2>2. ASSUME NEW q \in Nodes, NEW v \in Words, NEW w \in Words,
               OnRoute(q, v)', OnRoute(q, w)', NEW s \in Segments,
               NEW b \in 1 .. InheritedMask(q)'[s] + 1
        PROVE  v[s][b] = w[s][b]
    <3>1. OnRoute(q, v) /\ OnRoute(q, w) /\ b \in 1 .. InheritedMask(q)[s] + 1
      BY <1>9, <2>2
    <3> QED
      BY <1>0, <3>1 DEF Masks
  <2> QED
    BY <1>7, <2>1, <2>2, SMTT(30) DEF Masks
<1>15. Held'
  <2>1. pending \notin Elements(old.buffer) /\ Distinct(old.buffer)
    BY <1>0, <1>2 DEF Held
  <2>2. /\ Elements(new.buffer) = Elements(old.buffer) \cup {pending}
        /\ Distinct(new.buffer)
    <3>1. old.buffer \in Seq(Positions)
      BY <1>3 DEF NodeType
    <3> QED
      BY <1>1, <1>5, <2>1, <3>1, AppendEntries, SameEntries
  <2>3. (1 .. Len(added')) \ {pending'} = ((1 .. Len(added)) \ {pending}) \cup {pending}
    BY <1>0, <1>1
  <2>4. ASSUME NEW q \in Leaves
        PROVE  /\ Distinct(tree'[q].buffer)
               /\ \A n \in Elements(tree'[q].buffer) :
                      /\ n \in (1 .. Len(added')) \ {pending'}
                      /\ OnRoute(q, added[n])'
    <3>0. q \in Nodes
      BY DEF Leaves
    <3>1. CASE q = p
      <4>1. ASSUME NEW n \in Elements(new.buffer)
            PROVE  n \in (1 .. Len(added')) \ {pending'} /\ OnRoute(q, added'[n])
        <5>1. CASE n = pending
          BY <1>0, <1>1, <1>2, <2>3, <3>1, <5>1 DEF sax
        <5>2. CASE n \in Elements(old.buffer)
          BY <1>0, <1>2, <2>3, <3>1, <5>2, SMTT(30) DEF Held
        <5> QED
          BY <2>2, <4>1, <5>1, <5>2
      <4> QED
        BY <1>7, <1>9, <2>2, <3>0, <3>1, <4>1
    <3>2. CASE q # p
      <4>1. tree'[q] = tree[q] /\ \A w : OnRoute(q, w)' <=> OnRoute(q, w)
        BY <1>7, <1>9, <3>0, <3>2
      <4> QED
        BY <1>0, <2>3, <4>1 DEF Held
    <3> QED
      BY <3>1, <3>2
  <2>5. ASSUME NEW n \in (1 .. Len(added')) \ {pending'}
        PROVE  \E q \in Leaves : n \in Elements(tree'[q].buffer)
    <3>1. CASE n = pending
      BY <1>2, <1>7, <2>2, <3>1
    <3>2. CASE n # pending
      <4>1. PICK q \in Leaves : n \in Elements(tree[q].buffer)
        BY <1>0, <2>3, <3>2 DEF Held
      <4>2. q \in Nodes
        BY DEF Leaves
      <4>3. n \in Elements(tree'[q].buffer)
        BY <1>7, <2>2, <4>1, <4>2
      <4> QED
        BY <4>3
    <3> QED
      BY <3>1, <3>2
  <2> QED
    BY <1>8, <2>4, <2>5 DEF Held
<1>16. Boxed'
  <2>1. ASSUME NEW q \in Nodes
        PROVE  /\ tree'[q].box = NoBox <=> tree'[q].is_leaf /\ tree'[q].leaf_size = 0
               /\ tree'[q].box # NoBox =>
                      \E w \in Words : OnRoute(q, w)' /\ tree'[q].box = Box(w, InheritedMask(q)')
    <3>1. CASE q # p
      <4>1. tree'[q] = tree[q] /\ (\A w : OnRoute(q, w)' <=> OnRoute(q, w))
            /\ InheritedMask(q)' = InheritedMask(q)
        BY <1>7, <1>9, <3>1
      <4>2. tree[q].box # NoBox =>
                \E w \in Words : OnRoute(q, w) /\ tree[q].box = Box(w, InheritedMask(q))
        BY <1>0 DEF Boxed
      <4>3. tree[q].box = NoBox <=> tree[q].is_leaf /\ tree[q].leaf_size = 0
        BY <1>0 DEF Boxed
      <4> QED
        BY <4>1, <4>2, <4>3
    <3>2. CASE q = p
      <4>1. new.leaf_size # 0 /\ new.box # NoBox
        <5>1. old.leaf_size \in Nat
          BY <1>3 DEF NodeType
        <5> QED
          BY <1>1, <1>4, <1>5, <5>1, BoxFacts
      <4>2. \E w \in Words : OnRoute(p, w) /\ new.box = Box(w, mask)
        <5>1. CASE old.box = NoBox
          BY <1>1, <1>2, <1>5, <5>1
        <5>2. CASE old.box # NoBox
          BY <1>0, <1>3, <1>5, <5>2 DEF Boxed, mask
        <5> QED
          BY <5>1, <5>2
      <4>3. (\A w : OnRoute(p, w)' <=> OnRoute(p, w)) /\ InheritedMask(p)' = mask
        BY <1>3, <1>9 DEF mask
      <4> QED
        BY <1>7, <3>2, <4>1, <4>2, <4>3
    <3> QED
      BY <3>1, <3>2
  <2> QED
    BY <1>7, <2>1 DEF Boxed
<1>17. ExitOnlyOnEqualWords'
  BY <1>0 DEF ExitOnlyOnEqualWords
<1> QED
  BY <1>10, <1>11, <1>12, <1>13, <1>14, <1>15, <1>16, <1>17 DEF TreeInv
-----------------------------------------------------------------------------
(* A leaf is split.                                                        *)

\* What is known of a child.
ChildOf(c, p, split_mask, s, side) ==
    /\ c \in NodeType
    /\ c.is_leaf
    /\ c.leaf_size = Len(c.buffer)
    /\ c.leaf_size <= MaxLeafSize
    /\ Distinct(c.buffer)
    /\ Elements(c.buffer) =
           {n \in Elements(tree[p].buffer) : Branch(added[n], split_mask, s) = side}
    /\ c.box = NoBox <=> c.leaf_size = 0
    /\ c.box # NoBox => \E n \in Elements(c.buffer) : c.box = Box(added[n], split_mask)

LEMMA LeafOfFacts ==
    ASSUME NEW mine \in Seq(Positions), NEW mask \in [Segments -> 0 .. Bits - 1],
           \A n \in Elements(mine) : added[n] \in Words,
           NEW c, c = LeafOf(mine, mask)
    PROVE  /\ c \in NodeType /\ c.is_leaf
           /\ c.buffer = mine /\ c.leaf_size = Len(mine)
           /\ c.box = NoBox <=> mine = <<>>
           /\ c.box # NoBox => \E n \in Elements(mine) : c.box = Box(added[n], mask)
<1> DEFINE box == IF mine = <<>> THEN NoBox ELSE Box(added[mine[1]], mask)
<1>1. mine # <<>> => mine[1] \in Elements(mine)
  <2>1. mine # <<>> => 1 \in DOMAIN mine
    OBVIOUS
  <2> QED
    BY <2>1 DEF Elements
<1>2. /\ box \in BoxTypes /\ (box = NoBox <=> mine = <<>>)
      /\ box # NoBox => \E n \in Elements(mine) : box = Box(added[n], mask)
  BY <1>1, BoxFacts DEF BoxTypes
<1> HIDE DEF box
<1>3. c = [NewLeaf EXCEPT !.leaf_size = Len(mine), !.buffer = mine, !.box = box]
  BY DEF LeafOf, box, EmptyBuffer
<1>4. /\ c.is_leaf /\ c.buffer = mine /\ c.leaf_size = Len(mine) /\ c.box = box
  BY <1>3 DEF NewLeaf
<1>5. c \in NodeType
  <2>1. Len(mine) \in Nat
    OBVIOUS
  <2> QED
    BY <1>2, <1>3, <2>1, NewLeafType DEF NodeType
<1> QED
  BY <1>2, <1>4, <1>5

LEMMA ChildIs ==
    ASSUME Types, Sizes, Held, NEW p \in Leaves,
           NEW split_mask \in [Segments -> 0 .. Bits - 1], NEW s \in Segments, NEW side \in {0, 1}
    PROVE  ChildOf(Child(tree[p].buffer, split_mask, s, side), p, split_mask, s, side)
<1> DEFINE mine == Moved(tree[p].buffer, split_mask, s, side)
           c == Child(tree[p].buffer, split_mask, s, side)
<1>0. p \in Nodes /\ tree[p].buffer \in Seq(Positions) /\ Distinct(tree[p].buffer)
  BY DEF Leaves, Types, NodeType, Held
<1>1. /\ mine \in Seq(Positions) /\ Len(mine) <= Len(tree[p].buffer)
      /\ Elements(mine) =
             {n \in Elements(tree[p].buffer) : Branch(added[n], split_mask, s) = side}
      /\ Distinct(mine)
  BY <1>0, MovedFacts
<1>2. \A n \in Elements(mine) : added[n] \in Words
  BY <1>1 DEF Held, Types
<1>3. c = LeafOf(mine, split_mask)
  BY DEF Child
<1> HIDE DEF c, mine
<1>4. /\ c \in NodeType /\ c.is_leaf /\ c.buffer = mine /\ c.leaf_size = Len(mine)
      /\ c.box = NoBox <=> mine = <<>>
      /\ c.box # NoBox => \E n \in Elements(mine) : c.box = Box(added[n], split_mask)
  BY <1>1, <1>2, <1>3, LeafOfFacts
<1>5. Len(mine) <= MaxLeafSize
  <2>1. Len(tree[p].buffer) <= MaxLeafSize
    BY <1>0 DEF Sizes
  <2> QED
    BY <1>0, <1>1, <2>1, MaxLeafSizeAssumption
<1>6. Len(mine) = 0 <=> mine = <<>>
  BY <1>1, SMTT(30)
<1> QED
  BY <1>1, <1>4, <1>5, <1>6 DEF ChildOf, c

\* What a split of p on segment s does to the nodes.
SplitDone(p, s, mask) ==
    /\ p \in Leaves /\ p \in Nodes /\ p \in Paths
    /\ Full(tree[p])
    /\ mask \in [Segments -> 0 .. Bits - 1]
    /\ mask[s] = InheritedMask(p)[s] + 1
    /\ \A z \in Segments : z # s => mask[z] = InheritedMask(p)[z]
    /\ \A x \in {0, 1} : Append(p, x) \notin Nodes
    /\ Nodes' = Nodes \cup {Append(p, 0), Append(p, 1)}
    /\ tree' \in [Nodes' -> NodeType]
    /\ tree'[p] = Inner(tree[p], mask, s)
    /\ \A x \in {0, 1} : ChildOf(tree'[Append(p, x)], p, mask, s, x)
    /\ \A q \in Nodes : q # p => tree'[q] = tree[q]
    /\ Leaves' = (Leaves \ {p}) \cup {Append(p, 0), Append(p, 1)}

LEMMA SplitFacts ==
    ASSUME TreeInv, NEW s \in Segments, Split(s),
           NEW p, p = LeafFor(added[pending]),
           NEW mask, mask = [InheritedMask(p) EXCEPT ![s] = @ + 1]
    PROVE  SplitDone(p, s, mask)
<1>0. /\ Types /\ Shape /\ Routes /\ Sizes /\ Held /\ pending # 0
      /\ Full(tree[p]) /\ s \in Splittable(InheritedMask(p))
      /\ tree' = [q \in Nodes \cup {Append(p, 0), Append(p, 1)} |->
                       IF q = p THEN Inner(tree[p], mask, s)
                       ELSE IF q = Append(p, 0) THEN Child(tree[p].buffer, mask, s, 0)
                       ELSE IF q = Append(p, 1) THEN Child(tree[p].buffer, mask, s, 1)
                       ELSE tree[q]]
  BY DEF TreeInv, Split, None
<1>1. pending \in 1 .. Len(added) /\ added[pending] \in Words
  BY <1>0 DEF Types
<1>2. p \in Leaves /\ p \in Nodes /\ p \in Paths
  <2>1. p \in Leaves
    BY <1>0, <1>1, LeafForFacts
  <2> QED
    BY <1>0, <2>1 DEF Leaves, Shape
<1>3. /\ mask \in [Segments -> 0 .. Bits - 1]
      /\ mask[s] = InheritedMask(p)[s] + 1
      /\ \A z \in Segments : z # s => mask[z] = InheritedMask(p)[z]
  <2>1. InheritedMask(p) \in [Segments -> 0 .. Bits - 1]
    BY <1>0, <1>2, MaskType
  <2>2. InheritedMask(p)[s] + 1 \in 0 .. Bits - 1
    BY <1>0, <2>1, BitsAssumption DEF Splittable
  <2> QED
    BY <2>1, <2>2
<1>4. ASSUME NEW x \in {0, 1} PROVE Append(p, x) \notin Nodes /\ Append(p, x) # p
  <2>1. Append(p, x) # Root /\ Parent(Append(p, x)) = p /\ Len(Append(p, x)) = Len(p) + 1
    BY <1>2, ChildFacts
  <2>2. Append(p, x) \notin Nodes
    BY <1>0, <1>2, <2>1, ParentFacts
  <2> QED
    BY <1>2, <2>2
<1>5. Append(p, 0) # Append(p, 1)
  <2>1. Append(p, 0)[Len(p) + 1] = 0 /\ Append(p, 1)[Len(p) + 1] = 1
    BY <1>2, ChildFacts
  <2> QED
    BY <2>1
<1>6. \A x \in {0, 1} : ChildOf(Child(tree[p].buffer, mask, s, x), p, mask, s, x)
  BY <1>0, <1>2, <1>3, ChildIs
<1>7. Nodes' = Nodes \cup {Append(p, 0), Append(p, 1)}
  BY <1>0 DEF Nodes
<1>8. /\ tree'[p] = Inner(tree[p], mask, s)
      /\ \A q \in Nodes : q # p => tree'[q] = tree[q]
      /\ \A x \in {0, 1} : tree'[Append(p, x)] = Child(tree[p].buffer, mask, s, x)
  BY <1>0, <1>2, <1>4, <1>5
<1>9. Inner(tree[p], mask, s) \in NodeType /\ ~Inner(tree[p], mask, s).is_leaf
  <2>1. tree[p] \in NodeType /\ <<>> \in Seq(Positions)
    BY <1>0, <1>2 DEF Types
  <2> QED
    BY <1>3, <2>1 DEF Inner, NodeType, Destroyed
<1>10. tree' \in [Nodes' -> NodeType]
  <2>1. \A q \in Nodes' : tree'[q] \in NodeType
    BY <1>0, <1>6, <1>7, <1>8, <1>9 DEF ChildOf, Types
  <2>2. tree' = [q \in Nodes' |-> tree'[q]]
    BY <1>0, <1>7
  <2> QED
    BY <2>1, <2>2
<1>11. Leaves' = (Leaves \ {p}) \cup {Append(p, 0), Append(p, 1)}
  <2>1. \A x \in {0, 1} : tree'[Append(p, x)].is_leaf
    BY <1>6, <1>8 DEF ChildOf
  <2> QED
    BY <1>4, <1>7, <1>8, <1>9, <2>1 DEF Leaves
<1> QED
  BY <1>0, <1>2, <1>3, <1>4, <1>6, <1>7, <1>8, <1>10, <1>11 DEF SplitDone

\* The routes after a split: those of the old nodes stay, and a child is on the
\* routes of the leaf that was split with its bit.
LEMMA SplitRoutes ==
    ASSUME TreeInv, NEW s \in Segments, Split(s),
           NEW p, p = LeafFor(added[pending]),
           NEW mask, mask = [InheritedMask(p) EXCEPT ![s] = @ + 1]
    PROVE  /\ \A q \in Nodes :
                  /\ InheritedMask(q)' = InheritedMask(q)
                  /\ \A d \in 0 .. Len(q) - 1 :
                         tree'[Pre(q, d)].split_mask = tree[Pre(q, d)].split_mask
                  /\ \A w : OnRoute(q, w)' <=> OnRoute(q, w)
           /\ tree'[p].split_mask = mask
           /\ tree'[p].splitpoint = s
           /\ \A x \in {0, 1} :
                  /\ InheritedMask(Append(p, x))' = mask
                  /\ \A w : OnRoute(Append(p, x), w)' <=>
                                OnRoute(p, w) /\ Branch(w, mask, s) = x
<1>0. /\ Types /\ Shape
      /\ p \in Leaves /\ p \in Nodes /\ p \in Paths
      /\ tree'[p] = Inner(tree[p], mask, s)
      /\ \A q \in Nodes : q # p => tree'[q] = tree[q]
  <2>1. SplitDone(p, s, mask)
    BY SplitFacts
  <2> QED
    BY <2>1 DEF TreeInv, SplitDone
<1>1. \A q \in Nodes \ Leaves : /\ tree'[q].split_mask = tree[q].split_mask
                                /\ tree'[q].splitpoint = tree[q].splitpoint
  BY <1>0
<1>2. \A q \in Nodes :
          /\ InheritedMask(q)' = InheritedMask(q)
          /\ \A d \in 0 .. Len(q) - 1 :
                 tree'[Pre(q, d)].split_mask = tree[Pre(q, d)].split_mask
          /\ \A w : OnRoute(q, w)' <=> OnRoute(q, w)
  BY <1>0, <1>1, Frame
<1>3. tree'[p].split_mask = mask /\ tree'[p].splitpoint = s
  <2>1. tree[p] \in NodeType
    BY <1>0 DEF Types
  <2> QED
    BY <1>0, <2>1 DEF Inner, NodeType
<1>4. ASSUME NEW x \in {0, 1}
      PROVE  /\ InheritedMask(Append(p, x))' = mask
             /\ \A w : OnRoute(Append(p, x), w)' <=> OnRoute(p, w) /\ Branch(w, mask, s) = x
  <2>0. PICK c : c = Append(p, x)
    OBVIOUS
  <2>1. /\ c \in Paths /\ Len(c) = Len(p) + 1 /\ Len(p) \in Nat
        /\ c[Len(p) + 1] = x
        /\ \A h \in 1 .. Len(p) : c[h] = p[h]
        /\ \A d \in 0 .. Len(p) : Pre(c, d) = Pre(p, d)
        /\ Pre(c, Len(p)) = p
        /\ Parent(c) = p
        /\ c # Root
    <3>1. Len(p) \in Nat
      BY <1>0 DEF Paths
    <3> QED
      BY <1>0, <2>0, <3>1, ChildFacts
  <2>2. InheritedMask(c)' = mask
    BY <1>3, <2>1 DEF InheritedMask
  <2>3. ASSUME NEW w PROVE OnRoute(c, w)' <=> OnRoute(p, w) /\ Branch(w, mask, s) = x
    <3>1. OnRoute(c, w)' <=>
              \A d \in 1 .. Len(p) + 1 :
                  c[d] = Branch(w, tree'[Pre(c, d - 1)].split_mask, tree'[Pre(c, d - 1)].splitpoint)
      BY <2>1 DEF OnRoute, Pre
    <3>2. OnRoute(p, w) <=>
              \A d \in 1 .. Len(p) :
                  p[d] = Branch(w, tree[Pre(p, d - 1)].split_mask, tree[Pre(p, d - 1)].splitpoint)
      BY DEF OnRoute, Pre
    <3>3. ASSUME NEW d \in 1 .. Len(p)
          PROVE  /\ c[d] = p[d]
                 /\ tree'[Pre(c, d - 1)].split_mask = tree[Pre(p, d - 1)].split_mask
                 /\ tree'[Pre(c, d - 1)].splitpoint = tree[Pre(p, d - 1)].splitpoint
      <4>1. d - 1 \in 0 .. Len(p) - 1 /\ d - 1 \in 0 .. Len(p)
        BY <2>1
      <4>2. Pre(p, d - 1) \in Nodes \ Leaves
        BY <1>0, <4>1 DEF Shape
      <4> QED
        BY <1>1, <2>1, <4>1, <4>2
    <3>4. /\ Len(p) + 1 \in 1 .. Len(p) + 1 /\ Pre(c, (Len(p) + 1) - 1) = p
          /\ \A d \in 1 .. Len(p) + 1 : d \in 1 .. Len(p) \/ d = Len(p) + 1
          /\ \A d \in 1 .. Len(p) : d \in 1 .. Len(p) + 1
      BY <2>1
    <3>5. c[Len(p) + 1] = x /\ tree'[p].split_mask = mask /\ tree'[p].splitpoint = s
      BY <1>3, <2>1
    <3>6. ASSUME OnRoute(c, w)' PROVE OnRoute(p, w) /\ Branch(w, mask, s) = x
      <4>1. Branch(w, mask, s) = x
        BY <3>1, <3>4, <3>5, <3>6
      <4>2. OnRoute(p, w)
        BY <3>1, <3>2, <3>3, <3>4, <3>6
      <4> QED
        BY <4>1, <4>2
    <3>7. ASSUME OnRoute(p, w), Branch(w, mask, s) = x PROVE OnRoute(c, w)'
      <4>1. ASSUME NEW d \in 1 .. Len(p) + 1
            PROVE  c[d] = Branch(w, tree'[Pre(c, d - 1)].split_mask, tree'[Pre(c, d - 1)].splitpoint)
        <5>1. CASE d = Len(p) + 1
          BY <3>4, <3>5, <3>7, <5>1
        <5>2. CASE d \in 1 .. Len(p)
          BY <3>2, <3>3, <3>7, <5>2
        <5> QED
          BY <3>4, <5>1, <5>2
      <4> QED
        BY <3>1, <4>1
    <3> QED
      BY <3>6, <3>7
  <2> QED
    BY <2>0, <2>2, <2>3
<1> QED
  BY <1>2, <1>3, <1>4

LEMMA BranchIsBit ==
    ASSUME NEW w \in Words, NEW s \in Segments, NEW mask \in [Segments -> 0 .. Bits - 1]
    PROVE  Branch(w, mask, s) \in {0, 1} /\ Branch(w, mask, s) = w[s][mask[s] + 1]
<1>1. mask[s] + 1 \in 1 .. Bits /\ w[s] \in [1 .. Bits -> {0, 1}]
  BY BitsAssumption DEF Words, Symbols
<1> QED
  BY <1>1 DEF Branch

LEMMA SplitKeepsTree ==
    ASSUME TreeInv, NEW s \in Segments, Split(s)
    PROVE  Types' /\ Shape' /\ Routes' /\ Sizes' /\ Masks'
<1> PICK p : p = LeafFor(added[pending])
  OBVIOUS
<1> PICK mask : mask = [InheritedMask(p) EXCEPT ![s] = @ + 1]
  OBVIOUS
<1>0. /\ Types /\ Shape /\ Routes /\ Sizes /\ Masks
      /\ added' = added /\ pending' = pending /\ exited' = exited
  BY DEF TreeInv, Split
<1>1. /\ p \in Leaves /\ p \in Nodes /\ p \in Paths
      /\ mask \in [Segments -> 0 .. Bits - 1]
      /\ mask[s] = InheritedMask(p)[s] + 1
      /\ \A z \in Segments : z # s => mask[z] = InheritedMask(p)[z]
      /\ \A x \in {0, 1} : Append(p, x) \notin Nodes
      /\ Nodes' = Nodes \cup {Append(p, 0), Append(p, 1)}
      /\ tree' \in [Nodes' -> NodeType]
      /\ tree'[p] = Inner(tree[p], mask, s)
      /\ \A x \in {0, 1} : ChildOf(tree'[Append(p, x)], p, mask, s, x)
      /\ \A q \in Nodes : q # p => tree'[q] = tree[q]
      /\ Leaves' = (Leaves \ {p}) \cup {Append(p, 0), Append(p, 1)}
  <2>1. SplitDone(p, s, mask)
    BY SplitFacts
  <2> QED
    BY <2>1 DEF SplitDone
<1>2. /\ \A q \in Nodes : InheritedMask(q)' = InheritedMask(q)
      /\ \A q \in Nodes : \A d \in 0 .. Len(q) - 1 :
             tree'[Pre(q, d)].split_mask = tree[Pre(q, d)].split_mask
      /\ \A q \in Nodes : \A w : OnRoute(q, w)' <=> OnRoute(q, w)
      /\ tree'[p].split_mask = mask /\ tree'[p].splitpoint = s
      /\ \A x \in {0, 1} : InheritedMask(Append(p, x))' = mask
      /\ \A x \in {0, 1} : \A w : OnRoute(Append(p, x), w)' <=>
                                      OnRoute(p, w) /\ Branch(w, mask, s) = x
  BY SplitRoutes
<1>3. ASSUME NEW x \in {0, 1}
      PROVE  LET c == Append(p, x) IN
             /\ c \in Paths /\ Len(c) = Len(p) + 1
             /\ c[Len(p) + 1] = x
             /\ \A h \in 1 .. Len(p) : c[h] = p[h]
             /\ \A d \in 0 .. Len(p) : Pre(c, d) = Pre(p, d)
             /\ Pre(c, Len(p)) = p
  BY <1>1, ChildFacts
<1>4. \A q \in Nodes' : q \in Nodes \/ \E x \in {0, 1} : q = Append(p, x)
  BY <1>1
<1>5. Leaves \subseteq Nodes
  BY DEF Leaves
<1>6. Len(p) \in Nat
  BY <1>1 DEF Paths
<1>7. Types'
  BY <1>0, <1>1 DEF Types
<1>8. Shape'
  <2>1. ASSUME NEW q \in Nodes' PROVE q \in Paths /\ \A d \in 0 .. Len(q) - 1 : Pre(q, d) \in Nodes' \ Leaves'
    <3>1. \A r \in Nodes \ Leaves : r \in Nodes' \ Leaves'
      BY <1>1
    <3>2. p \in Nodes' \ Leaves'
      BY <1>1
    <3>3. CASE q \in Nodes
      BY <1>0, <3>1, <3>3 DEF Shape
    <3>4. ASSUME NEW x \in {0, 1}, q = Append(p, x)
          PROVE  q \in Paths /\ \A d \in 0 .. Len(q) - 1 : Pre(q, d) \in Nodes' \ Leaves'
      <4>1. /\ q \in Paths /\ Len(q) = Len(p) + 1
            /\ \A d \in 0 .. Len(p) : Pre(q, d) = Pre(p, d)
            /\ Pre(q, Len(p)) = p
        BY <1>3, <3>4
      <4>2. ASSUME NEW d \in 0 .. Len(q) - 1 PROVE Pre(q, d) \in Nodes' \ Leaves'
        <5>1. CASE d = Len(p)
          BY <3>2, <4>1, <5>1
        <5>2. CASE d # Len(p)
          <6>1. d \in 0 .. Len(p) - 1 /\ d \in 0 .. Len(p)
            BY <1>6, <4>1, <5>2
          <6> QED
            BY <1>0, <1>1, <3>1, <4>1, <6>1 DEF Shape
        <5> QED
          BY <5>1, <5>2
      <4> QED
        BY <4>1, <4>2
    <3> QED
      BY <1>4, <3>3, <3>4
  <2>2. ASSUME NEW q \in Nodes' \ Leaves' PROVE Append(q, 0) \in Nodes' /\ Append(q, 1) \in Nodes'
    <3>1. q = p \/ q \in Nodes \ Leaves
      BY <1>1
    <3> QED
      BY <1>0, <1>1, <3>1 DEF Shape
  <2>3. Root \in Nodes'
    BY <1>0, <1>1 DEF Shape
  <2> QED
    BY <2>1, <2>2, <2>3 DEF Shape
<1>9. Routes'
  <2>1. ASSUME NEW q \in Leaves, q # p, NEW x \in {0, 1}
        PROVE  /\ \E d \in Nat : Part(q, Append(p, x), d)
               /\ \E d \in Nat : Part(Append(p, x), q, d)
    <3>1. PICK d \in Nat : Part(q, p, d)
      BY <1>0, <1>1, <2>1 DEF Routes
    <3>2. PICK c : c = Append(p, x)
      OBVIOUS
    <3>3. /\ Len(c) = Len(p) + 1 /\ \A h \in 1 .. Len(p) : c[h] = p[h]
          /\ \A e \in 0 .. Len(p) : Pre(c, e) = Pre(p, e)
      BY <1>3, <3>2
    <3>4. d \in 0 .. Len(p) /\ d + 1 \in 1 .. Len(p) /\ d < Len(p) + 1
      BY <1>6, <3>1 DEF Part
    <3>5. Part(q, c, d) /\ Part(c, q, d)
      BY <3>1, <3>3, <3>4 DEF Part
    <3> QED
      BY <3>2, <3>5
  <2>2. ASSUME NEW x \in {0, 1}, NEW y \in {0, 1}, x # y
        PROVE  Part(Append(p, x), Append(p, y), Len(p))
    <3>1. /\ Len(Append(p, x)) = Len(p) + 1 /\ Len(Append(p, y)) = Len(p) + 1
          /\ Append(p, x)[Len(p) + 1] = x /\ Append(p, y)[Len(p) + 1] = y
          /\ Pre(Append(p, x), Len(p)) = p /\ Pre(Append(p, y), Len(p)) = p
      BY <1>3
    <3> QED
      BY <1>6, <2>2, <3>1 DEF Part
  <2>3. ASSUME NEW q \in Leaves', NEW r \in Leaves', q # r PROVE \E d \in Nat : Part(q, r, d)
    <3>1. (q \in Leaves /\ q # p) \/ \E x \in {0, 1} : q = Append(p, x)
      BY <1>1
    <3>2. (r \in Leaves /\ r # p) \/ \E x \in {0, 1} : r = Append(p, x)
      BY <1>1
    <3>3. CASE q \in Leaves /\ q # p /\ r \in Leaves /\ r # p
      BY <1>0, <2>3, <3>3 DEF Routes
    <3>4. CASE q \in Leaves /\ q # p /\ \E x \in {0, 1} : r = Append(p, x)
      BY <2>1, <3>4
    <3>5. CASE r \in Leaves /\ r # p /\ \E x \in {0, 1} : q = Append(p, x)
      BY <2>1, <3>5
    <3>6. CASE (\E x \in {0, 1} : q = Append(p, x)) /\ \E y \in {0, 1} : r = Append(p, y)
      <4>1. PICK x \in {0, 1}, y \in {0, 1} : q = Append(p, x) /\ r = Append(p, y)
        BY <3>6
      <4>2. x # y
        BY <2>3, <4>1
      <4> QED
        BY <1>6, <2>2, <4>1, <4>2
    <3> QED
      BY <3>1, <3>2, <3>3, <3>4, <3>5, <3>6
  <2>4. ASSUME NEW sax \in Words PROVE \E q \in Leaves' : OnRoute(q, sax)'
    <3>1. PICK q \in Leaves : OnRoute(q, sax)
      BY <1>0 DEF Routes
    <3>2. CASE q # p
      <4>1. q \in Leaves' /\ OnRoute(q, sax)'
        BY <1>1, <1>2, <1>5, <3>1, <3>2
      <4> QED
        BY <4>1
    <3>3. CASE q = p
      <4>1. PICK x \in {0, 1} : x = Branch(sax, mask, s)
        BY <1>1, BranchIsBit
      <4>2. Append(p, x) \in Leaves' /\ OnRoute(Append(p, x), sax)'
        BY <1>1, <1>2, <3>1, <3>3, <4>1
      <4> QED
        BY <4>2
    <3> QED
      BY <3>2, <3>3
  <2> QED
    BY <2>3, <2>4 DEF Routes
<1>10. Sizes'
  <2>1. ASSUME NEW q \in Nodes'
        PROVE  /\ tree'[q].leaf_size = Len(tree'[q].buffer)
               /\ tree'[q].leaf_size <= MaxLeafSize
               /\ ~tree'[q].is_leaf => tree'[q].buffer = <<>> /\ tree'[q].splitpoint \in Segments
    <3>1. CASE q \in Nodes /\ q # p
      BY <1>0, <1>1, <3>1 DEF Sizes
    <3>2. CASE q = p
      <4>1. tree[p] \in NodeType /\ Len(<<>>) = 0
        BY <1>0, <1>1 DEF Types
      <4>2. tree'[p].leaf_size = 0 /\ tree'[p].buffer = <<>>
        BY <1>1, <4>1, SMTT(30) DEF Inner, NodeType, Destroyed
      <4> QED
        BY <1>2, <3>2, <4>1, <4>2, MaxLeafSizeAssumption
    <3>3. CASE \E x \in {0, 1} : q = Append(p, x)
      BY <1>1, <3>3 DEF ChildOf
    <3> QED
      BY <1>4, <3>1, <3>2, <3>3
  <2> QED
    BY <2>1 DEF Sizes
<1>11. Masks'
  <2>1. ASSUME NEW q \in Nodes', NEW d \in 0 .. Len(q) - 1, NEW z \in Segments
        PROVE  tree'[Pre(q, d)].split_mask[z] <= InheritedMask(q)'[z]
    <3>1. CASE q \in Nodes
      BY <1>0, <1>2, <3>1 DEF Masks
    <3>2. ASSUME NEW x \in {0, 1}, q = Append(p, x)
          PROVE  tree'[Pre(q, d)].split_mask[z] <= InheritedMask(q)'[z]
      <4>1. /\ Len(q) = Len(p) + 1 /\ Pre(q, Len(p)) = p
            /\ \A e \in 0 .. Len(p) : Pre(q, e) = Pre(p, e)
        BY <1>3, <3>2
      <4>2. InheritedMask(q)' = mask /\ mask[z] \in Int
        BY <1>1, <1>2, <3>2
      <4>3. CASE d = Len(p)
        <5>1. tree'[Pre(q, d)].split_mask = mask
          BY <1>2, <4>1, <4>3
        <5>2. tree'[Pre(q, d)].split_mask[z] = mask[z] /\ InheritedMask(q)'[z] = mask[z]
          BY <4>2, <5>1
        <5> QED
          BY <4>2, <5>2
      <4>4. CASE d # Len(p)
        <5>1. d \in 0 .. Len(p) - 1 /\ d \in 0 .. Len(p)
          BY <1>6, <4>1, <4>4
        <5>2. tree'[Pre(q, d)].split_mask[z] = tree[Pre(p, d)].split_mask[z]
          <6>1. Pre(q, d) = Pre(p, d)
            BY <4>1, <5>1
          <6>2. tree'[Pre(p, d)].split_mask = tree[Pre(p, d)].split_mask
            <7>1. p \in Nodes
              BY <1>1
            <7>2. \A q_1 \in Nodes : \A d_1 \in 0 .. Len(q_1) - 1 :
                      tree'[Pre(q_1, d_1)].split_mask = tree[Pre(q_1, d_1)].split_mask
              BY <1>2
            <7> QED
              BY <5>1, <7>1, <7>2
          <6> QED
            BY <6>1, <6>2
        <5>3. tree[Pre(p, d)].split_mask[z] <= InheritedMask(p)[z]
          BY <1>0, <1>1, <5>1 DEF Masks
        <5>4. Pre(p, d) \in Nodes
          BY <1>0, <1>1, <5>1 DEF Shape
        <5>5. tree[Pre(p, d)].split_mask[z] \in Int /\ InheritedMask(p)[z] \in Int
          <6>1. tree[Pre(p, d)].split_mask \in [Segments -> 0 .. Bits - 1]
            BY <1>0, <5>4 DEF Types, NodeType
          <6>2. InheritedMask(p) \in [Segments -> 0 .. Bits - 1]
            BY <1>0, <1>1, MaskType
          <6> QED
            BY <6>1, <6>2
        <5>6. InheritedMask(p)[z] <= mask[z]
          BY <1>1, <5>5
        <5> QED
          BY <4>2, <5>2, <5>3, <5>5, <5>6
      <4> QED
        BY <4>3, <4>4
    <3> QED
      BY <1>4, <3>1, <3>2
  <2>2. ASSUME NEW q \in Nodes', NEW v \in Words, NEW w \in Words,
               OnRoute(q, v)', OnRoute(q, w)', NEW z \in Segments,
               NEW b \in 1 .. InheritedMask(q)'[z] + 1
        PROVE  v[z][b] = w[z][b]
    <3>1. CASE q \in Nodes
      <4>1. OnRoute(q, v) /\ OnRoute(q, w) /\ b \in 1 .. InheritedMask(q)[z] + 1
        BY <1>2, <2>2, <3>1
      <4> QED
        BY <1>0, <3>1, <4>1 DEF Masks
    <3>2. ASSUME NEW x \in {0, 1}, q = Append(p, x) PROVE v[z][b] = w[z][b]
      <4>1. /\ OnRoute(p, v) /\ Branch(v, mask, s) = x
            /\ OnRoute(p, w) /\ Branch(w, mask, s) = x
            /\ b \in 1 .. mask[z] + 1
        BY <1>2, <2>2, <3>2
      <4>2. CASE b \in 1 .. InheritedMask(p)[z] + 1
        BY <1>0, <1>1, <4>1, <4>2 DEF Masks
      <4>3. CASE b \notin 1 .. InheritedMask(p)[z] + 1
        <5>1. InheritedMask(p) \in [Segments -> 0 .. Bits - 1]
          BY <1>0, <1>1, MaskType
        <5>2. z = s /\ b = mask[s] + 1
          BY <1>1, <4>1, <4>3, <5>1
        <5> QED
          <6>1. v[s][mask[s] + 1] = Branch(v, mask, s) /\ w[s][mask[s] + 1] = Branch(w, mask, s)
            BY DEF Branch
          <6> QED
            BY <4>1, <5>2, <6>1
      <4> QED
        BY <4>2, <4>3
    <3> QED
      BY <1>4, <3>1, <3>2
  <2> QED
    BY <2>1, <2>2 DEF Masks
<1> QED
  BY <1>7, <1>8, <1>9, <1>10, <1>11

LEMMA SplitKeepsRecords ==
    ASSUME TreeInv, NEW s \in Segments, Split(s)
    PROVE  Held' /\ Boxed'
<1> PICK p : p = LeafFor(added[pending])
  OBVIOUS
<1> PICK mask : mask = [InheritedMask(p) EXCEPT ![s] = @ + 1]
  OBVIOUS
<1>0. /\ Types /\ Shape /\ Sizes /\ Held /\ Boxed
      /\ added' = added /\ pending' = pending
  BY DEF TreeInv, Split
<1>1. /\ p \in Leaves /\ p \in Nodes
      /\ Full(tree[p])
      /\ mask \in [Segments -> 0 .. Bits - 1]
      /\ Nodes' = Nodes \cup {Append(p, 0), Append(p, 1)}
      /\ tree'[p] = Inner(tree[p], mask, s)
      /\ \A x \in {0, 1} : ChildOf(tree'[Append(p, x)], p, mask, s, x)
      /\ \A q \in Nodes : q # p => tree'[q] = tree[q]
      /\ Leaves' = (Leaves \ {p}) \cup {Append(p, 0), Append(p, 1)}
  <2>1. SplitDone(p, s, mask)
    BY SplitFacts
  <2> QED
    BY <2>1 DEF SplitDone
<1>2. /\ \A q \in Nodes : InheritedMask(q)' = InheritedMask(q)
      /\ \A q \in Nodes : \A w : OnRoute(q, w)' <=> OnRoute(q, w)
      /\ \A x \in {0, 1} : InheritedMask(Append(p, x))' = mask
      /\ \A x \in {0, 1} : \A w : OnRoute(Append(p, x), w)' <=>
                                      OnRoute(p, w) /\ Branch(w, mask, s) = x
  BY SplitRoutes
<1>3. Leaves \subseteq Nodes
  BY DEF Leaves
<1>4. \A q \in Nodes' : (q \in Nodes /\ q # p) \/ q = p \/ \E x \in {0, 1} : q = Append(p, x)
  BY <1>1
<1>5. \A n \in Elements(tree[p].buffer) : added[n] \in Words /\ OnRoute(p, added[n])
  BY <1>0, <1>1 DEF Held, Types
<1>6. ASSUME NEW x \in {0, 1}, NEW c, c = tree'[Append(p, x)]
      PROVE  /\ Distinct(c.buffer)
             /\ \A n \in Elements(c.buffer) :
                    /\ n \in Elements(tree[p].buffer)
                    /\ OnRoute(Append(p, x), added[n])'
             /\ \A n \in Elements(tree[p].buffer) :
                    Branch(added[n], mask, s) = x => n \in Elements(c.buffer)
             /\ c.is_leaf
             /\ c.box = NoBox <=> c.leaf_size = 0
             /\ c.box # NoBox =>
                    \E w \in Words : OnRoute(Append(p, x), w)' /\ c.box = Box(w, mask)
  <2>1. ChildOf(c, p, mask, s, x)
    BY <1>1, <1>6
  <2>2. /\ Distinct(c.buffer) /\ c.is_leaf /\ (c.box = NoBox <=> c.leaf_size = 0)
        /\ Elements(c.buffer) = {n \in Elements(tree[p].buffer) : Branch(added[n], mask, s) = x}
        /\ c.box # NoBox => \E n \in Elements(c.buffer) : c.box = Box(added[n], mask)
    BY <2>1 DEF ChildOf
  <2>3. \A n \in Elements(c.buffer) : OnRoute(Append(p, x), added[n])'
    BY <1>0, <1>2, <1>5, <2>2
  <2>4. ASSUME c.box # NoBox
        PROVE  \E w \in Words : OnRoute(Append(p, x), w)' /\ c.box = Box(w, mask)
    <3>1. PICK n \in Elements(c.buffer) : c.box = Box(added[n], mask)
      BY <2>2, <2>4
    <3>2. added[n] \in Words /\ OnRoute(p, added[n]) /\ Branch(added[n], mask, s) = x
      BY <1>5, <2>2
    <3> QED
      BY <1>2, <3>1, <3>2
  <2> QED
    BY <1>0, <2>2, <2>3, <2>4
<1>7. Held'
  <2>1. ASSUME NEW q \in Leaves'
        PROVE  /\ Distinct(tree'[q].buffer)
               /\ \A n \in Elements(tree'[q].buffer) :
                      /\ n \in (1 .. Len(added')) \ {pending'}
                      /\ OnRoute(q, added[n])'
    <3>1. CASE q \in Leaves /\ q # p
      <4>1. tree'[q] = tree[q] /\ \A w : OnRoute(q, w)' <=> OnRoute(q, w)
        BY <1>1, <1>2, <1>3, <3>1
      <4> QED
        BY <1>0, <3>1, <4>1 DEF Held
    <3>2. ASSUME NEW x \in {0, 1}, q = Append(p, x)
          PROVE  /\ Distinct(tree'[q].buffer)
                 /\ \A n \in Elements(tree'[q].buffer) :
                        /\ n \in (1 .. Len(added')) \ {pending'}
                        /\ OnRoute(q, added[n])'
      <4>1. /\ Distinct(tree'[q].buffer)
            /\ \A n \in Elements(tree'[q].buffer) :
                   n \in Elements(tree[p].buffer) /\ OnRoute(q, added[n])'
        BY <1>6, <3>2
      <4>2. \A n \in Elements(tree[p].buffer) : n \in (1 .. Len(added')) \ {pending'}
        BY <1>0, <1>1 DEF Held
      <4> QED
        BY <4>1, <4>2
    <3>3. (q \in Leaves /\ q # p) \/ \E x \in {0, 1} : q = Append(p, x)
      BY <1>1
    <3> QED
      BY <3>1, <3>2, <3>3
  <2>2. ASSUME NEW n \in (1 .. Len(added')) \ {pending'}
        PROVE  \E q \in Leaves' : n \in Elements(tree'[q].buffer)
    <3>1. PICK q \in Leaves : n \in Elements(tree[q].buffer)
      BY <1>0 DEF Held
    <3>2. CASE q # p
      <4>1. q \in Leaves' /\ n \in Elements(tree'[q].buffer)
        BY <1>1, <1>3, <3>1, <3>2
      <4> QED
        BY <4>1
    <3>3. CASE q = p
      <4>1. PICK x \in {0, 1} : x = Branch(added[n], mask, s)
        BY <1>1, <1>5, <3>1, <3>3, BranchIsBit
      <4>2. n \in Elements(tree'[Append(p, x)].buffer)
        BY <1>6, <3>1, <3>3, <4>1
      <4>3. Append(p, x) \in Leaves'
        BY <1>1
      <4> QED
        BY <4>2, <4>3
    <3> QED
      BY <3>2, <3>3
  <2> QED
    BY <2>1, <2>2 DEF Held
<1>8. Boxed'
  <2>1. ASSUME NEW q \in Nodes'
        PROVE  /\ tree'[q].box = NoBox <=> tree'[q].is_leaf /\ tree'[q].leaf_size = 0
               /\ tree'[q].box # NoBox =>
                      \E w \in Words : OnRoute(q, w)' /\ tree'[q].box = Box(w, InheritedMask(q)')
    <3>1. ASSUME q \in Nodes, NEW box, box = tree[q].box, box # NoBox
          PROVE  \E w \in Words : OnRoute(q, w)' /\ box = Box(w, InheritedMask(q)')
      <4>1. PICK w \in Words : OnRoute(q, w) /\ box = Box(w, InheritedMask(q))
        BY <1>0, <3>1 DEF Boxed
      <4>2. OnRoute(q, w)' /\ box = Box(w, InheritedMask(q)')
        BY <1>2, <3>1, <4>1
      <4> QED
        BY <4>2
    <3>2. CASE q \in Nodes /\ q # p
      <4>1. tree'[q] = tree[q]
        BY <1>1, <3>2
      <4>2. tree[q].box = NoBox <=> tree[q].is_leaf /\ tree[q].leaf_size = 0
        BY <1>0, <3>2 DEF Boxed
      <4> QED
        BY <3>1, <3>2, <4>1, <4>2
    <3>3. CASE q = p
      <4>1. tree[p] \in NodeType /\ tree[p].leaf_size \in Nat
        BY <1>0, <1>1 DEF Types, NodeType
      <4>2. tree'[p].box = tree[p].box /\ ~tree'[p].is_leaf
        BY <1>1, <4>1 DEF Inner, NodeType
      <4>3. tree[p].box # NoBox
        <5>1. tree[p].leaf_size # 0
          BY <1>1, <4>1, MaxLeafSizeAssumption DEF Full
        <5> QED
          BY <1>0, <1>1, <5>1 DEF Boxed
      <4> QED
        BY <1>1, <3>1, <3>3, <4>2, <4>3
    <3>4. ASSUME NEW x \in {0, 1}, q = Append(p, x)
          PROVE  /\ tree'[q].box = NoBox <=> tree'[q].is_leaf /\ tree'[q].leaf_size = 0
                 /\ tree'[q].box # NoBox =>
                        \E w \in Words : OnRoute(q, w)' /\ tree'[q].box = Box(w, InheritedMask(q)')
      <4>1. InheritedMask(q)' = mask
        BY <1>2, <3>4
      <4>2. /\ tree'[q].is_leaf /\ (tree'[q].box = NoBox <=> tree'[q].leaf_size = 0)
            /\ tree'[q].box # NoBox =>
                   \E w \in Words : OnRoute(q, w)' /\ tree'[q].box = Box(w, mask)
        BY <1>6, <3>4
      <4> QED
        BY <4>1, <4>2
    <3> QED
      BY <1>4, <3>2, <3>3, <3>4
  <2> QED
    BY <2>1 DEF Boxed
<1> QED
  BY <1>7, <1>8

-----------------------------------------------------------------------------
(* The theorems.                                                           *)

LEMMA TreeNext == TreeInv /\ [Next]_vars => TreeInv'
<1> SUFFICES ASSUME TreeInv, [Next]_vars PROVE TreeInv'
  OBVIOUS
<1>1. ASSUME NEW sax \in Words, Add(sax) PROVE TreeInv'
  BY <1>1, AddKeeps
<1>2. ASSUME NEW s \in Segments, Split(s) PROVE TreeInv'
  <2>1. Types' /\ Shape' /\ Routes' /\ Sizes' /\ Masks'
    BY <1>2, SplitKeepsTree
  <2>2. Held' /\ Boxed'
    BY <1>2, SplitKeepsRecords
  <2>3. ExitOnlyOnEqualWords'
    BY <1>2 DEF Split, ExitOnlyOnEqualWords
  <2> QED
    BY <2>1, <2>2, <2>3 DEF TreeInv
<1>3. CASE Exit
  BY <1>3, ExitKeeps
<1>4. CASE Store
  BY <1>4, StoreKeeps
<1>5. CASE UNCHANGED vars
  <2>1. added' = added /\ tree' = tree /\ pending' = pending /\ exited' = exited
    BY <1>5 DEF vars
  <2>2. Nodes' = Nodes /\ Leaves' = Leaves
    BY <2>1 DEF Nodes, Leaves
  <2>3. (\A q, w : OnRoute(q, w)' <=> OnRoute(q, w)) /\ \A q : InheritedMask(q)' = InheritedMask(q)
    BY <2>1 DEF OnRoute, InheritedMask
  <2>4. Types' /\ Shape' /\ Routes' /\ Sizes'
    BY <2>1, <2>2, <2>3 DEF TreeInv, Types, Shape, Routes, Sizes
  <2>5. Masks' /\ Held' /\ Boxed'
    BY <2>1, <2>2, <2>3 DEF TreeInv, Masks, Held, Boxed
  <2>6. ExitOnlyOnEqualWords'
    BY <2>1 DEF TreeInv, ExitOnlyOnEqualWords
  <2> QED
    BY <2>4, <2>5, <2>6 DEF TreeInv
<1> QED
  BY <1>1, <1>2, <1>3, <1>4, <1>5 DEF Next, Stop

LEMMA TreeAlways == Spec => []TreeInv
  BY TreeInit, TreeNext, PTL DEF Spec

\* Every subtree is closed under parents and siblings, its inner nodes have given
\* up their buffers, and no leaf has more records than the split buffer of
\* split_node has places for.
THEOREM TypeCorrect == Spec => []TypeOK
<1>1. TreeInv => TypeOK
  BY InvTypeOK
<1> QED
  BY <1>1, TreeAlways, PTL

\* However often split_node moves them, every record that add_record_to_node was
\* given is in exactly one leaf, exactly once.
THEOREM RecordsKept == Spec => []NothingLost
<1>1. TreeInv => NothingLost
  BY InvNothingLost
<1> QED
  BY <1>1, TreeAlways, PTL

\* A descent by the bits of a record ends in the leaf that has it, the box that
\* the first record gave a node covers all records below, and no word is in the
\* boxes of two leaves: neither the descent of add_record_to_node nor the pruning
\* of traverse_subtree misses a record.
THEOREM NeverMissed == Spec => []SearchReaches
<1>1. TreeInv => SearchReaches
  BY InvSearch
<1> QED
  BY <1>1, TreeAlways, PTL

\* split_node gives up with exit(-1) only where more than max_leaf_size records
\* have one and the same encoding.
THEOREM ExitJustified == Spec => []ExitOnlyOnEqualWords
<1>1. TreeInv => ExitOnlyOnEqualWords
  BY DEF TreeInv
<1> QED
  BY <1>1, TreeAlways, PTL
=============================================================================
