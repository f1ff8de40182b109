------------------------------ MODULE Encoding ------------------------------
(***************************************************************************)
(* encoding_support.c: how the LSH projection of a point becomes a word of *)
(* symbols (encoding, a binary search in the breakpoints of each           *)
(* dimension), and how far query_to_node_dist takes a query to be from the *)
(* region that the first bits of a symbol stand for.                       *)
(*                                                                         *)
(* The breakpoints are whatever Breakpoints leaves: nothing orders them.   *)
(* A step is one iteration of the search or one symbol.                    *)
(***************************************************************************)
EXTENDS Bins

CONSTANTS Tables,   \* what bins may hold
          Values    \* the values of projections and queries

ASSUME TablesAssumption == Tables \subseteq [Dims -> [Lines -> Int]]
ASSUME ValuesAssumption == Values \subseteq Int

VARIABLES
    lsh,            \* the projection that is encoded
    k,              \* the dimension encoding is at
    left, right,    \* the search interval
    sax_out         \* the symbols, 0 where there is none yet

encodingVars == <<bins, lsh, k, left, right, sax_out>>

LastLine == AlphabetCardinality - 2

EncodingInit ==
    /\ bins \in Tables
    /\ lsh \in [Dims -> Values]
    /\ k = 0
    /\ left = 0
    /\ right = LastLine
    /\ sax_out = [d \in Dims |-> 0]

Middle == (left + right) \div 2

\* The fault of sending a value that is on a breakpoint to the left.
GoesRightStrictly(v, line) == v > line

\* The comparison that sends the search to the right.
GoesRight(v, line) == v >= line

\* One iteration of the binary search.
Probe == /\ k < LSHDimensionality
         /\ left <= right
         /\ \/ /\ GoesRight(lsh[k], bins[k][Middle])
               /\ left' = Middle + 1
               /\ UNCHANGED right
            \/ /\ ~GoesRight(lsh[k], bins[k][Middle])
               /\ right' = Middle - 1
               /\ UNCHANGED left
         /\ UNCHANGED <<bins, lsh, k, sax_out>>

\* The cast of left to sax_type.
Char(n) == n % 256

\* The interval is empty: left is the symbol, and the next dimension is due.
Emit == /\ k < LSHDimensionality
        /\ left > right
        /\ sax_out' = [sax_out EXCEPT ![k] = Char(left)]
        /\ k' = k + 1
        /\ left' = 0
        /\ right' = LastLine
        /\ UNCHANGED <<bins, lsh>>

\* encoding has returned.
EncodingDone == k >= LSHDimensionality /\ UNCHANGED encodingVars

EncodingNext == Probe \/ Emit \/ EncodingDone

EncodingSpec == EncodingInit /\ [][EncodingNext]_encodingVars /\ WF_encodingVars(EncodingNext)

-----------------------------------------------------------------------------
(* query_to_node_dist, for one dimension d of a node that holds the c most *)
(* significant bits v of a symbol. Below the first breakpoint and above    *)
(* the last one the region ends at bins_lower_bound and bins_upper_bound,  *)
(* the least value in the first slice of a sample and the greatest in its  *)
(* last slice. They may be any values: nothing orders the slices.          *)

CONSTANTS BinsLowerBound, BinsUpperBound    \* of each dimension

ASSUME BoundsAssumption == /\ BinsLowerBound \in [Dims -> Int]
                           /\ BinsUpperBound \in [Dims -> Int]

\* The fault of not filling the bits below the prefix with ones.
RegionUpperUnfilled(v, c) == v * Power[Bits - c]

RegionLower(v, c) == v * Power[Bits - c]
RegionUpper(v, c) == v * Power[Bits - c] + Power[Bits - c] - 1

BreakpointLower(d, v, c) ==
    IF RegionLower(v, c) = 0 THEN BinsLowerBound[d] ELSE bins[d][RegionLower(v, c) - 1]
BreakpointUpper(d, v, c) ==
    IF RegionUpper(v, c) = AlphabetCardinality - 1 THEN BinsUpperBound[d]
                                                      ELSE bins[d][RegionUpper(v, c)]

Square(x) == x * x

\* What dimension d adds to lower_distance for the value q of a query.
LowerDistance(d, q, v, c) ==
    LET lower == BreakpointLower(d, v, c)
        upper == BreakpointUpper(d, v, c)
    IN  IF lower > q THEN Square(lower - q)
        ELSE IF upper < q THEN Square(q - upper)
        ELSE 0

-----------------------------------------------------------------------------
(* Properties.                                                             *)

\* s is a symbol for v: its breakpoint is not above v, the next one is.
Brackets(d, s, v) == /\ s \in 0 .. AlphabetCardinality - 1
                     /\ s > 0 => bins[d][s - 1] <= v
                     /\ s <= LastLine => v < bins[d][s]

\* The symbol of every encoded dimension lies between the two breakpoints
\* around it, also when the breakpoints are out of order and the search has
\* looked at a few of them only; the cast to a byte does not change it.
SymbolBrackets == \A d \in Dims : d < k => Brackets(d, sax_out[d], lsh[d])

Larger(x, y) == IF x < y THEN y ELSE x

\* How far v lies beyond the bounds of dimension d, which are those of a sample.
Beyond(d, v) == Larger(0, Larger(BinsLowerBound[d] - v, v - BinsUpperBound[d]))

Apart(v, q) == IF v < q THEN q - v ELSE v - q

\* The search halves the lines in the way the bits of a symbol do, so at every
\* cardinality the region of the first bits holds the value although nothing
\* orders the breakpoints. A point within the bounds of the sample is never
\* nearer to a query than its node is taken to be, and pruning by lower_distance
\* is safe for it. The regions at the two ends stop at these bounds, and the
\* input may have points beyond them: the node of such a point may be taken to
\* be farther than the point is, by what it lies beyond the bounds and no more.
NeverTooFar ==
    \A d \in Dims : d < k =>
        \A c \in 1 .. Bits, q \in Values :
            LowerDistance(d, q, sax_out[d] \div Power[Bits - c], c)
                <= Square(Apart(lsh[d], q) + Beyond(d, lsh[d]))
=============================================================================
