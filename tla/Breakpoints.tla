---------------------------- MODULE Breakpoints ----------------------------
(***************************************************************************)
(* breakpoints_selection of DETLSH.cpp with its two kinds of workers:      *)
(* sampling_worker copies sample_size projections of the data to           *)
(* sampled_data, and after these threads are joined                        *)
(* breakpoints_selection_worker picks the lines of its dimensions with     *)
(* nth_element, halving the intervals round by round.                      *)
(*                                                                         *)
(* A step of a worker is one record in the first part, one nth_element     *)
(* with the line it gives or one finished dimension in the second. The     *)
(* workers of a part are started together: none looks at another.          *)
(***************************************************************************)
EXTENDS Bins, FiniteSets, FiniteSetsExt

CONSTANTS NumThread,           \* num_thread
          SampleSize,          \* sample_size
          DataPointNum,        \* data_point_num
          SampleTypes,         \* the values of sample_type
          DataSets             \* what lsh_mem_array_for_init may hold

ASSUME NumThreadAssumption == NumThread \in Nat \ {0}
ASSUME SampleAssumption == /\ SampleSize \in Nat /\ DataPointNum \in Nat
                           /\ SampleSize >= AlphabetCardinality

Workers == 0 .. NumThread - 1
Places == 0 .. SampleSize - 1
FirstN == 1
Uniform == 2
Random == 3

ASSUME DataSetsAssumption == DataSets \subseteq [Dims -> [0 .. DataPointNum - 1 -> Int]]

VARIABLES
    sample_type,
    data,                \* lsh_mem_array_for_init
    main,                \* "sample", "select" or "done"
    sampled_data,
    i,                   \* the record each sampling worker is at
    dim, round, j,       \* the dimension, round and line of each selection worker
    interval_lines,      \* its lines so far, zero after calloc
    bins_lower_bound, bins_upper_bound

sampling == <<i>>
selecting == <<dim, round, j, interval_lines, bins, bins_lower_bound,
               bins_upper_bound>>
selectionVars == <<sample_type, data, main, sampled_data, sampling, selecting>>

\* FLT_MAX in every line of breakpoints_init; no projection reaches it.
FltMax == 1000
NoLines == [l \in Lines |-> 0]

SelectionInit == /\ sample_type \in SampleTypes
        /\ data \in DataSets
        /\ main = "sample"
        /\ sampled_data = [d \in Dims |-> [p \in Places |-> 0]]
        /\ i = [w \in Workers |-> 0]
        /\ dim = [w \in Workers |-> 0]
        /\ round = [w \in Workers |-> 1]
        /\ j = [w \in Workers |-> 1]
        /\ interval_lines = [w \in Workers |-> NoLines]
        /\ bins = [d \in Dims |-> [l \in Lines |-> FltMax]]
        /\ bins_lower_bound = [d \in Dims |-> 0]
        /\ bins_upper_bound = [d \in Dims |-> 0]

-----------------------------------------------------------------------------
(* Sampling.                                                               *)

\* How many records worker w samples, and where it puts the first.
Records(w) == IF w = NumThread - 1
              THEN SampleSize - (NumThread - 1) * (SampleSize \div NumThread)
              ELSE SampleSize \div NumThread
Offset(w) == w * (SampleSize \div NumThread)

\* start_number
StartNumber(type, w) == IF type = FirstN THEN Offset(w)
                        ELSE IF type = Uniform THEN w * (DataPointNum \div NumThread)
                        ELSE 0

\* The records a worker may take for its place n: random_at_most(records)
\* includes its bound.
Candidates(type, w, n) == IF type = Random
                          THEN StartNumber(type, w) .. StartNumber(type, w) + Records(w)
                          ELSE {StartNumber(type, w) + n}

\* The sample is taken from the data: nothing in the code sees to that, whoever
\* chooses sample_size and num_thread has to.
ASSUME RecordsAssumption ==
    \A type \in SampleTypes : \A w \in Workers : \A n \in 0 .. Records(w) - 1 :
        Candidates(type, w, n) \subseteq 0 .. DataPointNum - 1

\* One record; random sampling draws anew for every dimension.
Sample(w) ==
    /\ main = "sample"
    /\ i[w] < Records(w)
    /\ \E drawn \in [Dims -> Candidates(sample_type, w, i[w])] :
           sampled_data' = [d \in Dims |->
               [sampled_data[d] EXCEPT ![Offset(w) + i[w]] = data[d][drawn[d]]]]
    /\ i' = [i EXCEPT ![w] = @ + 1]
    /\ UNCHANGED <<sample_type, data, main, selecting>>

\* The slice of the dimensions of worker w; the last also takes the rest.
StartDim(w) == w * (LSHDimensionality \div NumThread)
StopDim(w) == IF w = NumThread - 1 THEN LSHDimensionality
              ELSE (w + 1) * (LSHDimensionality \div NumThread)

\* pthread_join of all sampling workers, then the selection workers start.
JoinSampling ==
    /\ main = "sample"
    /\ \A w \in Workers : i[w] >= Records(w)
    /\ main' = "select"
    /\ dim' = [w \in Workers |-> StartDim(w)]
    /\ UNCHANGED <<sample_type, data, sampled_data, sampling, round, j,
                   interval_lines, bins, bins_lower_bound, bins_upper_bound>>

-----------------------------------------------------------------------------
(* Selection.                                                              *)

\* The arrays with the same elements as s in first .. last - 1 and unchanged
\* elsewhere.
Rearranged(s, first, last) ==
    LET range == first .. last - 1
        elements == {s[p] : p \in range}
        count(f, v) == Cardinality({p \in range : f[p] = v})
    IN  {[p \in Places |-> IF p \in range THEN f[p] ELSE s[p]] :
            f \in {g \in [range -> elements] :
                      \A v \in elements : count(g, v) = count(s, v)}}

\* std::nth_element of the C++ library. The call is only defined for nth in
\* first .. last. With an nth before first, libstdc++ goes on in the lower part
\* of every partition and sorts the last three elements: a short range comes
\* out sorted, a longer one in some order with the least element in front.
NthElement(s, first, nth, last) ==
    IF nth = last THEN {s}
    ELSE IF nth >= first
    THEN {e \in Rearranged(s, first, last) :
             /\ \A p \in first .. nth - 1 : e[p] <= e[nth]
             /\ \A p \in nth + 1 .. last - 1 : e[nth] <= e[p]}
    ELSE IF last - first <= 3
    THEN {e \in Rearranged(s, first, last) :
             \A p \in first .. last - 2 : e[p] <= e[p + 1]}
    ELSE {e \in Rearranged(s, first, last) :
             \A p \in first .. last - 1 : e[first] <= e[p]}

Interval(rd) == SampleSize \div Power[rd]
Location(w) == 2 * j[w] - 1
LinesToInsert(rd) == Power[rd - 1]

\* The fault of numbering the lines from 1.
LineOneOff(w) == Location(w) * (AlphabetCardinality \div Power[round[w]])

\* location*index_interval-1
Line(w) == Location(w) * (AlphabetCardinality \div Power[round[w]]) - 1

\* One turn of the loop over j. The position passed to nth_element is interval
\* in every turn, the line is read interval after start.
SelectLine(w) ==
    LET interval == Interval(round[w])
        start == (Location(w) - 1) * interval
        end == IF j[w] = LinesToInsert(round[w]) THEN SampleSize - 1
               ELSE (Location(w) + 1) * interval - 1
    IN
    /\ main = "select"
    /\ dim[w] < StopDim(w)
    /\ round[w] <= Bits
    /\ \E s \in NthElement(sampled_data[dim[w]], start, interval, end) :
           /\ sampled_data' = [sampled_data EXCEPT ![dim[w]] = s]
           /\ interval_lines' = [interval_lines EXCEPT ![w][Line(w)] = s[start + interval]]
    /\ IF j[w] = LinesToInsert(round[w])
       THEN j' = [j EXCEPT ![w] = 1] /\ round' = [round EXCEPT ![w] = @ + 1]
       ELSE j' = [j EXCEPT ![w] = @ + 1] /\ UNCHANGED round
    /\ UNCHANGED <<sample_type, data, main, sampling, dim, bins,
                   bins_lower_bound, bins_upper_bound>>

\* All rounds are done: the lines become the bins of the dimension, and the
\* least and greatest of the outer intervals its bounds, the last place left out.
FinishDimension(w) ==
    LET s == sampled_data[dim[w]]
        interval == Interval(Bits)
        last == SampleSize - 1
    IN
    /\ main = "select"
    /\ dim[w] < StopDim(w)
    /\ round[w] > Bits
    /\ bins' = [bins EXCEPT ![dim[w]] = interval_lines[w]]
    /\ bins_lower_bound' = [bins_lower_bound EXCEPT
           ![dim[w]] = Min({s[p] : p \in 0 .. interval - 1})]
    /\ bins_upper_bound' = [bins_upper_bound EXCEPT
           ![dim[w]] = Max({s[p] : p \in last - interval .. last - 1})]
    /\ dim' = [dim EXCEPT ![w] = @ + 1]
    /\ round' = [round EXCEPT ![w] = 1]
    /\ j' = [j EXCEPT ![w] = 1]
    /\ interval_lines' = [interval_lines EXCEPT ![w] = NoLines]
    /\ UNCHANGED <<sample_type, data, main, sampled_data, sampling>>

\* pthread_join of all selection workers.
JoinSelection == /\ main = "select"
                 /\ \A w \in Workers : dim[w] >= StopDim(w)
                 /\ main' = "done"
                 /\ UNCHANGED <<sample_type, data, sampled_data, sampling, selecting>>

Worker(w) == Sample(w) \/ SelectLine(w) \/ FinishDimension(w)

Done == main = "done" /\ UNCHANGED selectionVars

SelectionNext == (\E w \in Workers : Worker(w)) \/ JoinSampling \/ JoinSelection \/ Done

\* The scheduler runs every thread that can run.
Fairness == /\ \A w \in Workers : WF_selectionVars(Worker(w))
            /\ WF_selectionVars(JoinSampling \/ JoinSelection)

SelectionSpec == SelectionInit /\ [][SelectionNext]_selectionVars /\ Fairness

-----------------------------------------------------------------------------
(* Properties.                                                             *)

\* From the first join on, sampled_data holds sample_size projections of the
\* data, those of the records that first-n and uniform sampling name: the
\* workers' places leave no gap and do not overlap, and whatever the calls of
\* nth_element do to the order, they lose no value.
SampleWhole ==
    main # "sample" => \A d \in Dims :
        LET values == {data[d][n] : n \in 0 .. DataPointNum - 1}
            named(v) == {x \in Workers \X Places :
                            x[2] < Records(x[1]) /\ data[d][StartNumber(sample_type, x[1]) + x[2]] = v}
            held(v) == {p \in Places : sampled_data[d][p] = v}
        IN  /\ \A p \in Places : sampled_data[d][p] \in values
            /\ sample_type # Random => \A v \in values :
                   Cardinality(held(v)) = Cardinality(named(v))

\* The rounds set every line of every dimension, none is left as calloc or
\* breakpoints_init made it, however the dimensions fall to the workers.
LinesFromSample ==
    main = "done" => \A d \in Dims : \A l \in Lines :
        bins[d][l] \in {sampled_data[d][p] : p \in Places}

\* Breakpoint selection leaves no gap between the threads, neither when it
\* samples nor when it selects.
SelectionWhole == SampleWhole /\ LinesFromSample

\* encoding_support.c looks a value up among the breakpoints by "binarysearch",
\* which asks for breakpoints in ascending order.
BreakpointsInOrder ==
    main = "done" => \A d \in Dims : \A l \in Lines \ {0} : bins[d][l - 1] <= bins[d][l]
=============================================================================
