--------------------------- MODULE QueryPipeline ---------------------------
(***************************************************************************)
(* main of DETLSH.cpp from the command line to the recall it prints: the   *)
(* options, the threads, the data file, the trees, the query file, the     *)
(* range queries of all trees, and for each query the candidates and the   *)
(* k nearest of them, compared with the ground truth at the end.           *)
(*                                                                         *)
(* The build, the range search and the candidate step are one action each  *)
(* here, with any result that IndexCreation, EncodingTree, RangeSearch,    *)
(* SequentialCandidates and ParallelCandidates show them to have.          *)
(***************************************************************************)
EXTENDS Integers, Sequences, FiniteSets, FiniteSetsExt, Startup, Kernels

CONSTANTS
    Defaults,         \* the options' initial values
    OptionValues,     \* for each option, the values a command line may give it
    MaxOptions,       \* bound: options on a command line
    HeldOut,          \* 100, the records at the end of the data file not used
    DataFile,         \* the floats of the data file
    QueryFile,        \* the floats of the query file
    GroundTruthK,     \* neighbours the ground truth file lists for each query
    Leaves,           \* names of leaves
    LeafOf(_, _),     \* the leaf of a tree that holds a point
    Distances         \* the lower distances a leaf within the radius may have

ASSUME MaxOptionsAssumption == MaxOptions \in Nat
ASSUME HeldOutAssumption == HeldOut \in Nat
ASSUME GroundTruthKAssumption == GroundTruthK \in Nat \ {0}

\* The variables of main. What atoi makes of a number of threads, queries or
\* points may be any number; a number of trees, neighbours, candidates or
\* dimensions that is negative is left out, and so is an index of no trees.
CommandLine ==
    [cpu_type : Int, queries_size : Int, dataset_size : Int, l_size : Nat \ {0},
     k_size : Nat, max_candidate_size : Nat, data_dimensionality : Nat, LSH_dimensionality : Nat]
ASSUME DefaultsAssumption == Defaults \in CommandLine
ASSUME OptionsAssumption ==
    /\ DOMAIN OptionValues = DOMAIN Defaults
    /\ \A o \in DOMAIN OptionValues : \A v \in OptionValues[o] :
           [Defaults EXCEPT ![o] = v] \in CommandLine
ASSUME FilesAssumption == DataFile \in Seq(Int) /\ QueryFile \in Seq(Int)

VARIABLES
    pc,
    option,                 \* the variables of main the options set
    parsed,
    num_thread,
    mask,                   \* the CPUs in the affinity mask
    settings_dimensionality,\* LSH_dimensionality of the settings
    dataset_size,           \* points in rawfile
    num_l,                  \* the tree the loop at hand is at
    range_queue_result,     \* per tree and query the found leaves, with their
                            \* lower distance
    q_loaded,
    candidates,             \* the points in nodes[q_loaded], data_loaded of them
    nodes,                  \* per query the points, once they are ranked
    groundtruth_result,     \* per query the neighbours read from the file
    retrived_data_num

parameters == <<num_thread, mask, settings_dimensionality>>
vars == <<pc, option, parsed, parameters, dataset_size, num_l, range_queue_result,
          q_loaded, candidates, nodes, groundtruth_result, retrived_data_num>>

data_dimensionality == option.data_dimensionality
k_size == option.k_size
Trees == 0 .. option.l_size - 1
Queries == 0 .. option.queries_size - 1
Points == 0 .. dataset_size - 1

\* What stands for a number nobody has written: no point has it.
Uninit == -1

Init == /\ pc = "options"
        /\ option = Defaults
        /\ parsed = 0
        /\ num_thread = 1
        /\ mask = {}
        /\ settings_dimensionality = 0
        /\ dataset_size = 0
        /\ num_l = 0
        /\ range_queue_result = <<>>
        /\ q_loaded = 0
        /\ candidates = {}
        /\ nodes = <<>>
        /\ groundtruth_result = <<>>
        /\ retrived_data_num = 0

-----------------------------------------------------------------------------
(* Start-up.                                                               *)

\* One option of the command line; of two of the same name the later counts.
Option(o, v) ==
    /\ pc = "options"
    /\ parsed < MaxOptions
    /\ parsed' = parsed + 1
    /\ option' = [option EXCEPT ![o] = v]
    /\ UNCHANGED <<pc, parameters, dataset_size, num_l, range_queue_result,
                   q_loaded, candidates, nodes, groundtruth_result, retrived_data_num>>

\* An option main does not know, or --help, whose usage text is behind the
\* break of the case before: exit(-1).
UnknownOption ==
    /\ pc = "options"
    /\ parsed < MaxOptions
    /\ pc' = "exit"
    /\ parsed' = parsed + 1
    /\ UNCHANGED <<option, parameters, dataset_size, num_l, range_queue_result,
                   q_loaded, candidates, nodes, groundtruth_result, retrived_data_num>>

\* No options are left: the threads and their CPUs.
SetThreads ==
    /\ pc = "options"
    /\ IF Refused(option.cpu_type)
       THEN pc' = "exit" /\ UNCHANGED parameters
       ELSE /\ num_thread' = NumThread(option.cpu_type)
            /\ mask' = Mask(option.cpu_type)
            /\ pc' = "settings"
            /\ UNCHANGED settings_dimensionality
    /\ UNCHANGED <<option, parsed, dataset_size, num_l, range_queue_result,
                   q_loaded, candidates, nodes, groundtruth_result, retrived_data_num>>

\* isax_index_settings_init, shared by all trees. Without settings
\* isax_index_init_inmemory follows a null pointer.
InitSettings ==
    /\ pc = "settings"
    /\ IF SettingsRefused(option.LSH_dimensionality)
       THEN pc' = "trap" /\ UNCHANGED settings_dimensionality
       ELSE /\ pc' = "load"
            /\ settings_dimensionality' =
                   SettingsDimensionality(option.LSH_dimensionality, data_dimensionality)
    /\ UNCHANGED <<option, parsed, num_thread, mask, dataset_size, num_l, range_queue_result,
                   q_loaded, candidates, nodes, groundtruth_result, retrived_data_num>>

-----------------------------------------------------------------------------
(* Data and trees.                                                         *)

\* The fault of comparing signed numbers.
FewerSigned(total_records, n) == total_records < n

\* total_records < n, where total_records is unsigned long long: n becomes
\* unsigned too, and a negative one larger than any file.
Fewer(total_records, n) == n < 0 \/ total_records < n

\* load_data; main has taken the records of the queries off dataset_size. The
\* bytes of the file are divided by the dimensionality.
LoadData ==
    LET n == option.dataset_size - HeldOut IN
    /\ pc = "load"
    /\ IF data_dimensionality = 0
       THEN pc' = "trap" /\ UNCHANGED dataset_size
       ELSE IF Fewer(Len(DataFile) \div data_dimensionality, n)
       THEN pc' = "exit" /\ UNCHANGED dataset_size
       ELSE pc' = "index" /\ dataset_size' = n
    /\ UNCHANGED <<option, parsed, parameters, num_l, range_queue_result, q_loaded,
                   candidates, nodes, groundtruth_result, retrived_data_num>>

\* Breakpoints, encoding and construction of one tree after the other.
\* breakpoints_selection divides by num_thread.
BuildTree ==
    /\ pc = "index"
    /\ IF num_thread = 0
       THEN pc' = "trap" /\ UNCHANGED num_l
       ELSE IF num_l + 1 < option.l_size
       THEN num_l' = num_l + 1 /\ UNCHANGED pc
       ELSE num_l' = 0 /\ pc' = "queries"
    /\ UNCHANGED <<option, parsed, parameters, dataset_size, range_queue_result,
                   q_loaded, candidates, nodes, groundtruth_result, retrived_data_num>>

\* The file the program is about to open is not there.
FileMissing ==
    /\ pc \in {"load", "queries", "groundtruth"}
    /\ pc' = "exit"
    /\ UNCHANGED <<option, parsed, parameters, dataset_size, num_l, range_queue_result,
                   q_loaded, candidates, nodes, groundtruth_result, retrived_data_num>>

\* Point p is in a leaf's buffer as the offset of its first component in
\* rawfile; the candidate step turns that into the point's number again.
Position(p) == p * data_dimensionality
CurrentPosition(position) == position \div data_dimensionality

PositionBuffer(i, l) == {Position(p) : p \in {n \in Points : LeafOf(i, n) = l}}
\* The points of a leaf, and the fault of a loop that starts at the second.
LeafPointsFromOne(leaf) ==
    LET buffer == PositionBuffer(leaf[1], leaf[2])
    IN  {CurrentPosition(o) : o \in buffer \ {Min(buffer)}}
LeafPoints(leaf) == {CurrentPosition(o) : o \in PositionBuffer(leaf[1], leaf[2])}

\* The components of a point, and of a query.
RawFile(p) == [c \in 0 .. data_dimensionality - 1 |-> DataFile[p * data_dimensionality + c + 1]]
QueryPoint(q) == [c \in 0 .. data_dimensionality - 1 |-> QueryFile[q * data_dimensionality + c + 1]]

-----------------------------------------------------------------------------
(* Queries.                                                                *)

\* The query file; all queries are read at once.
LoadQueries ==
    /\ pc = "queries"
    /\ IF Fewer(Len(QueryFile) \div data_dimensionality, option.queries_size)
       THEN pc' = "exit" /\ UNCHANGED range_queue_result
       ELSE /\ pc' = IF option.queries_size = 0 THEN "report" ELSE "range"
            /\ range_queue_result' = [i \in Trees |-> [q \in Queries |-> <<>>]]
    /\ UNCHANGED <<option, parsed, parameters, dataset_size, num_l, q_loaded,
                   candidates, nodes, groundtruth_result, retrived_data_num>>

\* range_query: one tree after the other, each for all queries.
RangeQuery ==
    /\ pc = "range"
    /\ \E found \in SUBSET {l \in Leaves : PositionBuffer(num_l, l) # {}} :
       \E lower_distance \in [found -> Distances] :
           range_queue_result' =
               [range_queue_result EXCEPT ![num_l][q_loaded] = lower_distance]
    /\ IF q_loaded + 1 < option.queries_size
       THEN q_loaded' = q_loaded + 1 /\ UNCHANGED <<num_l, pc>>
       ELSE /\ q_loaded' = 0
            /\ num_l' = num_l + 1
            /\ pc' = IF num_l + 1 < option.l_size THEN "range" ELSE "candidates"
    /\ UNCHANGED <<option, parsed, parameters, dataset_size, candidates, nodes,
                   groundtruth_result, retrived_data_num>>

\* The leaves all trees have found for a query, their points and distance.
Found(q) == {leaf \in Trees \X Leaves : leaf[2] \in DOMAIN range_queue_result[leaf[1]][q]}
PointsIn(leaves) == UNION {LeafPoints(leaf) : leaf \in leaves}
DistanceTo(q, leaf) == range_queue_result[leaf[1]][q][leaf[2]]

\* What NearestLeaves allows: all points found, or max_candidate_size of them,
\* from whole nearest leaves and from the next nearest.
Nearest(q) ==
    LET all == Found(q)
        visited == {s \in SUBSET all : \A leaf \in s, other \in all \ s :
                                           DistanceTo(q, leaf) <= DistanceTo(q, other)}
    IN  {c \in SUBSET PointsIn(all) :
            \/ c = PointsIn(all) /\ Cardinality(c) <= option.max_candidate_size
            \/ /\ Cardinality(c) = option.max_candidate_size
               /\ \E s \in visited : \E leaf \in all \ s :
                      /\ s \cup {leaf} \in visited
                      /\ PointsIn(s) \subseteq c
                      /\ c \subseteq PointsIn(s \cup {leaf})}

\* The second step. With several threads any points found may be missing
\* (ParallelCandidates), and more than max_candidate_size may be copied, past
\* the end of nodes[q_loaded].
Candidates ==
    /\ pc = "candidates"
    /\ \E c \in IF num_thread = 1 THEN Nearest(q_loaded)
                ELSE SUBSET PointsIn(Found(q_loaded)) :
           /\ candidates' = c
           /\ pc' = IF Cardinality(c) > option.max_candidate_size THEN "trap" ELSE "rank"
    /\ UNCHANGED <<option, parsed, parameters, dataset_size, num_l, range_queue_result,
                   q_loaded, nodes, groundtruth_result, retrived_data_num>>

\* nodes[q_loaded][i].dist
Dist(q, p) == IF num_thread = 1 THEN EuclideanDistance(QueryPoint(q), RawFile(p), data_dimensionality)
              ELSE L2sqr(QueryPoint(q), RawFile(p), data_dimensionality)

\* How many places std::partial_sort (fewer than data_loaded) or std::sort
\* brings into order.
Sorted(data_loaded) == IF k_size < data_loaded THEN k_size ELSE data_loaded

\* The third step; of equal distances any may come first, and the places
\* behind the sorted ones are in no order.
Rank ==
    LET n == Cardinality(candidates)
        dist == [p \in candidates |-> Dist(q_loaded, p)]
    IN
    /\ pc = "rank"
    /\ \E s \in {f \in [1 .. n -> candidates] :
                    \A a, b \in 1 .. n : a < b => /\ f[a] # f[b]
                                                  /\ a <= Sorted(n) => dist[f[a]] <= dist[f[b]]} :
           nodes' = Append(nodes, s)
    /\ candidates' = {}
    /\ IF q_loaded + 1 < option.queries_size
       THEN q_loaded' = q_loaded + 1 /\ pc' = "candidates"
       ELSE q_loaded' = 0 /\ pc' = "report"
    /\ UNCHANGED <<option, parsed, parameters, dataset_size, num_l, range_queue_result,
                   groundtruth_result, retrived_data_num>>

-----------------------------------------------------------------------------
(* Evaluation.                                                             *)

\* The averages printed are divided by queries_size, an int.
Report ==
    /\ pc = "report"
    /\ pc' = IF option.queries_size = 0 THEN "trap" ELSE "groundtruth"
    /\ UNCHANGED <<option, parsed, parameters, dataset_size, num_l, range_queue_result,
                   q_loaded, candidates, nodes, groundtruth_result, retrived_data_num>>

\* The reference: the true distance, and the points by it.
TrueDistance(q, p) == SquaredDistance(QueryPoint(q), RawFile(p), data_dimensionality)
Listed == IF dataset_size < GroundTruthK THEN dataset_size ELSE GroundTruthK
Neighbours(q) ==
    {f \in [1 .. Listed -> Points] :
        \A a \in 1 .. Listed : \A p \in Points \ {f[b] : b \in 1 .. a - 1} :
            f[a] \notin {f[b] : b \in 1 .. a - 1} /\ TrueDistance(q, f[a]) <= TrueDistance(q, p)}

\* The file lists for every query, in turn, GroundTruthK neighbours or all the
\* points there are; k_size numbers are read for a query, from where the last
\* ones ended.
LoadGroundTruth ==
    /\ pc = "groundtruth"
    /\ \E row \in [Queries -> UNION {Neighbours(q) : q \in Queries}] :
           /\ \A q \in Queries : row[q] \in Neighbours(q)
           /\ groundtruth_result' =
                  [q \in Queries |-> [j \in 1 .. k_size |->
                      LET n == q * k_size + j - 1 IN
                      IF n < option.queries_size * Listed
                      THEN row[n \div Listed][(n % Listed) + 1]
                      ELSE Uninit]]
    /\ pc' = "recall"
    /\ UNCHANGED <<option, parsed, parameters, dataset_size, num_l, range_queue_result,
                   q_loaded, candidates, nodes, retrived_data_num>>

\* obtained_result[j], read whether or not nodes[q] has that many.
Obtained(q, j) == IF j \in DOMAIN nodes[q + 1] THEN nodes[q + 1][j] ELSE Uninit

\* The results that are in the ground truth, and those that may be because
\* one of the two has never been written.
Hits(q) == {j \in 1 .. k_size : \E t \in 1 .. k_size :
               Obtained(q, j) = groundtruth_result[q][t] /\ Obtained(q, j) # Uninit}
Doubtful(q) == {j \in (1 .. k_size) \ Hits(q) :
                   Uninit \in {Obtained(q, j)} \cup {groundtruth_result[q][t] : t \in 1 .. k_size}}

\* The recall of one query. An unwritten number is also used as an index into
\* rawfile, which may end the program.
Recall ==
    /\ pc = "recall"
    /\ \E n \in 0 .. Cardinality(Doubtful(q_loaded)) :
           retrived_data_num' = retrived_data_num + Cardinality(Hits(q_loaded)) + n
    /\ \/ /\ q_loaded + 1 < option.queries_size
          /\ q_loaded' = q_loaded + 1
          /\ UNCHANGED pc
       \/ /\ q_loaded + 1 = option.queries_size
          /\ q_loaded' = 0
          /\ pc' \in {"end"} \cup (IF \E q \in Queries : Doubtful(q) # {} THEN {"trap"} ELSE {})
    /\ UNCHANGED <<option, parsed, parameters, dataset_size, num_l, range_queue_result,
                   candidates, nodes, groundtruth_result>>

Done == pc \in {"end", "exit", "trap"} /\ UNCHANGED vars

Next == \/ \E o \in DOMAIN OptionValues : \E v \in OptionValues[o] : Option(o, v)
        \/ UnknownOption \/ SetThreads \/ InitSettings \/ LoadData \/ BuildTree \/ FileMissing
        \/ LoadQueries \/ RangeQuery \/ Candidates \/ Rank
        \/ Report \/ LoadGroundTruth \/ Recall \/ Done

Spec == Init /\ [][Next]_vars

-----------------------------------------------------------------------------
(* Properties.                                                             *)

\* Types; a mask that is set has a CPU for every thread; what is loaded lies
\* within its file, whatever the sizes asked for; nodes[q] is never longer than
\* its allocation while the program goes on, and no recall is above 1.
TypeOK ==
    /\ pc \in {"options", "settings", "load", "index", "queries", "range", "candidates", "rank",
               "report", "groundtruth", "recall", "end", "exit", "trap"}
    /\ parsed \in 0 .. MaxOptions
    /\ num_thread \in Nat
    /\ mask # {} => Cardinality(mask) = num_thread
    /\ settings_dimensionality <= option.LSH_dimensionality
    /\ dataset_size * data_dimensionality \in 0 .. Len(DataFile)
    /\ range_queue_result # <<>> => option.queries_size * data_dimensionality \in 0 .. Len(QueryFile)
    /\ \A q \in DOMAIN nodes : Len(nodes[q]) <= option.max_candidate_size
    /\ pc \in {"recall", "end"} => retrived_data_num \in 0 .. option.queries_size * k_size

\* The first k_size places of nodes[q] are the nearest of the candidates, in
\* order of the true distance, for every dimensionality and number of threads.
NearestReturned ==
    pc = "report" => \A q \in DOMAIN nodes : \A a, b \in DOMAIN nodes[q] :
        a < b /\ a <= k_size =>
            TrueDistance(q - 1, nodes[q][a]) <= TrueDistance(q - 1, nodes[q][b])

\* Whatever is left over by the blocks of 16, 8 and 4 components, each of the
\* kernels takes in every component once: the distance does not depend on
\* num_thread.
KernelsExact ==
    pc = "rank" => \A p \in candidates :
        KernelsRight(QueryPoint(q_loaded), RawFile(p), data_dimensionality)

\* The kernels and the ranking together: the answer is the nearest candidates.
AnswersExact == KernelsExact /\ NearestReturned

\* With one thread, if for every query the leaves found hold all its nearest
\* neighbours and no more points than max_candidate_size, and the ground truth
\* was made for this k_size, then all of it is returned: recall 1.
RecallComplete ==
    LET within(q) == {p \in Points : \E leaf \in Found(q) : LeafOf(leaf[1], p) = leaf[2]}
        neighbours(q) == {{f[a] : a \in DOMAIN f} : f \in Neighbours(q)}
    IN
    /\ pc = "end" /\ num_thread = 1 /\ k_size = Listed
    /\ \A q \in Queries : /\ Cardinality(within(q)) <= option.max_candidate_size
                          /\ \A s \in neighbours(q) : s \subseteq within(q)
                          /\ Cardinality(neighbours(q)) = 1
    => retrived_data_num = option.queries_size * k_size
=============================================================================
