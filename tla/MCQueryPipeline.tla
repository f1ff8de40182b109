-------------------------- MODULE MCQueryPipeline --------------------------
(* QueryPipeline on files of up to 124 and 62 floats: three points and a    *)
(* query unless the options ask for more or less. The dimensionalities need *)
(* each of the blocks of 16, 8, 4 and the rest, alone and together.         *)
EXTENDS QueryPipeline
MCDefaults == [cpu_type |-> 1, l_size |-> 1, k_size |-> 2, queries_size |-> 1,
               dataset_size |-> 4, max_candidate_size |-> 3,
               data_dimensionality |-> 5, LSH_dimensionality |-> 2]
MCOptionValues == [cpu_type |-> {-1, 0, 3, 41}, l_size |-> {2}, k_size |-> {1, 4},
                   queries_size |-> {-1, 0, 2, 63}, dataset_size |-> {0, 1, 200},
                   max_candidate_size |-> {1, 2},
                   data_dimensionality |-> {0, 3, 12, 31}, LSH_dimensionality |-> {6, 65}]
MCDataFile == [n \in 1 .. 124 |-> (n * n * 7 + n) % 11]
MCQueryFile == [n \in 1 .. 62 |-> (n * n * 5 + 3 * n) % 7]
MCLeafOf(i, p) == IF (p + i) % 3 = 0 THEN "A" ELSE "B"
=============================================================================
