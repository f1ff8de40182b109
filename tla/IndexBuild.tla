----------------------------- MODULE IndexBuild -----------------------------
(***************************************************************************)
(* What building one DE-Tree promises (index_creation in                   *)
(* indexing_support.c), with no threads in it: every record is put, once,  *)
(* in the bucket its encoding names, and the index is handed over only     *)
(* when all of them are there.                                             *)
(***************************************************************************)
CONSTANTS Records,      \* the points read from the data file
          Buffers       \* one bucket per combination of top bits

VARIABLES mask,         \* the bucket that the encoding of each record names
          indexed,      \* the records each bucket holds
          built         \* index_creation has returned

vars == <<mask, indexed, built>>

Init == /\ mask \in [Records -> Buffers]
        /\ indexed = [b \in Buffers |-> {}]
        /\ built = FALSE

\* A record that no bucket holds joins the bucket of its mask.
Insert(r) == /\ ~built
             /\ \A b \in Buffers : r \notin indexed[b]
             /\ indexed' = [indexed EXCEPT ![mask[r]] = @ \cup {r}]
             /\ UNCHANGED <<mask, built>>

\* The call returns with every record indexed.
Finish == /\ ~built
          /\ \A r \in Records : r \in indexed[mask[r]]
          /\ built' = TRUE
          /\ UNCHANGED <<mask, indexed>>

Next == (\E r \in Records : Insert(r)) \/ Finish

Spec == Init /\ [][Next]_vars /\ WF_vars(Next)
=============================================================================
