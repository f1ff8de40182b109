------------------------- MODULE ParallelCandidates -------------------------
(***************************************************************************)
(* The candidate step of one query with several threads: the else branch   *)
(* of "if (num_thread == 1)" in DETLSH.cpp's main. The leaves of all trees *)
(* are in one list by distance; an OpenMP loop marks their points in the   *)
(* bit vector isCandidate until the threads have had their share, then one *)
(* thread fills up to max_candidate_size and copies the marked points.     *)
(*                                                                         *)
(* isCandidate is a std::vector<bool>: setting a bit reads and writes the  *)
(* whole word it is in. The loops that count and copy only read it and     *)
(* write memory of one thread, so they are part of the step they are in.   *)
(***************************************************************************)
EXTENDS Integers, Sequences, FiniteSets, SequencesExt

CONSTANTS NumThread,          \* num_thread, at least 2 here
          MaxCandidateSize,   \* max_candidate_size
          Dataset,            \* the points, by their number
          LeafLists,          \* the lists leaf_nodes may be
          WordOf(_)           \* the word of the bit vector a point is in

ASSUME NumThreadAssumption == NumThread \in Nat \ {0, 1}
ASSUME MaxCandidateSizeAssumption == MaxCandidateSize \in Nat
ASSUME LeafListsAssumption == LeafLists \subseteq Seq(Seq(Dataset))

Threads == 1 .. NumThread

VARIABLES
    leaf_nodes,       \* the points of each leaf, the closest leaf first
    next,             \* the next iteration the OpenMP schedule hands out
    pc,               \* program point of each thread
    i,                \* the iteration a thread is in
    at,               \* the point of its leaf it is at
    word,             \* what it has read of isCandidate
    isCandidate,      \* the points whose bit is set
    num,              \* num_candidate_each_thread
    last,             \* last_node_index_each_thread
    finished,         \* finished_thread
    stop,             \* stop_to_traverse
    obtained,         \* obtained_candidate_num
    nodes,            \* the points copied to nodes[q_loaded]
    done,             \* whether they have been copied
    scanner           \* which thread has scanned a leaf; 0 for none (history)

result == <<obtained, nodes, done>>
vars == <<leaf_nodes, next, pc, i, at, word, isCandidate, num, last, finished,
          stop, result, scanner>>

Count == Len(leaf_nodes)
Points(l) == ToSet(leaf_nodes[l])
Point(t) == leaf_nodes[i[t]][at[t]]

\* Iterations and leaves are numbered from 1; last starts at the first leaf.
Init == /\ leaf_nodes \in LeafLists
        /\ next = 1
        /\ pc = [t \in Threads |-> "take"]
        /\ i = [t \in Threads |-> 0]
        /\ at = [t \in Threads |-> 1]
        /\ word = [t \in Threads |-> {}]
        /\ isCandidate = {}
        /\ num = [t \in Threads |-> 0]
        /\ last = [t \in Threads |-> 1]
        /\ finished = 0
        /\ stop = FALSE
        /\ obtained = 0
        /\ nodes = {}
        /\ done = FALSE
        /\ scanner = [l \in 1 .. Count |-> 0]

Goto(t, l) == pc' = [pc EXCEPT ![t] = l]
At(t, l) == pc[t] = l

\* schedule(dynamic): the next iteration, or the end of the loop.
Take(t) == /\ At(t, "take")
           /\ \/ /\ next <= Count
                 /\ i' = [i EXCEPT ![t] = next]
                 /\ next' = next + 1
                 /\ Goto(t, "check")
              \/ /\ next > Count
                 /\ Goto(t, "end")
                 /\ UNCHANGED <<i, next>>
           /\ UNCHANGED <<leaf_nodes, at, word, isCandidate, num, last,
                          finished, stop, result, scanner>>

\* The look at stop_to_traverse, and the note of how far the thread got.
Check(t) == /\ At(t, "check")
            /\ \/ /\ stop
                  /\ Goto(t, "take")
                  /\ UNCHANGED <<at, last, scanner>>
               \/ /\ ~stop
                  /\ last' = [last EXCEPT ![t] = i[t]]
                  /\ scanner' = [scanner EXCEPT ![i[t]] = t]
                  /\ at' = [at EXCEPT ![t] = 1]
                  /\ Goto(t, "read")
            /\ UNCHANGED <<leaf_nodes, next, i, word, isCandidate, num,
                           finished, stop, result>>

SameWord(p) == {q \in isCandidate : WordOf(q) = WordOf(p)}

\* isCandidate[p] = true loads the word of p ...
Read(t) == /\ At(t, "read")
           /\ at[t] <= Len(leaf_nodes[i[t]])
           /\ word' = [word EXCEPT ![t] = SameWord(Point(t))]
           /\ Goto(t, "write")
           /\ UNCHANGED <<leaf_nodes, next, i, at, isCandidate, num, last,
                          finished, stop, result, scanner>>

\* The fault of writing the word back as it was read.
MarkedWithout(read, p) == (isCandidate \ SameWord(p)) \cup read

\* The bit vector after the word that was read is written back with p in it.
Marked(read, p) == (isCandidate \ SameWord(p)) \cup read \cup {p}

\* ... and stores it with the bit set: what others have set there since is lost.
Write(t) == /\ At(t, "write")
            /\ isCandidate' = Marked(word[t], Point(t))
            /\ at' = [at EXCEPT ![t] = @ + 1]
            /\ Goto(t, "read")
            /\ UNCHANGED <<leaf_nodes, next, i, word, num, last, finished,
                           stop, result, scanner>>

\* The fault of counting leaves instead of points.
TallyOfLeaves(t) == num[t] + 1

\* num_candidate_each_thread with the points of the leaf the thread is in.
NewTally(t) == num[t] + Len(leaf_nodes[i[t]])

\* The leaf is done; is the thread beyond its share of the candidates?
Tally(t) ==
    LET n == NewTally(t) IN
    /\ At(t, "read")
    /\ at[t] > Len(leaf_nodes[i[t]])
    /\ num' = [num EXCEPT ![t] = n]
    /\ Goto(t, IF n > MaxCandidateSize \div NumThread THEN "finish" ELSE "take")
    /\ UNCHANGED <<leaf_nodes, next, i, at, word, isCandidate, last, finished,
                   stop, result, scanner>>

\* finished_thread++ under the lock; a thread may come here more than once.
Finish(t) == /\ At(t, "finish")
             /\ finished' = finished + 1
             /\ Goto(t, "test")
             /\ UNCHANGED <<leaf_nodes, next, i, at, word, isCandidate, num,
                            last, stop, result, scanner>>

Stops == finished = NumThread

\* The fault of a while without its break.
AfterTestAgain == IF Stops THEN "test" ELSE "take"

\* The body of the while is left at once.
AfterTest == "take"

\* finished_thread == num_thread, read after the lock is given back.
Test(t) == /\ At(t, "test")
           /\ stop' = (stop \/ Stops)
           /\ Goto(t, AfterTest)
           /\ UNCHANGED <<leaf_nodes, next, i, at, word, isCandidate, num, last,
                          finished, result, scanner>>


-----------------------------------------------------------------------------
(* The thread that goes on after the loop.                                 *)

\* last_node_index: the furthest leaf any thread has come to.
LastIndex == Max(Range(last))

\* The points the second pass comes to before the x-th point of leaf l.
Before(l, x) == {leaf_nodes[l][y] : y \in 1 .. x - 1} \cup
                UNION {Points(m) : m \in LastIndex + 1 .. l - 1}

\* The fault of filling up to one more than the limit.
HasLeftInclusive(c) == Cardinality(c) <= MaxCandidateSize

\* left_candidate_num is positive once the points of c are marked.
HasLeft(c) == Cardinality(c) < MaxCandidateSize

\* The second pass over the leaves after last_node_index: a point that is marked
\* costs nothing.
Filled(c) ==
    c \cup {p \in Dataset : \E l \in LastIndex + 1 .. Count :
                \E x \in DOMAIN leaf_nodes[l] : /\ leaf_nodes[l][x] = p
                                               /\ HasLeft(c \cup Before(l, x))}

\* The loop has ended in all threads: count the marked points, fill up, copy.
Collect == /\ ~done
           /\ \A t \in Threads : At(t, "end")
           /\ obtained' = Cardinality(isCandidate)
           /\ isCandidate' = Filled(isCandidate)
           /\ nodes' = Filled(isCandidate)
           /\ done' = TRUE
           /\ UNCHANGED <<leaf_nodes, next, pc, i, at, word, num, last,
                          finished, stop, scanner>>

Thread(t) == \/ Take(t) \/ Check(t) \/ Read(t) \/ Write(t) \/ Tally(t)
             \/ Finish(t) \/ Test(t)

Done == done /\ UNCHANGED vars

Next == (\E t \in Threads : Thread(t)) \/ Collect \/ Done

\* The OpenMP runtime runs every thread of the team, and then the one that
\* goes on.
Fairness == (\A t \in Threads : WF_vars(Thread(t))) /\ WF_vars(Collect)

Spec == Init /\ [][Next]_vars /\ Fairness

-----------------------------------------------------------------------------
(* Properties.                                                             *)

Scanned == {l \in 1 .. Count : scanner[l] # 0}
Places(S) == UNION {{l} \X DOMAIN leaf_nodes[l] : l \in S}

\* Types; a leaf that a thread has noted in last_node_index_each_thread is one
\* it scans, and a thread's tally is that of the leaves it has scanned.
TypeOK ==
    /\ next \in 1 .. Count + 1
    /\ pc \in [Threads -> {"take", "check", "read", "write", "finish", "test",
                           "end"}]
    /\ i \in [Threads -> 0 .. Count]
    /\ finished \in Nat
    /\ stop \in BOOLEAN
    /\ isCandidate \subseteq nodes \cup UNION {Points(l) : l \in Scanned}
    /\ \A t \in Threads : last[t] # 1 => scanner[last[t]] = t
    /\ \A t \in Threads : ~At(t, "read") /\ ~At(t, "write") =>
           num[t] = Cardinality(Places({l \in 1 .. Count : scanner[l] = t}))

\* A scanned point that is no candidate in the end was lost to the race on the
\* words of the bit vector: a leaf another thread scanned has a point of the
\* same word. Nothing else loses points, and the fill can pick no lost one up.
LostOnlyByWordRace ==
    done => \A l \in Scanned : \A p \in Points(l) \ nodes :
                \E m \in Scanned : /\ scanner[m] # scanner[l]
                                   /\ \E q \in Points(m) : /\ q # p
                                                           /\ WordOf(q) = WordOf(p)

\* The fill starts after the furthest leaf, so a closer leaf that a thread gave
\* up on stays out. Each other thread gives up on at most one such leaf.
FewSkipped ==
    done => Cardinality({l \in DOMAIN scanner : l < LastIndex /\ scanner[l] = 0}) < NumThread

\* The candidates are at the limit unless there is no leaf left to take points
\* from; what the fill adds never goes beyond it.
FilledUp ==
    done => /\ obtained <= MaxCandidateSize =>
                   Cardinality(nodes) <= MaxCandidateSize
            /\ Cardinality(nodes) < MaxCandidateSize =>
                   \A l \in LastIndex + 1 .. Count : Points(l) \subseteq nodes

\* The second pass makes up for the early stop, but for what is named above.
FillComplete == FewSkipped /\ FilledUp

\* The candidate step ends.
Terminates == <>done

\* README.md of the repository: max-candidate-size is "the maximum number of
\* returned points", and nodes[q_loaded] is allocated for that many.
AtMostMaxCandidates == Cardinality(nodes) <= MaxCandidateSize
=============================================================================
