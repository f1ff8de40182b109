--------------------------- MODULE IndexCreation ---------------------------
(***************************************************************************)
(* Building one DE-Tree with num_thread pthreads: index_creation,          *)
(* index_creation_worker, insert_to_index and insert_to_pRecBuf of         *)
(* indexing_support.c, with the buffer layer of isax_first_buffer_layer.c. *)
(*                                                                         *)
(* Phase 1: every worker encodes its slice of the records and appends each *)
(* one to its own slot of the soft buffer that the record's mask names. A  *)
(* soft buffer and its root node are created on first use, under double-   *)
(* checked locking, and the root is pushed on the list index->first_node.  *)
(* A barrier ends phase 1. Phase 2: workers claim buffers with a shared    *)
(* counter and move the records of all slots into the subtree of the root. *)
(*                                                                         *)
(* A step is one access to memory that another worker can reach: reads and *)
(* writes of a worker's own slot are joined to the step they belong to.    *)
(* A root is named by its buffer, the masks of the records are arbitrary.  *)
(***************************************************************************)
EXTENDS Integers, Sequences, FiniteSets

CONSTANTS NumThread,          \* num_thread
          NumRecords,         \* data_point_num
          NumBuffers,         \* 2^LSH_dimensionality
          InitialBufferSize   \* initial_fbl_buffer_size

ASSUME NumThreadAssumption == NumThread \in Nat \ {0}
ASSUME NumRecordsAssumption == NumRecords \in Nat
ASSUME NumBuffersAssumption == NumBuffers \in Nat \ {0}
ASSUME InitialBufferSizeAssumption == InitialBufferSize \in Nat \ {0}

Workers == 0 .. NumThread - 1
Records == 0 .. NumRecords - 1
Buffers == 0 .. NumBuffers - 1
Nobody == -1      \* the lock is free
Null == -1        \* a NULL isax_node pointer

VARIABLES
    mask,             \* what encoding and CREATE_MASK give for each record
    main,             \* program point of index_creation
    created,          \* how many workers pthread_create has started
    pc,               \* program point of each worker
    i,                \* the record each worker is at in phase 1
    lock_firstnode,   \* holder of the mutex
    initialized,      \* soft_buffers[b].initialized
    records,          \* soft_buffers[b].pos_records[w][0 .. buffer_size[w]-1]
    max_buffer_size,  \* soft_buffers[b].max_buffer_size[w]
    first_node,       \* index->first_node
    next, previous,   \* the links of each root node
    root_nodes,       \* index->root_nodes
    node_counter,     \* the counter of phase 2
    j, k, r,          \* each worker's buffer, slot and record in phase 2
    tree,             \* the records in the subtree of each root, in order
    flushed,          \* roots that flush_subtree_leaf_buffers_inmemory saw
    total_records     \* index->total_records

phase1 == <<i, lock_firstnode, initialized, records, max_buffer_size,
            first_node, next, previous, root_nodes>>
phase2 == <<node_counter, j, k, r, tree, flushed>>
caller == <<main, created, total_records>>
vars == <<mask, pc, phase1, phase2, caller>>

\* Two ways to get the slices wrong: no remainder, an inclusive end.
StopWithoutRest(w) == (w + 1) * (NumRecords \div NumThread)
StopInclusive(w) == IF w = NumThread - 1 THEN NumRecords
                    ELSE (w + 1) * (NumRecords \div NumThread) + 1

\* The slice of worker w: the last one also takes what the division leaves.
Start(w) == w * (NumRecords \div NumThread)
Stop(w) == IF w = NumThread - 1 THEN NumRecords
                                ELSE (w + 1) * (NumRecords \div NumThread)

Encoding == {"test", "lock", "alloc", "publish", "link", "clear", "count",
             "append"}
Draining == {"claim", "drain"}

Init == /\ mask \in [Records -> Buffers]
        /\ main = "create"
        /\ created = 0
        /\ pc = [w \in Workers |-> "idle"]
        /\ i = [w \in Workers |-> Start(w)]
        /\ lock_firstnode = Nobody
        /\ initialized = [b \in Buffers |-> FALSE]
        /\ records = [b \in Buffers |-> [w \in Workers |-> <<>>]]
        /\ max_buffer_size = [b \in Buffers |-> [w \in Workers |-> 0]]
        /\ first_node = Null
        /\ next = [b \in Buffers |-> Null]
        /\ previous = [b \in Buffers |-> Null]
        /\ root_nodes = 0
        /\ node_counter = 0
        /\ j = [w \in Workers |-> 0]
        /\ k = [w \in Workers |-> 0]
        /\ r = [w \in Workers |-> 0]
        /\ tree = [b \in Buffers |-> <<>>]
        /\ flushed = {}
        /\ total_records = 0

Goto(w, l) == pc' = [pc EXCEPT ![w] = l]
At(w, l) == pc[w] = l
Here(w) == mask[i[w]]     \* the buffer of the record worker w is at

-----------------------------------------------------------------------------
(* Phase 1: index_creation_worker's first loop and insert_to_pRecBuf.      *)

\* The loop test, the encoding, and the first look at initialized, which no
\* lock protects.
Test(w) == /\ At(w, "test")
           /\ \/ i[w] < Stop(w) /\ initialized[Here(w)] /\ Goto(w, "append")
              \/ i[w] < Stop(w) /\ ~initialized[Here(w)] /\ Goto(w, "lock")
              \/ i[w] >= Stop(w) /\ Goto(w, "barrier")
           /\ UNCHANGED <<mask, phase1, phase2, caller>>

\* Faults: the second look is forgotten, or the mutex is.
CreatesAlways(b) == TRUE
FreeAlways == TRUE

\* The second look at initialized, and whether the mutex can be taken.
Creates(b) == ~initialized[b]
MutexFree == lock_firstnode = Nobody

\* pthread_mutex_lock and the second look; another worker may have been first.
Lock(w) == /\ At(w, "lock")
           /\ MutexFree
           /\ \/ /\ Creates(Here(w))
                 /\ lock_firstnode' = w /\ Goto(w, "alloc")
              \/ /\ ~Creates(Here(w))
                 /\ UNCHANGED lock_firstnode /\ Goto(w, "append")
           /\ UNCHANGED <<mask, i, initialized, records, max_buffer_size,
                          first_node, next, previous, root_nodes,
                          phase2, caller>>

\* Empty slots for every worker and a fresh root node (isax_leaf_node_init).
Alloc(w) ==
    /\ At(w, "alloc")
    /\ records' = [records EXCEPT ![Here(w)] = [v \in Workers |-> <<>>]]
    /\ max_buffer_size' =
           [max_buffer_size EXCEPT ![Here(w)] = [v \in Workers |-> 0]]
    /\ next' = [next EXCEPT ![Here(w)] = Null]
    /\ previous' = [previous EXCEPT ![Here(w)] = Null]
    /\ Goto(w, "publish")
    /\ UNCHANGED <<mask, i, lock_firstnode, initialized, first_node,
                   root_nodes, phase2, caller>>

\* initialized = 1: from here other workers use the buffer without the lock.
Publish(w) == /\ At(w, "publish")
              /\ initialized' = [initialized EXCEPT ![Here(w)] = TRUE]
              /\ Goto(w, "link")
              /\ UNCHANGED <<mask, i, lock_firstnode, records,
                             max_buffer_size, first_node, next, previous,
                             root_nodes, phase2, caller>>

\* prev_first->previous = node
BackLink(prev_first, node) == [previous EXCEPT ![prev_first] = node]

\* Push the root on the list and unlock. The very first root clears its own
\* links after the unlock.
Link(w) ==
    LET b == Here(w) IN
    /\ At(w, "link")
    /\ \/ /\ first_node = Null
          /\ Goto(w, "clear")
          /\ UNCHANGED <<next, previous>>
       \/ /\ first_node # Null
          /\ next' = [next EXCEPT ![b] = first_node]
          /\ previous' = BackLink(first_node, b)
          /\ Goto(w, "count")
    /\ first_node' = b
    /\ lock_firstnode' = Nobody
    /\ UNCHANGED <<mask, i, initialized, records, max_buffer_size,
                   root_nodes, phase2, caller>>

\* The fault of clearing whatever heads the list by then.
ClearedHead(w) == first_node

\* The node that is cleared after the unlock.
Cleared(w) == Here(w)

\* node->next = NULL, node->previous = NULL, without the lock.
Clear(w) == /\ At(w, "clear")
            /\ next' = [next EXCEPT ![Cleared(w)] = Null]
            /\ previous' = [previous EXCEPT ![Cleared(w)] = Null]
            /\ Goto(w, "count")
            /\ UNCHANGED <<mask, i, lock_firstnode, initialized, records,
                           max_buffer_size, first_node, root_nodes,
                           phase2, caller>>

\* __sync_fetch_and_add(&index->root_nodes, 1)
Count(w) == /\ At(w, "count")
            /\ root_nodes' = root_nodes + 1
            /\ Goto(w, "append")
            /\ UNCHANGED <<mask, i, lock_firstnode, initialized, records,
                           max_buffer_size, first_node, next, previous,
                           phase2, caller>>

\* The fault of growing one record too late.
CapacityLate(size, max) == IF size <= max THEN max
                           ELSE IF max = 0 THEN InitialBufferSize ELSE 2 * max

\* The capacity a slot has once a record of index size is to be stored in it.
Capacity(size, max) == IF size < max THEN max
                       ELSE IF max = 0 THEN InitialBufferSize ELSE 2 * max

\* Grow the worker's slot when it is full, store the record, step on.
Append_(w) ==
    LET b == Here(w)
        size == Len(records[b][w])
    IN  /\ At(w, "append")
        /\ max_buffer_size' = [max_buffer_size EXCEPT
                               ![b][w] = Capacity(size, @)]
        /\ records' = [records EXCEPT ![b][w] = Append(@, i[w])]
        /\ i' = [i EXCEPT ![w] = @ + 1]
        /\ Goto(w, "test")
        /\ UNCHANGED <<mask, lock_firstnode, initialized, first_node, next,
                       previous, root_nodes, phase2, caller>>

\* Faults: a barrier for one thread, a barrier that must be full to be left.
NobodyAwaited == TRUE
AllStillThere == \A v \in Workers : pc[v] = "barrier"

\* Every worker has arrived, the ones that have already left included.
AllArrived ==
    \A v \in Workers : pc[v] \in {"barrier", "exit"} \cup Draining

\* pthread_barrier_wait: nobody leaves before all num_thread have arrived.
Barrier(w) == /\ At(w, "barrier")
              /\ AllArrived
              /\ Goto(w, "claim")
              /\ UNCHANGED <<mask, phase1, phase2, caller>>

-----------------------------------------------------------------------------
(* Phase 2: index_creation_worker's second loop.                           *)

\* The fault of a plain ++, which loses increments.
PlainIncrement == node_counter' \in {node_counter, node_counter + 1}

\* __sync_fetch_and_add(node_counter, 1)
FetchAndAdd == node_counter' = node_counter + 1

\* j is what fetch_and_add returns: leave, skip an unused buffer, or start
\* on its first slot.
Claim(w) ==
    LET c == node_counter IN
    /\ At(w, "claim")
    /\ FetchAndAdd
    /\ \/ /\ c >= NumBuffers
          /\ Goto(w, "exit")
          /\ UNCHANGED <<j, k, r>>
       \/ /\ c < NumBuffers
          /\ ~initialized[c]
          /\ UNCHANGED <<pc, j, k, r>>
       \/ /\ c < NumBuffers
          /\ initialized[c]
          /\ Goto(w, "drain")
          /\ j' = [j EXCEPT ![w] = c]
          /\ k' = [k EXCEPT ![w] = 0]
          /\ r' = [r EXCEPT ![w] = 0]
    /\ UNCHANGED <<mask, phase1, tree, flushed, caller>>

\* The fault of stopping before the last worker's slot.
SlotsDoneEarly(w) == k[w] >= NumThread - 1

\* k has run over the slots of all workers.
SlotsDone(w) == k[w] >= NumThread

\* add_record_to_node for the next record of the slot.
DrainRecord(w) ==
    LET slot == records[j[w]][k[w]] IN
    /\ At(w, "drain")
    /\ ~SlotsDone(w)
    /\ r[w] < Len(slot)
    /\ tree' = [tree EXCEPT ![j[w]] = Append(@, slot[r[w] + 1])]
    /\ r' = [r EXCEPT ![w] = @ + 1]
    /\ UNCHANGED <<mask, pc, phase1, node_counter, j, k, flushed, caller>>

\* On to the slot of the next worker.
NextSlot(w) == /\ At(w, "drain")
               /\ ~SlotsDone(w)
               /\ r[w] >= Len(records[j[w]][k[w]])
               /\ k' = [k EXCEPT ![w] = @ + 1]
               /\ r' = [r EXCEPT ![w] = 0]
               /\ UNCHANGED <<mask, pc, phase1, node_counter, j, tree,
                              flushed, caller>>

\* All slots are done: the subtree is flushed if any slot had a record.
Flush(w) ==
    LET have_record == \E v \in Workers : records[j[w]][v] # <<>> IN
    /\ At(w, "drain")
    /\ SlotsDone(w)
    /\ flushed' = IF have_record THEN flushed \cup {j[w]} ELSE flushed
    /\ Goto(w, "claim")
    /\ UNCHANGED <<mask, phase1, node_counter, j, k, r, tree, caller>>

-----------------------------------------------------------------------------
(* index_creation.                                                         *)

\* pthread_create of the next worker, which may run at once.
Create == /\ main = "create"
          /\ created < NumThread
          /\ created' = created + 1
          /\ Goto(created, "test")
          /\ main' = IF created' = NumThread THEN "join" ELSE "create"
          /\ UNCHANGED <<mask, phase1, phase2, total_records>>

\* All pthread_join have returned: account for the records and return.
Join == /\ main = "join"
        /\ \A w \in Workers : At(w, "exit")
        /\ total_records' = total_records + NumRecords
        /\ main' = "done"
        /\ UNCHANGED <<mask, pc, phase1, phase2, created>>

Insert(w) == \/ Test(w) \/ Lock(w) \/ Alloc(w) \/ Publish(w) \/ Link(w)
             \/ Clear(w) \/ Count(w) \/ Append_(w)
Drain(w) == \/ Claim(w) \/ DrainRecord(w) \/ NextSlot(w) \/ Flush(w)
Worker(w) == Insert(w) \/ Barrier(w) \/ Drain(w)

\* index_creation has returned; nothing of it runs any more.
Done == main = "done" /\ UNCHANGED vars

Next == (\E w \in Workers : Worker(w)) \/ Create \/ Join \/ Done

\* Every runnable thread is scheduled again and again. A worker waiting for
\* the mutex gets it in the end because the others insert finitely often.
Fairness == /\ \A w \in Workers : WF_vars(Worker(w))
            /\ WF_vars(Create \/ Join)

Spec == Init /\ [][Next]_vars /\ Fairness
-----------------------------------------------------------------------------
(* Properties.                                                             *)

Programs == {"idle", "barrier", "exit"} \cup Encoding \cup Draining

\* Types; a slot never holds more than its capacity, so the memcpy of
\* insert_to_pRecBuf stays inside the allocation.
TypeOK ==
    /\ mask \in [Records -> Buffers]
    /\ main \in {"create", "join", "done"}
    /\ created \in 0 .. NumThread
    /\ pc \in [Workers -> Programs]
    /\ i \in [Workers -> Nat]
    /\ lock_firstnode \in Workers \cup {Nobody}
    /\ initialized \in [Buffers -> BOOLEAN]
    /\ records \in [Buffers -> [Workers -> Seq(Records)]]
    /\ max_buffer_size \in [Buffers -> [Workers -> Nat]]
    /\ \A b \in Buffers, w \in Workers :
           Len(records[b][w]) <= max_buffer_size[b][w]
    /\ first_node \in Buffers \cup {Null}
    /\ next \in [Buffers -> Buffers \cup {Null}]
    /\ previous \in [Buffers -> Buffers \cup {Null}]
    /\ root_nodes \in Nat
    /\ node_counter \in Nat
    /\ j \in [Workers -> Buffers]
    /\ k \in [Workers -> 0 .. NumThread]
    /\ r \in [Workers -> Nat]
    /\ tree \in [Buffers -> Seq(Records)]
    /\ flushed \in SUBSET Buffers
    /\ total_records \in Nat

\* Double-checked locking never creates a soft buffer twice: what a worker has
\* stored stays stored. Its slot of buffer b holds exactly the records of its
\* slice that it has passed and whose mask is b, in the order of the file.
StoredInOrder ==
    \A b \in Buffers, w \in Workers :
        LET s == records[b][w] IN
        /\ {s[n] : n \in DOMAIN s} =
               {n \in Start(w) .. i[w] - 1 : mask[n] = b}
        /\ \A m, n \in DOMAIN s : m < n => s[m] < s[n]

\* A worker reads and writes the slots of a buffer only after some worker has
\* created and published it, and only the lock's holder may be creating one.
UsedAfterCreation ==
    \A w \in Workers :
        /\ pc[w] \in {"link", "clear", "count", "append"} =>
               initialized[Here(w)]
        /\ pc[w] \in {"alloc", "publish", "link"} => lock_firstnode = w
        /\ pc[w] \in {"alloc", "publish"} => ~initialized[Here(w)]
        /\ pc[w] = "drain" => initialized[j[w]]

\* The roots reached from index->first_node by n next links.
Listed[n \in 0 .. NumBuffers] ==
    IF n = 0 THEN first_node
    ELSE IF Listed[n - 1] = Null THEN Null ELSE next[Listed[n - 1]]

\* The initialized buffers whose root has been pushed on the list.
Linked == {b \in Buffers : /\ initialized[b]
                           /\ \A w \in Workers : At(w, "link") => Here(w) # b}

\* The list that range_query walks has every linked root exactly once and
\* ends, whatever the interleaving of its pushes; root_nodes is its length
\* but for the workers that are about to count theirs. The first root clears
\* its links after it has given up the lock, so the back link another worker
\* has meanwhile set there may be lost; that is the only one: find_siblings can
\* rely on previous everywhere but at the list's end.
RootList ==
    /\ {Listed[n] : n \in 0 .. NumBuffers} \ {Null} = Linked
    /\ Listed[NumBuffers] = Null
    /\ Cardinality({n \in 0 .. NumBuffers : Listed[n] # Null}) =
           Cardinality(Linked)
    /\ Cardinality(Linked) = root_nodes +
           Cardinality({w \in Workers : pc[w] \in {"clear", "count"}})
    /\ \A b \in Linked :
           LET c == next[b] IN
           c # Null => \/ previous[c] = b
                       \/ previous[c] = Null /\ next[c] = Null

\* While any worker is in phase 2 the soft buffers, the root list and the
\* positions in the input stand still: phase 2 reads them without a lock.
PhasesApart == [][(\E w \in Workers : pc[w] \in Draining) => UNCHANGED phase1]_vars

\* add_record_to_node and split_node take no lock: at most one worker is in
\* the subtree of a root at any time, and none comes back to it.
OneWorkerPerSubtree ==
    \A v, w \in Workers :
        At(v, "drain") /\ At(w, "drain") /\ v # w => j[v] # j[w]

\* A subtree only ever gets records of its own mask, and each one once.
EachRecordOnce ==
    \A b \in Buffers : \A m, n \in DOMAIN tree[b] :
        /\ mask[tree[b][n]] = b
        /\ tree[b][m] = tree[b][n] => m = n

\* When index_creation returns, a root is flushed if and only if its subtree
\* is not empty, each subtree is in the order of the records in the file, and
\* the trees together have total_records records.
Complete ==
    main = "done" =>
        /\ \A b \in Buffers : b \in flushed <=> tree[b] # <<>>
        /\ \A b \in Buffers : \A m, n \in DOMAIN tree[b] :
               m < n => tree[b][m] < tree[b][n]
        /\ {b \in Buffers : initialized[b]} = flushed
        /\ total_records =
               Cardinality(UNION {{<<b, n>> : n \in DOMAIN tree[b]} : b \in Buffers})

\* index_creation returns.
Terminates == <>(main = "done")

\* The threads together do what IndexBuild promises: every record reaches the
\* subtree of its mask before index_creation returns.
Build == INSTANCE IndexBuild WITH
             indexed <- [b \in Buffers |-> {tree[b][n] : n \in DOMAIN tree[b]}],
             built <- main = "done"
RefinesIndexBuild == Build!Spec
=============================================================================
