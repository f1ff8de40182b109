------------------------------ MODULE DiskIndex ------------------------------
(***************************************************************************)
(* The part of the index library that keeps a DE-Tree on disk:             *)
(* insert_to_fbl and flush_fbl of isax_first_buffer_layer.c, split_node of *)
(* a leaf that has a file, and from isax_index.c the flushing and loading  *)
(* of leaves, the distance of a query to a leaf, index_write and           *)
(* index_read. DETLSH.cpp calls none of them; the caller here is one that  *)
(* keeps to the order the library needs: it inserts records in rounds,     *)
(* each of them ended by flush_fbl, and then queries, completes, writes    *)
(* and reads the index. Once index.idx is there the process may be killed  *)
(* between any two steps, and in the middle of a flush, and start again    *)
(* with what is in the files. A kill inside index_write, and a machine     *)
(* that goes down with data its kernel has not written, are left out.      *)
(*                                                                         *)
(* A record is its position in the raw file, counted from 1. A node is     *)
(* named by its root's mask and the path below it, as in EncodingTree.     *)
(***************************************************************************)
EXTENDS Integers, FiniteSets, SequencesExt, NodeBuffer

CONSTANTS Segments,             \* 0 .. LSH_dimensionality - 1
          Bits,                 \* sax_bit_cardinality
          MaxLeafSize,          \* max_leaf_size
          InitialFblBufferSize, \* initial_fbl_buffer_size
          TotalLoadedLeaves,    \* total_loaded_leaves
          MaxFullBufferSize,    \* max_total_full_buffer_size of a new index
          FullRecordSize,       \* full_record_size
          PartialRecordSize,    \* partial_record_size
          MasksInOrder,         \* the root masks, in the order of their numbers
          InputWords,           \* the encodings the input may have
          MaxRecords,           \* bound on the number of records
          Distances,            \* of the records to a query, by position
          Unbounded,            \* FLT_MAX
          K,                    \* the k of a query for several neighbours
          MaxRestarts           \* bound on the number of crashes

ASSUME SegmentsAssumption == Segments # {}
ASSUME BitsAssumption == Bits \in Nat \ {0}
ASSUME MaxLeafSizeAssumption == MaxLeafSize \in Nat \ {0}
ASSUME FblBufferAssumption == InitialFblBufferSize \in Nat \ {0}
\* With 0, find_empty_children returns at once and a query loads nothing.
ASSUME TotalLoadedLeavesAssumption == TotalLoadedLeaves \in Nat \ {0}
\* isax_index_settings_init: "Leaf buffers should be at least as big as leafs."
ASSUME LeafBufferAssumption == InitialBufferSize >= MaxLeafSize

\* max_total_buffer_size: isax_index_settings_init counts in it the partial
\* records that need as much memory as so many full ones.
MaxTotalBufferSize == (FullRecordSize * MaxFullBufferSize) \div PartialRecordSize

Words == [Segments -> [1 .. Bits -> {0, 1}]]
Masks == [Segments -> {0, 1}]
ASSUME InputAssumption == InputWords \subseteq Words
MaskOf(sax) == [s \in Segments |-> sax[s][1]]
\* A soft buffer is reached by the number its mask stands for.
ASSUME MasksAssumption ==
    /\ MasksInOrder \in Seq(Masks)
    /\ \A m \in Masks : \E n \in DOMAIN MasksInOrder : MasksInOrder[n] = m
    /\ \A k, n \in DOMAIN MasksInOrder : MasksInOrder[k] = MasksInOrder[n] => k = n

VARIABLES words,     \* the encodings of the records, by position
          hard,      \* the records in the hard buffer
          fbl,       \* the soft buffer of each mask
          roots,     \* the masks of the list that starts at first_node
          tree,      \* the nodes in memory
          files,     \* the leaf files, by name and kind
          index_idx, \* the nodes index_write has written, or NotWritten
          at,        \* the loop variables of flush_fbl: the buffer, 0 when it
                     \* is not running, and how many of its records are done
          adding,    \* the calls of add_record_to_node still to be made
          loading,   \* the leaves still to be loaded by the running call
          allocated_memory,
          phase,     \* "build" or "query"
          exited,    \* split_node has called exit(-1)
          restarts,  \* the crashes so far
          stale,     \* a crash has left a .full file the index read back has not
          torn,      \* the .full files a crash has left ending inside a record
          knn        \* the least distances of a query for several neighbours

vars == <<words, hard, fbl, roots, tree, files, index_idx, at, adding, loading,
          allocated_memory, phase, exited, restarts, stale, torn, knn>>
memory == <<hard, fbl, roots, tree, allocated_memory>>
calls == <<at, adding, loading>>

NoBox == <<>>             \* no filename, isax_values and isax_cardinalities
NotWritten == <<>>
NotFlushing == [j |-> 0, i |-> 0]
Root(mask) == <<mask>>

NoneFound == [n \in 1 .. K |-> Unbounded]    \* pqueue_bsf_init

NewSoftBuffer == [initialized |-> FALSE, records |-> <<>>, max |-> 0]

\* isax_leaf_node_init and isax_root_node_init.
NewLeaf == [is_leaf |-> TRUE, leaf_size |-> 0, buffer |-> NewBuffer, box |-> NoBox,
            has_full |-> FALSE, has_partial |-> FALSE, has_parent |-> TRUE,
            split_mask |-> [s \in Segments |-> 0], splitpoint |-> 0]

Init == /\ words = <<>> /\ hard = <<>> /\ roots = <<>>
        /\ fbl = [m \in Masks |-> NewSoftBuffer]
        /\ tree = <<>> /\ files = <<>> /\ index_idx = NotWritten
        /\ at = NotFlushing /\ adding = <<>> /\ loading = <<>> /\ allocated_memory = 0
        /\ phase = "build" /\ exited = FALSE /\ restarts = 0
        /\ stale = FALSE /\ torn = {} /\ knn = NoneFound

Nodes == DOMAIN tree
Leaves == {p \in Nodes : tree[p].is_leaf}
Parent(p) == Front(p)
Below(p, q) == IsPrefix(p, q)
Idle == at = NotFlushing /\ loading = <<>> /\ ~exited

-----------------------------------------------------------------------------
(* Building: insert_to_fbl, and flush_fbl as the steps of its loops.       *)

\* insert_to_fbl. The hard buffer has room for max_total_buffer_size records
\* and it is the caller who sees to that.
InsertToFbl(sax) ==
    LET m == MaskOf(sax)
        b == fbl[m]
        record == Len(words) + 1
    IN  /\ Idle /\ phase = "build"
        /\ Len(words) < MaxRecords /\ Len(hard) < MaxTotalBufferSize
        /\ words' = Append(words, sax)
        /\ hard' = Append(hard, record)
        /\ fbl' = [fbl EXCEPT ![m] =
               [initialized |-> TRUE,
                records |-> Append(b.records, record),
                max |-> IF Len(b.records) < b.max THEN b.max
                        ELSE IF b.max = 0 THEN InitialFblBufferSize ELSE 2 * b.max]]
        /\ IF b.initialized THEN UNCHANGED <<roots, tree>>
           ELSE /\ roots' = <<m>> \o roots
                /\ tree' = [p \in Nodes \cup {Root(m)} |->
                               IF p = Root(m) THEN [NewLeaf EXCEPT !.has_parent = FALSE] ELSE tree[p]]
        /\ UNCHANGED <<files, index_idx, calls, allocated_memory, phase, exited, restarts, stale, torn, knn>>

\* flush_fbl starts with the first soft buffer.
FlushFbl ==
    /\ Idle /\ phase = "build" /\ hard # <<>>
    /\ at' = [j |-> 1, i |-> 0]
    /\ UNCHANGED <<words, memory, files, index_idx, adding, loading, phase, exited, restarts, stale, torn, knn>>

Flushing == at.j \in DOMAIN MasksInOrder /\ adding = <<>> /\ ~exited
Current == MasksInOrder[at.j]
InBuffer == fbl[Current].records

\* The next record of the soft buffer goes to add_record_to_node.
AddFromBuffer ==
    /\ Flushing /\ at.i < Len(InBuffer)
    /\ at' = [at EXCEPT !.i = @ + 1]
    /\ adding' = <<[record |-> InBuffer[at.i + 1], mode |-> Partial,
                    from |-> Root(Current), again |-> FALSE]>>
    /\ UNCHANGED <<words, memory, files, index_idx, loading, phase, exited, restarts, stale, torn, knn>>

Branch(sax, split_mask, splitpoint) == sax[splitpoint][split_mask[splitpoint] + 1]

\* Where the loop of add_record_to_node ends when it starts at node from.
LeafFor(from, sax) ==
    CHOOSE p \in Leaves :
        /\ Below(from, p)
        /\ \A d \in Len(from) + 1 .. Len(p) :
               LET n == tree[SubSeq(p, 1, d - 1)] IN
               p[d] = Branch(sax, n.split_mask, n.splitpoint)

\* create_node_filename: the box that gives a leaf its name.
Box(sax, split_mask) == [s \in Segments |-> SubSeq(sax[s], 1, split_mask[s] + 1)]
InheritedMask(p) == IF Len(p) = 1 THEN [s \in Segments |-> 0] ELSE tree[Parent(p)].split_mask

\* The name of a leaf file: every value with its cardinality, and the suffix.
File(box, kind) == <<box, kind>>

ReadFile(f) == IF f \in DOMAIN files THEN files[f] ELSE <<>>

\* The fault of splitting one record too late.
IsFullTooLate(n) == n.leaf_size > MaxLeafSize

IsFull(n) == n.leaf_size >= MaxLeafSize

\* add_record_to_node finds room.
Store ==
    LET task == Head(adding)
        sax == words[task.record]
        p == LeafFor(task.from, sax)
    IN  /\ adding # <<>> /\ ~exited
        /\ ~IsFull(tree[p])
        /\ tree' = [tree EXCEPT
               ![p].box = IF @ = NoBox THEN Box(sax, InheritedMask(p)) ELSE @,
               ![p].buffer = AddToNodeBuffer(@, task.record, task.mode),
               ![p].leaf_size = @ + 1]
        /\ adding' = Tail(adding)
        /\ UNCHANGED <<words, hard, fbl, roots, files, index_idx, at, loading, allocated_memory,
                       phase, exited, restarts, stale, torn, knn>>

Tasks(records, mode, child) ==
    [n \in DOMAIN records |-> [record |-> records[n], mode |-> mode,
                               from |-> child[records[n]], again |-> TRUE]]

\* The fault of not reading the leaf's file.
SplitBufferOfMemory(p, child) ==
    Tasks(tree[p].buffer[TmpPartial].records, TmpPartial, child)
    \o Tasks(tree[p].buffer[TmpFull].records, TmpFull, child)
    \o Tasks(tree[p].buffer[Partial].records, Partial, child)
    \o Tasks(tree[p].buffer[Full].records, Full, child)

\* The split buffer in the order it is emptied, from its end: the records of
\* the .part file, the last one first, then those of the four buffers. (No
\* leaf has a .full file as long as records are added.)
SplitBuffer(p, child) ==
    Tasks(Reverse(ReadFile(File(tree[p].box, Partial))), TmpPartial, child)
    \o Tasks(tree[p].buffer[TmpPartial].records, TmpPartial, child)
    \o Tasks(tree[p].buffer[TmpFull].records, TmpFull, child)
    \o Tasks(tree[p].buffer[Partial].records, Partial, child)
    \o Tasks(tree[p].buffer[Full].records, Full, child)

FilesLeft(p) == Restrict(files, DOMAIN files \ {File(tree[p].box, Partial)})

Splittable(split_mask) == {s \in Segments : split_mask[s] + 1 <= Bits - 1}

\* split_node on segment s; the records come back through add_record_to_node,
\* each at the child its bit says, and the one that found the leaf full after
\* them, at the node that was split.
Split(s) ==
    LET task == Head(adding)
        p == LeafFor(task.from, words[task.record])
        split_mask == [InheritedMask(p) EXCEPT ![s] = @ + 1]
        child == [r \in DOMAIN words |-> Append(p, Branch(words[r], split_mask, s))]
        filed == Len(ReadFile(File(tree[p].box, Partial)))
    IN  /\ adding # <<>> /\ ~exited
        /\ IsFull(tree[p])
        /\ s \in Splittable(InheritedMask(p))
        /\ tree' = [q \in Nodes \cup {Append(p, 0), Append(p, 1)} |->
                       IF q = p THEN [tree[p] EXCEPT !.is_leaf = FALSE,
                                                     !.leaf_size = filed,
                                                     !.buffer = NewBuffer,
                                                     !.split_mask = split_mask,
                                                     !.splitpoint = s]
                       ELSE IF q \in Nodes THEN tree[q] ELSE NewLeaf]
        /\ files' = FilesLeft(p)
        /\ adding' = SplitBuffer(p, child) \o <<[task EXCEPT !.from = p]>> \o Tail(adding)
        /\ allocated_memory' = allocated_memory + filed * PartialRecordSize
        /\ UNCHANGED <<words, hard, fbl, roots, index_idx, at, loading, phase, exited, restarts, stale, torn, knn>>

\* No segment has a bit left: exit(-1), after the file has been removed and
\* while its records are in the split buffer only.
Exit ==
    LET task == Head(adding)
        p == LeafFor(task.from, words[task.record])
        same == [r \in DOMAIN words |-> p]
    IN  /\ adding # <<>> /\ ~exited
        /\ IsFull(tree[p])
        /\ Splittable(InheritedMask(p)) = {}
        /\ exited' = TRUE
        /\ files' = FilesLeft(p)
        /\ adding' = SplitBuffer(p, same) \o adding
        /\ tree' = [tree EXCEPT ![p].buffer = NewBuffer, ![p].leaf_size = 0]
        /\ UNCHANGED <<words, hard, fbl, roots, index_idx, at, loading, allocated_memory,
                       phase, restarts, stale, torn, knn>>

\* The fault of opening a leaf file "w+".
AppendedToNew(f, records) == records

\* flush_node_buffer opens a file "a+": it grows by the records flushed. All
\* that is read of a file is records of one size from its start: behind a record
\* that has been cut short there is none that begins where one is read.
Appended(f, records) ==
    ReadFile(f) \o (IF f \in torn THEN [n \in DOMAIN records |-> Garbage] ELSE records)

\* flush_subtree_leaf_buffers on one leaf: the flags say what its files hold.
Flagged(n) ==
    [n EXCEPT !.has_partial = @ \/ FlushedPartial(n.buffer) # <<>>,
              !.has_full = @ \/ FlushedFull(n.buffer) # <<>>]

\* The leaves ps of tree t after they have been flushed (those that have got a
\* name) and cleared by isax_index_clear_node_buffers, and the files.
TreeFlushed(t, ps) ==
    [p \in DOMAIN t |->
        IF p \notin ps THEN t[p]
        ELSE [(IF t[p].box = NoBox THEN t[p] ELSE Flagged(t[p]))
                 EXCEPT !.buffer = ClearNodeBuffer(@)]]
FlushedTo(kind, n) == IF kind = Full THEN FlushedFull(n.buffer) ELSE FlushedPartial(n.buffer)
FilesFlushed(t, ps) ==
    LET grown(kind) == {p \in ps : t[p].box # NoBox /\ FlushedTo(kind, t[p]) # <<>>}
        names == {File(t[p].box, Full) : p \in grown(Full)}
                 \cup {File(t[p].box, Partial) : p \in grown(Partial)}
    IN  [f \in DOMAIN files \cup names |->
            IF f \in names
            THEN Appended(f, FlushedTo(f[2], t[CHOOSE p \in ps : t[p].box = f[1]]))
            ELSE files[f]]

\* The fault of passing over the leaves below the root.
RootOnly(mask) == {p \in Leaves : p = Root(mask)}

LeavesOf(mask) == {p \in Leaves : p[1] = mask}

\* What flush_fbl does with a soft buffer after its records have been added:
\* flush the leaves below its root, clear their buffers and the soft buffer.
\* A buffer without records is passed over.
FlushBuffer ==
    /\ Flushing /\ at.i = Len(InBuffer)
    /\ at' = [j |-> at.j + 1, i |-> 0]
    /\ IF InBuffer = <<>> THEN UNCHANGED <<tree, files, fbl, allocated_memory>>
       ELSE /\ tree' = TreeFlushed(tree, LeavesOf(Current))
            /\ files' = FilesFlushed(tree, LeavesOf(Current))
            /\ fbl' = [fbl EXCEPT ![Current] = [@ EXCEPT !.records = <<>>, !.max = 0]]
            /\ allocated_memory' = 0
    /\ UNCHANGED <<words, hard, roots, index_idx, adding, loading, phase, exited, restarts, stale, torn, knn>>

\* The end of flush_fbl: the hard buffer is used again from its start.
Reset ==
    /\ at.j = Len(MasksInOrder) + 1 /\ ~exited
    /\ hard' = <<>>
    /\ at' = NotFlushing
    /\ UNCHANGED <<words, fbl, roots, tree, files, index_idx, adding, loading, allocated_memory,
                   phase, exited, restarts, stale, torn, knn>>

\* The caller has inserted all it wants to.
BuildEnds == /\ Idle /\ phase = "build" /\ hard = <<>>
             /\ phase' = "query"
             /\ UNCHANGED <<words, memory, files, index_idx, calls, exited, restarts, stale, torn, knn>>

-----------------------------------------------------------------------------
(* Querying: the loading of leaves, and what it flushes.                   *)

\* A leaf whose time series are not in memory or in its .full file.
Unloaded(n) == n.is_leaf /\ (n.has_partial \/ FlushedPartial(n.buffer) # <<>>)

LeftOf(p, q) == \E d \in 2 .. Len(p) : /\ d <= Len(q)
                                       /\ SubSeq(p, 2, d - 1) = SubSeq(q, 2, d - 1)
                                       /\ p[d] < q[d]

\* find_empty_children, without its limit.
EmptyChildren(p) == SetToSortSeq({q \in Leaves : Below(p, q) /\ Unloaded(tree[q])}, LeftOf)

Sibling(p) == Append(Parent(p), 1 - Last(p))
At(seq, n) == IF n \in DOMAIN seq THEN EmptyChildren(Root(seq[n])) ELSE <<>>

\* find_siblings: the unloaded leaves nearest to leaf c, at most
\* total_loaded_leaves. It climbs while there is a parent, and nodes that
\* index_read has made have none; from a root it goes on to the roots before
\* and after it in the list. (node_read leaves the back link of an inner root
\* unset, so that the walk to the left may find an end there or may take the
\* process down, before it has changed anything: Restart does that.)
FindSiblings(c) ==
    LET top == CHOOSE d \in 1 .. Len(c) :
                   /\ ~tree[SubSeq(c, 1, d)].has_parent
                   /\ \A e \in d + 1 .. Len(c) : tree[SubSeq(c, 1, e)].has_parent
        climbed == [n \in 1 .. Len(c) - top |->
                       EmptyChildren(Sibling(SubSeq(c, 1, Len(c) - n + 1)))]
        i == CHOOSE j \in DOMAIN roots : roots[j] = c[1]
        others == [n \in DOMAIN roots |-> At(roots, i - n) \o At(roots, i + n)]
        found == EmptyChildren(c) \o FlattenSeq(climbed)
                 \o (IF top = 1 THEN FlattenSeq(others) ELSE <<>>)
    IN  SubSeq(found, 1, IF Len(found) < TotalLoadedLeaves THEN Len(found)
                                                            ELSE TotalLoadedLeaves)

\* The order of the raw file, in which the time series are read.
ByPosition(records) ==
    LET sorted[n \in 0 .. Len(records)] ==
            IF n = 0 THEN <<>>
            ELSE InsertAt(sorted[n - 1],
                          Cardinality({k \in 1 .. n - 1 : records[k] <= records[n]}) + 1,
                          records[n])
    IN  sorted[Len(records)]
PartialFile(n) == IF n.has_partial THEN ReadFile(File(n.box, Partial)) ELSE <<>>

\* A leaf that isax_index_load_node has loaded: its partial records have moved
\* to the full buffers, and those of its .part file to the temporary one. The
\* file stays; only the flag is taken away.
Loaded(n) ==
    LET emptied == [n.buffer EXCEPT ![Partial].records = <<>>, ![TmpPartial].records = <<>>]
        full == AddAll(emptied, ByPosition(n.buffer[Partial].records), Full)
        all == AddAll(full, ByPosition(n.buffer[TmpPartial].records \o PartialFile(n)), TmpFull)
    IN  [n EXCEPT !.buffer = all, !.has_partial = FALSE]

ListedLeaves == {p \in Leaves : p[1] \in ToSet(roots)}

\* max_total_full_buffer_size: index_write keeps max_total_buffer_size only, and
\* index_read takes it for both.
FlushLimit == IF restarts = 0 THEN MaxFullBufferSize ELSE MaxTotalBufferSize

\* What the records of the .part files of these leaves need when they are loaded.
Allocation(ps) == FoldSet(LAMBDA q, n : n + FullRecordSize * Len(PartialFile(tree[q])), 0, ps)

\* isax_index_load_node from leaf p: the nodes when it has loaded the leaves it
\* finds, and the memory that has been allocated.
TreeLoaded(p) ==
    LET ps == ToSet(FindSiblings(p)) IN
    [q \in Nodes |-> IF q \in ps THEN Loaded(tree[q]) ELSE tree[q]]
AllocatedBy(p) == allocated_memory + Allocation(ToSet(FindSiblings(p)))

\* When the loaded records take more than max_total_full_buffer_size all leaves
\* are flushed: in one step, as nobody else is there to see them half flushed;
\* what is left when it does not come to the end is in KilledInFlush.
LoadNode(p) ==
    IF AllocatedBy(p) > FlushLimit
    THEN /\ tree' = TreeFlushed(TreeLoaded(p), ListedLeaves)
         /\ files' = FilesFlushed(TreeLoaded(p), ListedLeaves)
         /\ allocated_memory' = 0
    ELSE /\ tree' = TreeLoaded(p)
         /\ allocated_memory' = AllocatedBy(p)
         /\ UNCHANGED files

Loadable(n) == FlushedPartial(n.buffer) \o PartialFile(n)

\* The records whose distance calculate_node_distance compares with bsf: those
\* in memory, those of the .full file, and those it has to load.
Examined(n) ==
    FlushedFull(n.buffer)
    \o (IF n.has_full THEN ReadFile(File(n.box, Full)) ELSE <<>>)
    \o (IF Unloaded(n) THEN Loadable(n) ELSE <<>>)

\* The records by whose encodings calculate_minimum_distance bounds the
\* distance to a leaf (when there are no wedges); it takes the box when there
\* are none.
Bounding(n) == PartialFile(n) \o FlushedPartial(n.buffer)

\* calculate_node_distance(_SIMD): the leaf is loaded unless it has been.
CalculateNodeDistance(p) ==
    /\ Idle /\ phase = "query"
    /\ Unloaded(tree[p])
    /\ LoadNode(p)
    /\ UNCHANGED <<words, hard, fbl, roots, index_idx, calls, phase, exited, restarts,
                   stale, torn, knn>>

\* The fault of moving one place too few.
BsfInsertShort(q, d) ==
    LET i == CHOOSE n \in 1 .. K : d <= q[n] /\ \A m \in 1 .. n - 1 : d > q[m] IN
    [n \in 1 .. K |-> IF n < i \/ n = K THEN q[n] ELSE IF n = i THEN d ELSE q[n - 1]]

\* pqueue_bsf_insert: d goes before the first that is not less, the last falls out.
BsfInsert(q, d) ==
    LET i == CHOOSE n \in 1 .. K : d <= q[n] /\ \A m \in 1 .. n - 1 : d > q[m] IN
    [n \in 1 .. K |-> IF n < i THEN q[n] ELSE IF n = i THEN d ELSE q[n - 1]]

LoadedFrom(p) ==
    ByPosition(FlattenSeq([n \in DOMAIN FindSiblings(p) |-> Loadable(tree[FindSiblings(p)[n]])]))

Offered(records) ==
    FoldLeft(LAMBDA q, r : IF Distances[r] <= q[K] THEN BsfInsert(q, Distances[r]) ELSE q, knn, records)

\* isax_index_load_node_topk: the same loading; every record that is loaded
\* is offered to the k least distances.
LoadNodeTopk(p) ==
    /\ Idle /\ phase = "query"
    /\ Unloaded(tree[p])
    /\ LoadNode(p)
    /\ knn' = Offered(LoadedFrom(p))
    /\ UNCHANGED <<words, hard, fbl, roots, index_idx, calls, phase, exited, restarts, stale, torn>>

LeftmostLeaf(mask) == CHOOSE p \in Leaves : p[1] = mask /\ \A d \in 2 .. Len(p) : p[d] = 0

\* load_random_leaf: the leftmost leaf of every root but the first.
LoadRandomLeaf ==
    /\ Idle /\ phase = "query" /\ roots # <<>>
    /\ loading' = [n \in DOMAIN Tail(roots) |-> LeftmostLeaf(Tail(roots)[n])]
    /\ UNCHANGED <<words, memory, files, index_idx, at, adding, phase, exited, restarts, stale, torn, knn>>

LeavesFrom(mask) == SetToSortSeq(LeavesOf(mask), LeftOf)
EveryLeaf == FlattenSeq([n \in DOMAIN roots |-> LeavesFrom(roots[n])])
ThenFlush == <<>>    \* the end of a list of leaves, after which all are flushed

\* complete_index_leafs: load from every leaf, then flush all of them.
CompleteIndexLeafs ==
    /\ Idle /\ phase = "query"
    /\ loading' = Append(EveryLeaf, ThenFlush)
    /\ UNCHANGED <<words, memory, files, index_idx, at, adding, phase, exited, restarts, stale, torn, knn>>

Load == /\ loading # <<>> /\ Head(loading) # ThenFlush
        /\ LoadNode(Head(loading))
        /\ loading' = Tail(loading)
        /\ UNCHANGED <<words, hard, fbl, roots, index_idx, at, adding, phase, exited, restarts, stale, torn, knn>>

\* flush_all_leaf_buffers
FlushAll == /\ loading # <<>> /\ Head(loading) = ThenFlush
            /\ tree' = TreeFlushed(tree, ListedLeaves)
            /\ files' = FilesFlushed(tree, ListedLeaves)
            /\ allocated_memory' = 0
            /\ loading' = Tail(loading)
            /\ UNCHANGED <<words, hard, fbl, roots, index_idx, at, adding, phase, exited, restarts,
                           stale, torn, knn>>

-----------------------------------------------------------------------------
(* Writing and reading the index.                                          *)

\* node_write: what is kept of a node. The records of its buffers are not.
Written(n) ==
    IF n.is_leaf
    THEN [is_leaf |-> TRUE, box |-> n.box, leaf_size |-> n.leaf_size,
          has_full |-> n.has_full, has_partial |-> n.has_partial]
    ELSE [is_leaf |-> FALSE, box |-> n.box,
          splitpoint |-> n.splitpoint, split_mask |-> n.split_mask]

\* The fault of not reading the flag of the .full file.
ReadBackWithoutFull(w) ==
    IF w.is_leaf
    THEN [NewLeaf EXCEPT !.has_parent = FALSE, !.box = w.box,
              !.leaf_size = w.leaf_size, !.has_partial = w.has_partial]
    ELSE [NewLeaf EXCEPT !.has_parent = FALSE, !.box = w.box, !.is_leaf = FALSE,
              !.splitpoint = w.splitpoint, !.split_mask = w.split_mask]

\* node_read: a node with empty buffers and no parent.
ReadBack(w) ==
    IF w.is_leaf
    THEN [NewLeaf EXCEPT !.has_parent = FALSE, !.box = w.box,
              !.leaf_size = w.leaf_size, !.has_full = w.has_full, !.has_partial = w.has_partial]
    ELSE [NewLeaf EXCEPT !.has_parent = FALSE, !.box = w.box, !.is_leaf = FALSE,
              !.splitpoint = w.splitpoint, !.split_mask = w.split_mask]

\* The caller's duty: what is in memory only does not get into the file.
AllFlushed == \A p \in Leaves : \A m \in Modes : tree[p].buffer[m].records = <<>>

\* index_write: the nodes below the initialized soft buffers.
IndexWrite ==
    /\ Idle /\ phase = "query" /\ AllFlushed
    /\ index_idx' = [p \in {q \in Nodes : fbl[q[1]].initialized} |-> Written(tree[p])]
    /\ index_idx' # index_idx
    /\ UNCHANGED <<words, memory, files, calls, phase, exited, restarts, stale, torn, knn>>

RootsRead(masks) == Reverse(SelectSeq(MasksInOrder, LAMBDA m : m \in masks))

\* A buffer of whose full records only the first n get into the file.
CutAt(n, buffer) == [NewBuffer EXCEPT ![Full].records = SubSeq(FlushedFull(buffer), 1, n)]

\* The order of flush_all_leaf_buffers: root after root, leaf after leaf.
FlushedBefore(q, p) ==
    \/ q[1] = p[1] /\ LeftOf(q, p)
    \/ \E i, j \in DOMAIN roots : i < j /\ roots[i] = q[1] /\ roots[j] = p[1]

\* A flush of tree t that does not come to its end. The file of each leaf is
\* opened, written and closed before the next; that of leaf p has got n whole
\* records and, if it is cut, the start of another. (All that is flushed once
\* there is an index.idx is full.)
LeftBehind(t) ==
    \E p \in ListedLeaves, cut \in BOOLEAN :
        LET all == Len(FlushedFull(t[p].buffer)) IN
        /\ t[p].box # NoBox
        /\ \E n \in 0 .. all :
               /\ cut => n < all
               /\ files' = FilesFlushed([t EXCEPT ![p].buffer = CutAt(n, @)],
                                         {q \in ListedLeaves : q = p \/ FlushedBefore(q, p)})
        /\ torn' = IF cut THEN torn \cup {File(t[p].box, Full)} ELSE torn

\* The process is in the flush that a load or complete_index_leafs ends with.
KilledInFlush ==
    \/ \E p \in Leaves :
          /\ (Idle /\ Unloaded(tree[p])) \/ (loading # <<>> /\ Head(loading) = p)
          /\ AllocatedBy(p) > FlushLimit
          /\ LeftBehind(TreeLoaded(p))
    \/ /\ loading # <<>> /\ Head(loading) = ThenFlush
       /\ LeftBehind(tree)

\* The process ends, wherever it is, and a new one calls index_read: it meets
\* the roots in the order of the masks and puts each in front of the list.
Restart ==
    LET masks == {p[1] : p \in DOMAIN index_idx} IN
    /\ index_idx # NotWritten
    /\ restarts < MaxRestarts
    /\ restarts' = restarts + 1
    /\ UNCHANGED <<files, torn>> \/ KilledInFlush
    /\ stale' = (stale \/ \E p \in DOMAIN index_idx :
                   LET w == index_idx[p] IN
                   w.is_leaf /\ ~w.has_full /\ File(w.box, Full) \in DOMAIN files' \cup torn')
    /\ tree' = [p \in DOMAIN index_idx |-> ReadBack(index_idx[p])]
    /\ roots' = RootsRead(masks)
    /\ fbl' = [m \in Masks |-> [NewSoftBuffer EXCEPT !.initialized = m \in masks]]
    /\ hard' = <<>>
    /\ allocated_memory' = 0
    /\ at' = NotFlushing /\ adding' = <<>> /\ loading' = <<>>
    /\ knn' = NoneFound
    /\ UNCHANGED <<words, index_idx, phase, exited>>

Stop == exited /\ UNCHANGED vars

Next == \/ \E sax \in InputWords : InsertToFbl(sax)
        \/ FlushFbl \/ AddFromBuffer \/ Store \/ (\E s \in Segments : Split(s)) \/ Exit
        \/ FlushBuffer \/ Reset \/ BuildEnds
        \/ \E p \in Leaves : CalculateNodeDistance(p) \/ LoadNodeTopk(p)
        \/ LoadRandomLeaf \/ CompleteIndexLeafs \/ Load \/ FlushAll
        \/ IndexWrite \/ Restart \/ Stop

Spec == Init /\ [][Next]_vars
-----------------------------------------------------------------------------
(* Properties.                                                             *)

\* The records in the buffers of a leaf, and those in the files it has.
Buffered(n) == FlushedFull(n.buffer) \o FlushedPartial(n.buffer)
Filed(n) == PartialFile(n) \o (IF n.has_full THEN ReadFile(File(n.box, Full)) ELSE <<>>)
Stored(n) == Buffered(n) \o Filed(n)

Waiting == UNION {ToSet(fbl[m].records) : m \in Masks}
InHand == {adding[n].record : n \in DOMAIN adding}

\* Types; a leaf counts its records, in memory and on disk, and has never more
\* than max_leaf_size, for which the split buffer and the four buffers have
\* been allocated: none of them ever grows (the one whose growth is wrong
\* above all). Unless split_node has given up in the middle, a flag is set
\* only while there is a file of that name.
TypeOK ==
    /\ phase \in {"build", "query"} /\ exited \in BOOLEAN
    /\ ToSet(hard) \subseteq DOMAIN words
    /\ Nodes # {} => \A p \in Nodes : Len(p) > 1 => Parent(p) \in Nodes \ Leaves
    /\ \A p \in Leaves :
           LET n == tree[p] IN
           /\ n.leaf_size <= MaxLeafSize
           /\ ~exited /\ ~stale => n.leaf_size = Len(Stored(n))
           /\ \A m \in Modes : n.buffer[m].max \in {0, InitialBufferSize}
           /\ ~exited => /\ n.has_partial => File(n.box, Partial) \in DOMAIN files
                         /\ n.has_full => File(n.box, Full) \in DOMAIN files

\* The leaf an encoding belongs to.
Home(sax) == LeafFor(Root(MaskOf(sax)), sax)

\* A leaf whose .full file ends in a record that a kill inside a flush has cut
\* short, and that has been flushed to it again.
Damaged(n) == n.has_full /\ File(n.box, Full) \in torn

\* As long as the program has not given up, no record is missing: it waits in a
\* soft buffer, is on its way between the nodes, or is in the memory or the
\* flagged files of a leaf. This holds however the rounds of insertion and
\* the splits of leaves on disk follow each other, and whatever the process
\* had loaded and flushed since index_write when it was killed, with one
\* exception: of a leaf whose .full file a kill has cut inside a record the
\* next process reads back less than it has flushed, and other things.
NothingMissing ==
    LET stored == UNION {ToSet(Stored(tree[p])) : p \in Leaves}
        damaged == {p \in Leaves : Damaged(tree[p])}
    IN  ~exited =>
            /\ \A r \in DOMAIN words :
                   r \in Waiting \cup InHand \cup stored \/ Home(words[r]) \in damaged
            /\ Waiting \cup InHand \cup stored
                   \subseteq DOMAIN words \cup (IF damaged = {} THEN {} ELSE {Garbage})

\* No leaf holds a record twice, over rounds, splits, loading and clean
\* restarts. (A process that is killed after it has begun to flush what it had
\* loaded leaves a .full file the written index knows nothing of, and the next
\* one appends to it: there the property is not claimed.)
StoredOnce ==
    ~exited /\ ~stale =>
        \A p, q \in Leaves :
            /\ \A i, j \in DOMAIN Stored(tree[p]) :
                   i # j => Stored(tree[p])[i] # Stored(tree[p])[j]
            /\ p # q => ToSet(Stored(tree[p])) \cap ToSet(Stored(tree[q])) = {}

\* Between memory, files and index.idx each record is kept, unless a kill inside
\* a flush has cut it, and kept once, unless a kill has left a flush behind.
NothingLost == NothingMissing /\ StoredOnce

\* A record that is not temporary lies in the hard buffer; when flush_fbl lets
\* the hard buffer be used again no leaf points into it any more.
HardBufferHeld ==
    \A p \in Leaves : ToSet(tree[p].buffer[Full].records \o tree[p].buffer[Partial].records)
                          \subseteq ToSet(hard)

\* A query for a leaf looks at all the records that belong to it by the bits of
\* their encodings, wherever rounds, splits, loading and crashes have put them
\* (but for a damaged file), and at no other. When it bounds the distance by
\* encodings they are those of all of these records, and none of them is full:
\* the bound is never the least over some of them.
QuerySeesLeaf ==
    phase = "query" =>
        \A p \in Leaves :
            LET n == tree[p]
                mine == {r \in DOMAIN words : Home(words[r]) = p}
            IN  /\ ~Damaged(n) => ToSet(Examined(n)) = mine
                /\ Bounding(n) # <<>> => /\ ToSet(Bounding(n)) = mine
                                         /\ FlushedFull(n.buffer) = <<>> /\ ~n.has_full

\* Loading with k neighbours leaves the k least of the distances there were
\* and the distances of the leaves that have been loaded.
KnnLeast ==
    [][\A p \in Leaves : LoadNodeTopk(p) =>
          knn' = SubSeq(SortSeq(knn \o [n \in DOMAIN LoadedFrom(p) |-> Distances[LoadedFrom(p)[n]]],
                                LAMBDA a, b : a < b), 1, K)]_vars

-----------------------------------------------------------------------------
(* Each subtree implements EncodingTree, which knows nothing of files: its *)
(* leaves hold what is in their buffers, in their files and on its way to  *)
(* them. A record has there its place among those of its mask.             *)

OfMask(mask) == {r \in DOMAIN words : MaskOf(words[r]) = mask}
Rank(r) == Cardinality({q \in OfMask(MaskOf(words[r])) : q <= r})
Reached == InHand \cup UNION {ToSet(Stored(tree[p])) : p \in Leaves}
InOrder(records) == SetToSortSeq(records, LAMBDA a, b : a < b)

AddedTo(mask) == LET records == InOrder(Reached \cap OfMask(mask)) IN
                 [n \in DOMAIN records |-> words[records[n]]]

\* The record of this mask flush_fbl has in hand.
InHandOf(mask) == {adding[n].record : n \in {k \in DOMAIN adding :
                      ~adding[k].again /\ adding[k].from[1] = mask}}
PendingAt(mask) == IF InHandOf(mask) = {} THEN 0 ELSE Rank(CHOOSE r \in InHandOf(mask) : TRUE)

\* The records of a split that are on their way to leaf p.
Coming(p) == {adding[n].record : n \in {k \in DOMAIN adding :
                 adding[k].again /\ p = LeafFor(adding[k].from, words[adding[k].record])}}

AsNode(p) ==
    LET n == tree[p]
        records == IF n.is_leaf THEN ToSet(Stored(n)) \cup Coming(p) ELSE {}
    IN  [is_leaf |-> n.is_leaf,
         leaf_size |-> IF n.is_leaf THEN n.leaf_size + Cardinality(Coming(p)) ELSE 0,
         buffer |-> InOrder({Rank(r) : r \in records}),
         box |-> IF n.box # NoBox \/ records = {} THEN n.box
                 ELSE Box(words[InOrder(records)[1]], InheritedMask(p)),
         split_mask |-> n.split_mask,
         splitpoint |-> n.splitpoint]

EmptySubtree == <<>> :> [is_leaf |-> TRUE, leaf_size |-> 0, buffer |-> <<>>, box |-> NoBox,
                         split_mask |-> [s \in Segments |-> 0], splitpoint |-> 0]

TreeBelow(mask) ==
    LET paths == {Tail(p) : p \in {q \in Nodes : q[1] = mask}} IN
    IF paths = {} THEN EmptySubtree ELSE [q \in paths |-> AsNode(Root(mask) \o q)]

Subtree(mask) == INSTANCE EncodingTree WITH
    RootBits <- mask, added <- AddedTo(mask), tree <- TreeBelow(mask),
    pending <- PendingAt(mask), exited <- (exited /\ InHandOf(mask) # {})

Intact(mask) == \A p \in Leaves : p[1] = mask => ~Damaged(tree[p])

\* Insertion, splitting on disk, flushing, loading, and a restart after
\* index_write do to each subtree what EncodingTree does in memory, or nothing,
\* as long as no leaf of it is damaged:
\* Subtree(mask)!Init /\ [][Subtree(mask)!Next]_(Subtree(mask)!vars), for all masks.
RefinesEncodingTree ==
    /\ \A mask \in Masks : Subtree(mask)!Init
    /\ [][\A mask \in Masks : Intact(mask) /\ Intact(mask)' =>
             UNCHANGED Subtree(mask)!vars \/ Subtree(mask)!Next]_vars
=============================================================================
