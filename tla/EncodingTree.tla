---------------------------- MODULE EncodingTree ----------------------------
(***************************************************************************)
(* One subtree of a DE-Tree: add_record_to_node and create_node_filename   *)
(* of isax_index.c, split_node and informed_split_decision of              *)
(* isax_node_split.c. IndexCreation shows that a single worker is in a     *)
(* subtree, so this module has no threads; it has one step per split.      *)
(*                                                                         *)
(* A node is named by its path: the empty path is the root, p \o <<0>> and *)
(* p \o <<1>> are the left and right child of p. A symbol of an encoding   *)
(* is its sequence of bits, the most significant first; a node's           *)
(* isax_values[s] at isax_cardinalities[s] bits is then a prefix of it.    *)
(* A record is named by its place in the order of insertion.               *)
(***************************************************************************)
EXTENDS Integers, Sequences, FiniteSets, SaxBits

CONSTANTS Segments,      \* 0 .. LSH_dimensionality - 1
          MaxLeafSize,   \* max_leaf_size
          RootBits,      \* the top bits all records of this subtree share
          MaxRecords     \* bound on the number of records

ASSUME SegmentsAssumption == Segments # {}
ASSUME MaxLeafSizeAssumption == MaxLeafSize \in Nat \ {0}
ASSUME RootBitsAssumption == RootBits \in [Segments -> {0, 1}]

Symbols == [1 .. Bits -> {0, 1}]
Words == {sax \in [Segments -> Symbols] : \A s \in Segments : sax[s][1] = RootBits[s]}

VARIABLES added,     \* the words of the records so far, in insertion order
          tree,      \* the nodes, by path
          pending,   \* the record add_record_to_node is at, or None
          exited     \* split_node has called exit(-1)

vars == <<added, tree, pending, exited>>

None == 0        \* no record: they are numbered from 1
NoBox == <<>>    \* isax_values and isax_cardinalities are NULL
Root == <<>>

\* A new buffer, one that has got another record (add_to_node_buffer for a
\* record in memory, with room made by realloc), and a destroyed one. The
\* records themselves stay where the soft buffers have them.
EmptyBuffer == <<>>
Stored(buffer, record) == Append(buffer, record)
Destroyed == <<>>

\* isax_leaf_node_init; mask and point have a meaning in inner nodes only.
NewLeaf == [is_leaf |-> TRUE, leaf_size |-> 0, buffer |-> EmptyBuffer, box |-> NoBox,
            split_mask |-> [s \in Segments |-> 0], splitpoint |-> 0]

Init == /\ added = <<>>
        /\ tree = [p \in {Root} |-> NewLeaf]
        /\ pending = None
        /\ exited = FALSE

Nodes == DOMAIN tree
Leaves == {p \in Nodes : tree[p].is_leaf}
Parent(p) == SubSeq(p, 1, Len(p) - 1)

\* The bit by which an inner node with this split_mask sends a record right.
Branch(sax, split_mask, splitpoint) == sax[splitpoint][split_mask[splitpoint] + 1]

\* A record that is looked for or added passes through node p.
OnRoute(p, sax) ==
    \A d \in 1 .. Len(p) :
        LET n == tree[SubSeq(p, 1, d - 1)] IN
        p[d] = Branch(sax, n.split_mask, n.splitpoint)

\* Where the loop of add_record_to_node ends.
LeafFor(sax) == CHOOSE p \in Leaves : OnRoute(p, sax)

\* create_node_filename: what the first record of a node makes of its box,
\* one bit per segment in the root, else the bits the parent has split on.
Box(sax, split_mask) == [s \in Segments |-> SubSeq(sax[s], 1, split_mask[s] + 1)]

\* The fault of taking every node for a root.
InheritedMaskZero(p) == [s \in Segments |-> 0]

\* The split_mask a node starts from when it is split.
InheritedMask(p) == IF p = Root THEN [s \in Segments |-> 0]
                                ELSE tree[Parent(p)].split_mask

\* The fault of leaving the last bit of each segment unused.
SplittableExceptLast(split_mask) == {s \in Segments : split_mask[s] + 1 < Bits - 1}

\* informed_split_decision may return any segment that has a bit left: which
\* one depends on the mean and deviation of the symbols.
Splittable(split_mask) == {s \in Segments : split_mask[s] + 1 <= Bits - 1}

-----------------------------------------------------------------------------
\* add_record_to_node is called with the next record.
Add(sax) == /\ ~exited /\ pending = None
            /\ Len(added) < MaxRecords
            /\ added' = Append(added, sax)
            /\ pending' = Len(added')
            /\ UNCHANGED <<tree, exited>>

\* The fault of splitting one record too late.
FullTooLate(n) == n.leaf_size > MaxLeafSize

\* The size check of add_record_to_node.
Full(n) == n.leaf_size >= MaxLeafSize

\* The records of a buffer that have this bit in segment s, in their order.
Moved(buffer, split_mask, s, side) ==
    LET moved[n \in 0 .. Len(buffer)] ==
            IF n = 0 THEN EmptyBuffer
            ELSE IF Branch(added[buffer[n]], split_mask, s) = side
                 THEN Stored(moved[n - 1], buffer[n])
                 ELSE moved[n - 1]
    IN  moved[Len(buffer)]

\* The leaf that has been given these records.
LeafOf(records, split_mask) ==
    [NewLeaf EXCEPT
        !.leaf_size = Len(records),
        !.buffer = records,
        !.box = IF records = EmptyBuffer THEN NoBox ELSE Box(added[records[1]], split_mask)]

\* The fault of split_node forgetting the record at index 0.
ChildWithoutFirst(buffer, split_mask, s, side) ==
    LeafOf(Moved(Tail(buffer), split_mask, s, side), split_mask)

\* What becomes of the leaf that is split.
Inner(leaf, split_mask, s) ==
    [leaf EXCEPT !.is_leaf = FALSE, !.leaf_size = 0, !.buffer = Destroyed,
                 !.split_mask = split_mask, !.splitpoint = s]

\* A child of a split: the records of the parent it gets, in their order.
Child(buffer, split_mask, s, side) == LeafOf(Moved(buffer, split_mask, s, side), split_mask)

\* split_node: the leaf becomes an inner node on segment s, its records move
\* to two new leaves, and its buffer is destroyed. The record that found it
\* full is looked at again, from this node down.
Split(s) ==
    LET p == LeafFor(added[pending])
        split_mask == [InheritedMask(p) EXCEPT ![s] = @ + 1]
        child(side) == Child(tree[p].buffer, split_mask, s, side)
    IN  /\ ~exited /\ pending # None
        /\ Full(tree[p])
        /\ s \in Splittable(InheritedMask(p))
        /\ tree' = [q \in Nodes \cup {Append(p, 0), Append(p, 1)} |->
                       IF q = p THEN Inner(tree[p], split_mask, s)
                       ELSE IF q = Append(p, 0) THEN child(0)
                       ELSE IF q = Append(p, 1) THEN child(1)
                       ELSE tree[q]]
        /\ UNCHANGED <<added, pending, exited>>

\* The fault of not looking at a splitpoint of -1.
ExitForgotten == FALSE

\* No segment has a bit left: "cannot split in depth more than", exit(-1).
Exit == LET p == LeafFor(added[pending]) IN
        /\ ~exited /\ pending # None
        /\ Full(tree[p])
        /\ Splittable(InheritedMask(p)) = {}
        /\ exited' = TRUE
        /\ UNCHANGED <<added, tree, pending>>

\* There is room: the first record of a leaf names it, then it is stored.
Store ==
    LET p == LeafFor(added[pending])
        sax == added[pending]
    IN  /\ ~exited /\ pending # None
        /\ ~Full(tree[p])
        /\ tree' = [tree EXCEPT
               ![p].box = IF @ = NoBox THEN Box(sax, InheritedMask(p)) ELSE @,
               ![p].buffer = Stored(@, pending),
               ![p].leaf_size = @ + 1]
        /\ pending' = None
        /\ UNCHANGED <<added, exited>>

\* The build is over, or the program has exited.
Stop == /\ exited \/ (pending = None /\ Len(added) = MaxRecords)
        /\ UNCHANGED vars

Next == \/ \E sax \in Words : Add(sax)
        \/ \E s \in Segments : Split(s)
        \/ Exit \/ Store \/ Stop

\* The loop over the records of a claimed buffer goes on until it is empty.
Spec == Init /\ [][Next]_vars /\ WF_vars(Next)
-----------------------------------------------------------------------------
(* Properties.                                                             *)

Elements(seq) == {seq[n] : n \in DOMAIN seq}
InBox(sax, box) == \A s \in Segments : SubSeq(sax[s], 1, Len(box[s])) = box[s]
Below(p, q) == Len(p) <= Len(q) /\ SubSeq(q, 1, Len(p)) = p

\* Types; the tree is closed under parents and siblings, inner nodes have
\* given up their buffer, leaf_size is what the buffer holds, and never more
\* than max_leaf_size: the split buffer has one place more than that.
TypeOK ==
    /\ added \in Seq(Words)
    /\ pending \in 0 .. Len(added)
    /\ exited \in BOOLEAN
    /\ Root \in Nodes
    /\ \A p \in Nodes \ {Root} :
           /\ Parent(p) \in Nodes \ Leaves
           /\ {Append(Parent(p), 0), Append(Parent(p), 1)} \subseteq Nodes
    /\ \A p \in Nodes :
           /\ tree[p].split_mask \in [Segments -> 0 .. Bits - 1]
           /\ tree[p].leaf_size = Len(tree[p].buffer)
           /\ tree[p].leaf_size <= MaxLeafSize
           /\ ~tree[p].is_leaf => tree[p].buffer = <<>> /\ tree[p].splitpoint \in Segments

\* However often leaves split, the leaves together hold every record that
\* was added, each exactly once.
NothingLost ==
    LET done == (1 .. Len(added)) \ {pending} IN
    /\ UNION {Elements(tree[p].buffer) : p \in Leaves} = done
    /\ \A p, q \in Leaves : \A m \in DOMAIN tree[p].buffer, n \in DOMAIN tree[q].buffer :
           tree[p].buffer[m] = tree[q].buffer[n] => p = q /\ m = n

\* A record is in the leaf where a later descent looks for it: split_node
\* and the descent of add_record_to_node read the same bit.
FoundWhereStored ==
    \A p \in Leaves : \A n \in Elements(tree[p].buffer) : LeafFor(added[n]) = p

\* The box of a node is taken from its first record only, yet every record
\* below the node is in it: to prune a node by the distance to its box never
\* prunes a record that is closer. traverse_subtree skips a child without
\* isax_cardinalities and reads those of every other node: the nodes without
\* are empty leaves.
BoxCoversSubtree ==
    /\ \A p \in Nodes : tree[p].box = NoBox <=> tree[p].is_leaf /\ tree[p].leaf_size = 0
    /\ \A p \in Nodes : \A q \in Leaves : Below(p, q) =>
           \A n \in Elements(tree[q].buffer) :
               tree[p].box # NoBox /\ InBox(added[n], tree[p].box)

\* No word is in the boxes of two leaves: the leaves share out the space.
LeavesDisjoint ==
    \A p, q \in Leaves : p # q /\ tree[p].box # NoBox /\ tree[q].box # NoBox =>
        \E s \in Segments :
            LET l == IF Len(tree[p].box[s]) < Len(tree[q].box[s])
                     THEN Len(tree[p].box[s]) ELSE Len(tree[q].box[s])
            IN  SubSeq(tree[p].box[s], 1, l) # SubSeq(tree[q].box[s], 1, l)

\* Neither a descent by bits nor pruning by boxes misses a record.
SearchReaches == FoundWhereStored /\ BoxCoversSubtree /\ LeavesDisjoint

\* The program gives up only on data no tree of this kind can hold: more than
\* max_leaf_size records with one and the same encoding.
ExitOnlyOnEqualWords ==
    exited => Cardinality({n \in 1 .. Len(added) : added[n] = added[pending]}) > MaxLeafSize

\* A record that is added is stored, or the program exits: the re-insertions
\* after splits come to an end although a split may move all records one way.
InsertionEnds == [](pending # None => <>(pending = None \/ exited))
=============================================================================
