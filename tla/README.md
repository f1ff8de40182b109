# A TLA+ model of DET-LSH

DET-LSH answers approximate nearest-neighbour queries: `n` points are projected
`l_size` times by LSH, each projection is encoded and indexed in a *DE-Tree*
(an iSAX tree), and a query collects the points of the nearest leaves of all
trees as candidates for an exact k-NN search. This directory models the control
of that program in TLA+ and checks it with TLC on small instances. With TLAPS it
proves the main facts about the parallel build, the tree, the range search, the
heap, both candidate steps, the encoding, the distances and the answers and
recall of `main`, for every number of threads, records, buffers, heaps and points,
every tree, every table of breakpoints and every command line. It also models the part of the index library that keeps a
tree on disk, which the program is built with and does not call. Paths are
relative to the repository; `PROJECT.json` maps every definition to the lines it
translates.

## 1. The system

    main (DETLSH.cpp)
      options -> num_thread, N_PQUEUE, sizes
      breakpoints_selection        (pthreads + barrier)
      for each of l_size trees:
        index_creation             (pthreads: encode | barrier | move into trees)
          add_record_to_node, split_node      one worker per subtree, no lock
      for each query:
        for each tree: range_search_lsh       (pthreads, N_PQUEUE heaps)
        candidate step: merge the heaps       (1 thread)  or
                        OpenMP marking + fill (several threads)
        exact k-NN over nodes[q_loaded]
      recall against the ground truth file

    the library beside it (isax_index.c, isax_first_buffer_layer.c)
      rounds of insert_to_fbl, each ended by flush_fbl
                                   -> add_record_to_node, split_node, leaf files
      queries for leaves: isax_index_load_node, calculate_node_distance
      complete_index_leafs, index_write ... index_read by the next process

| Part | State it keeps | Operations | Talks to | What is hard |
|---|---|---|---|---|
| Index construction (`indexing_support.c`) | soft buffers with one slot per worker, root list, mutex, barrier, claim counter | encode and store, create buffer and root, claim a buffer, move its records | calls the tree; its root list is what range search walks | double-checked locking, phases separated only by a barrier, lock-free subtrees |
| DE-Tree (`isax_index.c`, `isax_node_split.c`) | nodes with box, mask and buffers | descend, store, split | called by the build, read by range search | repeated splits, boxes fixed by the first record, end of the bits |
| Range search (`query_support.c`) | claim counter, heaps under mutexes | claim a root, prune, descend, insert a leaf | reads the trees, fills the heaps | shared heaps, leaves claimed once, nothing near dropped |
| Priority queue (`pqueue.c`) | array heap, places of elements | insert, pop, change priority, remove | used by range search and candidate step | the sifts, growth |
| Candidate step, one thread (`DETLSH.cpp`) | head of every heap, nearest head per tree, `nodes` | prime, round, stop | pops heaps, reads leaves | cached heads, exact limit |
| Candidate step, several threads (`DETLSH.cpp`) | bit vector, counters, stop flag | mark, count, stop, fill, copy | reads leaves | races on words of the bit vector, stop protocol |
| Breakpoints and encoding (`DETLSH.cpp`, `encoding_support.c`) | sample, breakpoints per dimension | sample, select, binary search | feeds the build | sample bounds, order of breakpoints |
| Leaf buffers (`isax_node_buffer.c`, `isax_node.c`) | four arrays per leaf | add, grow, flush, clear, destroy | used by the tree | growth at the limit, records that lie in the hard buffer and records that own their memory |
| First buffer layer on disk (`isax_first_buffer_layer.c`) | hard buffer, soft buffers, roots | insert a record, flush all | calls the tree, writes leaf files; not reached from `main` | splits of leaves that have a file, the hard buffer used again under the leaves |
| Loading and exact search on disk (`isax_index.c`) | leaf files and their flags, memory in use, k least distances | find siblings, load, flush all, complete, distance to a leaf | reads and writes leaf files; not reached from `main` | the flags against the files, a flush in the middle of loading |
| Options, query loop, ranking, recall (`DETLSH.cpp`) | settings, results of all queries | sequential calls | all of the above | zero and negative values, fewer results than k |
| Persistence (`isax_index.c`) | `index.idx` | write and read nodes and the index | not reached from `main` | a process killed after it has changed the leaf files and before it writes the index |
| Distance kernels (`DETLSH.cpp`, from faiss) | none | four AVX-512 distances, one scalar | used by the ranking | what is left over by the blocks of 16, 8 and 4 components |
| SAX conversions and helpers (`sax.c`, `ts.c`) | none | arithmetic | mostly without a caller | floating point only |

What makes each part correct:

- *Breakpoints and encoding*: the sample has no gap, every line is a value of the
  sample; a symbol lies between the lines the search measures it by, so that a
  node is taken to be no farther away than its points within the bounds of the
  sample, and than a point beyond them but by what it lies beyond.
- *Build*: every record reaches the subtree of its mask exactly once; no buffer
  is created twice; what phase 2 reads without a lock has stopped changing; a
  subtree belongs to one worker; the root list is complete; the call returns.
- *Tree*: splits lose nothing; a record is where a descent looks for it; a
  node's box contains everything below it (the search prunes by it);
  insertion ends.
- *Range search*: all leaves whose box is within the radius are found, each
  once; heaps are only touched under their lock; the call returns.
- *Heap*: it is a priority queue, whatever the sequence of operations.
- *Leaf buffers*: no array loses what it held when another grows.
- *Disk*: between soft buffers, leaves and files no record is missing or kept
  twice, through splits on disk, loading, flushing, writing and a restart from what
  has been written. After a crash with a flush begun or done and not yet written,
  no record is missing either, but for a leaf whose file has been cut inside a
  record, and a leaf may hold records twice. Nothing points into a hard buffer
  that is used again; a query sees all records of a leaf that is not so damaged;
  as a tree it is the one in memory.
- *Candidates*: the nearest leaves come first and no point comes twice; the
  limit holds with one thread; with several threads only what the races and the
  stop protocol allow is lost, and no more.
- *Kernels and ranking*: for every dimensionality and either kernel the points
  returned are the nearest of the candidates, in order.
- *Start-up and recall*: nothing outside a file is loaded whatever sizes are asked
  for; there is at least one thread; recall is 1 if all neighbours were found.

## 2. Modules

| Module | Models | Built on |
|---|---|---|
| `SaxBits` | the number of bits of a symbol | |
| `Bins` | the table of breakpoints, with its dimensions and lines | `SaxBits` |
| `Breakpoints` | the sampling and selection of the breakpoints, with their threads | `Bins` |
| `Encoding` | the encoding of a point, and the distance of a query from a node | `Bins`; takes any table `Breakpoints` may leave |
| `IndexCreation` | the parallel build, one step per access to shared memory | implements `IndexBuild` |
| `IndexBuild` | what a build promises, with no threads | |
| `IndexCreationProofs` | the theorems about `IndexCreation`, and that it implements `IndexBuild` | `InductionLemmas` |
| `EncodingTree` | one subtree: insertion and splitting | `SaxBits`; justified by `OneWorkerPerSubtree` |
| `EncodingProofs` | the theorems about `Breakpoints`, `Encoding` and `EncodingTree` | `InductionLemmas` |
| `NodeBuffer` | the four buffers of a leaf | |
| `DiskIndex` | the index on disk: rounds of insertion, loading, writing, crash and restart | `NodeBuffer`; each subtree implements `EncodingTree` |
| `DiskIndexProofs` | the theorems about `DiskIndex` | `InductionLemmas` |
| `RangeSearch` | one range query on one tree | pruning is justified by `BoxCoversSubtree` and, for points within the bounds of the sample, `NeverTooFar` |
| `RangeSearchProofs` | the theorems about `RangeSearch` | `TLAPS` |
| `PQueue` | the array heap | implements `PriorityQueue` |
| `PriorityQueue` | what a heap promises | |
| `SequentialCandidates` | the candidate step with one thread | implements `NearestLeaves`; uses heaps as `PriorityQueue` allows |
| `NearestLeaves` | what a candidate step promises | |
| `SequentialCandidatesProofs` | the theorems about `PQueue` and `SequentialCandidates`, and that they implement `PriorityQueue` and `NearestLeaves` | `InductionLemmas` |
| `ParallelCandidates` | the OpenMP candidate step | |
| `ParallelCandidatesProofs` | the theorems about `ParallelCandidates` | `InductionLemmas` |
| `Startup` | what `main` and the settings make of the options | |
| `Kernels` | the distance functions | |
| `QueryPipeline` | `main` from the command line to the recall | `Startup`, `Kernels`; the build, a range query and a candidate step are one action each, with any result the modules above show |
| `QueryPipelineProofs` | the theorems about `QueryPipeline` and `Kernels` | `InductionLemmas` |
| `InductionLemmas` | induction over numbers, recursion, the sizes of finite sets and a little arithmetic, as the proofs need them | `TLAPS` |
| `MC*` | the small instances | |

### How the state and the actions correspond to the code

**Breakpoints.** `Sample` is one iteration of `sampling_worker` (one record read
and scattered over the dimensions); `SelectLine` is one `nth_element` of the
inner loop of `breakpoints_selection_worker` with the line it stores, and
`FinishDimension` its last two lines. The two joins between the phases are
actions of the main thread. `nth_element` is modelled by its contract (any
rearrangement that puts the right value in place). Outside the contract it
is modelled by what libstdc++ does; the depth limit of introselect is not reached
at these sizes. The code does leave the contract: `sampled_data[i] + interval` is
passed as the nth position for every interval of a round, although the interval
begins at `start`, so that from the second interval on it lies at or before the
first element.

**Encoding.** `Probe` is one iteration of the binary search, `Emit` the symbol of
one dimension. The table is any function, ordered or not, because `Breakpoints`
can leave it unordered. `query_to_node_dist` is the operators `RegionLower` to
`LowerDistance`, with the numbers left abstract but for their order and squares;
`Power[n]` of `Bins` is `1 << n`, `BinsLowerBound` and its counterpart the bounds below the
first and above the last line. They are the least value in the first slice of the
sample and the greatest in its last slice, and data may lie beyond them: `Beyond`
is by how much.

**IndexCreation.** `pc[w]` is where worker `w` is in `index_creation_worker`;
"test" is the loop head of phase 1 together with the first, unlocked look at
`initialized`; "lock" is `pthread_mutex_lock` with the second look; "alloc",
"publish", "link" are the three parts of `insert_to_pRecBuf` under the mutex
whose order other workers can see; "clear" is the first root's reset of its own
links, which the code does *after* it has released the mutex; "count" is the
atomic increment of `root_nodes`; "append" stores the record in the worker's own
slot. "barrier", "claim" and "drain" are the barrier and phase 2. A root is
named by its buffer, and `mask` gives every record an arbitrary buffer, because
the encoding is a function of the data. The slot arrays of the three kinds
(`pos_records`, `sax_records`, `buffer_size`) move together and are one sequence.
The subtree of a root is the sequence of records it has received; what happens
inside is `EncodingTree`.

**EncodingTree.** A node is named by its path and a symbol is its sequence of
bits, so `isax_values[s]` at `isax_cardinalities[s]` bits is a prefix. `Add`
is a call of `add_record_to_node`; `Split` is one `split_node` with the
re-insertion of its records into the two new leaves; `Store` is the end of the
descent; `Exit` is the `exit(-1)` of a leaf that no segment can split.
Which segment a split takes depends on floating-point statistics
of the symbols: any segment that has a bit left may be taken. A leaf's buffer is
`EmptyBuffer`, what `Stored` has put at its end, and `Destroyed` once the leaf
has become an inner node. `Moved` is the loop with which `split_node` hands the
records of its split buffer to the two children, `LeafOf` the descent of
`add_record_to_node`.

**NodeBuffer.** A buffer is its records and the places that were allocated for
them. `AddToNodeBuffer` is `add_to_node_buffer` with the realloc of the wrong
array (isax_node_buffer.c:128, 131): what the temporary partial and the temporary
full buffer held is `Garbage` afterwards.

**DiskIndex.** `main` calls none of this code, so the model has a caller that
keeps to the order the library needs: it inserts records in rounds, each ended by
`flush_fbl`; then it queries, completes the leaves and writes the index. `at` is
the two loop variables of `flush_fbl`, the soft buffer and the record in it:
`AddFromBuffer` is a turn of the inner loop, `FlushBuffer` what follows that loop,
`Reset` the end of the function. `adding` is the calls of `add_record_to_node`
that are still to be made, for the record of the loop and, after a split, for
those of the split buffer; `loading` is the leaves `load_random_leaf` and
`complete_index_leafs` have still to load. So a split sees the tree the records
before it have left. `Store`
and `Split` are the two ways of `add_record_to_node`; a split takes the records
of the leaf's file and of its four buffers in the order in which `split_node`
puts them into its split buffer, removes the file and hands each record to the
child its bit names. A leaf file is found by the box of the leaf and its kind
(`.part` or `.full`). `LoadNode` is `isax_index_load_node` with `find_siblings`:
it moves partial records to the full buffers, keeps the `.part` file and drops
the flag, and flushes every leaf when the loaded records exceed `FlushLimit`
(after `index_read` that is another number, because `index_write` keeps only one
of the two limits). `IndexWrite` keeps what `node_write` keeps, which is not the
records in memory: `AllFlushed` is the caller's duty. From the first
`index_write` on, `Restart` may happen in every state: the process is gone and a
new one starts with `index.idx` and the leaf files as they are.

A flush that comes to its end is part of the step that flushes, because nobody
reads a file between two leaves of it. One that does not is `KilledInFlush`, an
alternative of `Restart`: `flush_all_leaf_buffers` goes from root to root and from
leaf to leaf (`FlushedBefore`), and `flush_node_buffer` opens a file, writes to it and
closes it before the next. So the leaves before some leaf `p` have their files, those
after it have not, and the file of `p` has got any number of whole records and
perhaps the start of one more (`LeftBehind`); stdio writes in chunks, so each of
these can be left. `torn` is the files that end inside a record. The next process
opens them with "a+" and reads them in records of fixed size from the start, so
what it appends is `Garbage` to a reader (`Appended`). `stale` says that a crash
has left a `.full` file the index does not name. `StoredOnce` is claimed up to
then. `NothingMissing` is claimed also afterwards, with one exception: a leaf
whose `.full` file is torn and has been flushed to again (`Damaged`) holds less
than it should. That is what this code does when it is killed there, and no test
or comment of it promises more.

**RangeSearch.** `stack[w]` holds the pending recursive calls of
`traverse_subtree`. `Reserve` and `Insert` are the two halves of
`pqueue_insert` (read `size`, write and store the new `size`), so that a heap
used without its lock would lose a leaf. Of a distance only "within
`search_radius` or not" matters; every consistent combination is an initial state.
The nodes are a forest with the roots of the list at its top (`ForestAssumption`);
`Above[n]` is the path from a root to `n`.

**PQueue.** `d` is the array from index 1, `pos` what `set_pos` has stored in
every element. `bubble_up` and `percolate_down` are loops, a turn (`Up`, `Down`)
being one exchange of the moving element with the one on its path; the code keeps
the moving element apart and writes it once, where it ends, which is the same
array after the last turn. `SubtreeIsValid` is
`subtree_is_valid`, with which the code's own `pqueue_is_valid` is the invariant.

**SequentialCandidates.** `result`, `queue_is_empty`, `mindist`, `num_queue` are
the arrays of the code. A round is one iteration of `while(1)`; `Added` is its
loop over the points of the leaf, with the test of the limit inside.

**ParallelCandidates.** `Read` and `Write` are the two halves of
`isCandidate[p] = true`: a `std::vector<bool>` keeps 64 points in a word, so the
assignment is a read and a write of the word. `Finish` is the locked
`finished_thread++`, `Test` the unlocked comparison after it. `Filled` is what the
second pass has marked when it ends: the first of the points that are left, in
the order of the leaves, up to the limit.

**QueryPipeline.** `pc` is where `main` is. `Option` and `UnknownOption` are
iterations of the option loop, `SetThreads` the affinity part, `InitSettings`
`isax_index_settings_init`, `LoadData`, `LoadQueries` and `LoadGroundTruth` the
three readers, each with its test of the sizes; `FileMissing` is their early
exit. `BuildTree` is one tree, `RangeQuery` one tree and query, `Candidates` and
`Rank` the second and third step of a query, `Report` the averages, `Recall` the
comparison of one query. `pc = "trap"` means that the program has run into
undefined behaviour or a division by zero; no property is claimed after it but
`TypeOK`. The leaf of a point in a tree is a constant, because the build does
not depend on the query; a range query may find any of the leaves that are not
empty, at any distance. With one thread the candidates are what `NearestLeaves`
allows, with several any subset of the points found, which includes all that
`ParallelCandidates` can do. A component that nobody has written is `Uninit`,
and what is read there may or may not equal what it is compared with. The ground
truth file is an input: the `Listed` nearest of each query, one row after the
other.

**Kernels, Startup.** A vector is a function on offsets and a register a
function on lanes; the four AVX-512 functions differ in the term and in how
lanes are combined, and are instances of one `Kernel`, to which the operations on
two numbers are arguments; `Wide` is its loop over the blocks of 16. `KernelsRight`
compares them with `InTurn`, one component after the other. `Startup` is the table of
`--cpu-type` and the two tests of the settings.

## 3. Runs

| Run | Question | Bounds, and why they are enough |
|---|---|---|
| `breakpoints` | Is the sample whole and is every line from it? | 3 workers, 7 points, a sample of 5, 2 dimensions, 2 bits, the three kinds of sampling: both divisions among workers have a remainder, one worker has no dimension. |
| `breakpoints_order` | Are the breakpoints in order? | one worker, one dimension, 16 points, 3 bits: **violated**, see section 6. |
| `encoding` | Is a symbol between its lines, and how far is pruning by it sound? | 8 symbols; in one dimension every table over 3 values, in the other a fixed one; 5 values for points and queries, one below and one above the bounds: equal lines, unordered lines, points on a line, outside all of them and beyond the bounds. |
| `creation` | Does the build implement `IndexBuild` and return, is the index complete, do the workers stay out of each other's data? | 2 workers, 3 records, 3 buffers, initial size 1, any mask for each record: slices of different lengths, both workers wanting one new buffer, a slot that grows, lists of up to three roots, empty and full slots in phase 2. |
| `tree` | Do splits lose, misplace or mis-box a record? Does insertion end, and does the program exit only on inseparable data? | All sequences of 3 of 16 words (2 segments, 3 bits), leaves of 2: repeated splits on either segment, empty children; three equal words make a chain of splits down to the last bit, and the exit. |
| `disk_index` | Does the index on disk lose or double a record, through rounds, splits of leaves with files, loading, flushing, writing and a crash, and what does a kill inside a flush damage? Does it implement the tree in memory? | One segment of 3 bits (two roots, up to four leaves each), leaves of 2, up to 4 records of 3 words, two of which differ in the last bit only: a leaf with a file is split, repeatedly, and three equal words reach the exit; a soft buffer that grows; at most 2 leaves per load, so that some stay unloaded; a memory limit that one loaded record keeps and two exceed, and another one after `index_read`; one crash, in any state after an `index_write` and at any point of a flush. A leaf of two records has a file that is missing, whole, short by one and cut in the first or the second. |
| `range_search` | Are all near leaves found, once? | 2 workers, 2 heaps, 3 subtrees of depth 0 to 2, every consistent set of near nodes and of empty leaves, every random first heap. |
| `pqueue` | Is the heap a priority queue? | 6 elements in three levels, 3 priorities (ties included). Six is the least size at which `pqueue_remove` must move the last element *up*. |
| `candidates_sequential` | Does the merge take the leaves in order, up to the limit? | 2 trees with 2 heaps each, any leaves found, at any of 3 distances, in any heap; trees share points; limit 4 of 5 points. |
| `candidates_parallel` | What may the OpenMP step lose? | 2 threads, up to 5 leaves, points of one word in leaves of both threads, limit 3: lost bits, a missed stop, a skipped leaf and a fill all occur. |
| `pipeline` | Are the points returned the nearest candidates, for every kernel and thread count? Is recall 1 when all neighbours were found? Is nothing read outside the files? | Command lines of up to 2 of 8 options: `--cpu-type` -1, 0, 1, 3 and 41; dimensionalities 3, 5, 12 and 31, which need each block of a kernel alone and all together, and 0, by which `load_data` divides; sizes that are negative, zero, smaller than the rest, larger than the file; 1 or 2 trees and queries; k above and below the candidates. `HeldOut` = 1 stands for the 100 records kept from the data file. |
| `candidates_limit` | Does it keep the documented limit? | as above, limit 2: **violated**, see section 6. |

Two workers are enough for the results of the build, and what a third could do
to their exclusion is covered by the proofs, which hold for every number.
One crash is a bound: after it the new process loads, flushes, completes and
writes the index again, but is not killed a second time. Symmetry is used in `pqueue` only, which has no
liveness property. Deadlock is
checked in every run: each module has an explicit step for "the call has
returned" and no other state may be without a successor.

### Fairness

Weak fairness of each worker: POSIX threads with the default policy run every
thread that can run, and a barrier or join returns when its condition holds.
A worker waiting for a mutex is only sure to get it if the others leave it free
in the end. They do: in the build each worker takes `lock_firstnode` at most
once per record, in the search each heap's mutex once per leaf, and both are
finite, so weak fairness is enough. The OpenMP team and the thread that goes on
after it are scheduled by the runtime; the single-threaded parts need only that
the program goes on running.

## 4. Proofs

Every theorem holds for all values of the constants that the named assumptions
of its module allow. The assumptions say no more than the code does: counts are
natural numbers, those that divide or index are positive, symbols have 1 to 8
bits, breakpoints and projections are integers, the nodes a search starts from
are a forest with its roots in the list, and so on; that the sample is taken from
the data is up to the caller (section 5). TLC evaluates them in the
runs. A theorem about a property of section 3 proves
`Spec => []Property` by an invariant that the steps preserve; the tables name it
and the part that had to be added to the property.

### The build (`IndexCreationProofs`)

| Theorem | States | Inductive invariant |
|---|---|---|
| `TypeCorrect` | `[]TypeOK`, with "no slot exceeds its capacity" | `TypeInv`: a worker past the loop test stands on a record of its slice (without that its buffer is undefined), and a worker that is not created is idle |
| `CreationIsExclusive` | `[]UsedAfterCreation` | with `TypeInv` inductive as it stands: the mutex holder alone is between the second look and the unlock, and `initialized` never returns to false |
| `PhasesStayApart` | `PhasesApart`, an action property | `BarrierInv`: if one worker has passed the barrier all have arrived, so no step of phase 1 is enabled beside phase 2 |
| `SubtreesAreExclusive` | `[]OneWorkerPerSubtree` | `ClaimInv`: every claimed buffer is below `node_counter`, so a fetch-and-add returns a buffer nobody has |
| `NothingLostInPhase1` | `[]StoredInOrder` | `SlotInv`: a buffer that is not initialized has empty slots, so its creation overwrites nothing; with `CreationIsExclusive` |
| `RootListRight` | `[]RootList` | `ListInv`: some sequence of distinct buffers is the list (`IsList`): its entries are the linked roots, the links follow it to the end, and it is as long as `root_nodes` and the workers about to count; a root not yet linked has no link |
| `MovedOnce` | `[]EachRecordOnce` | `BuildInv`, below |
| `BuildIsComplete` | `[]Complete` | `BuildInv`, below |
| `ThreadsImplementBuild` | the initial states are those of `IndexBuild`, and every step is one of its steps or a stutter | `BuildInv`, below |

`NothingLostInPhase1` is the reason for double-checked locking: creating a buffer resets
the slots of *all* workers, and would wipe out records if it could happen twice.

`RootList` follows links, which is a recursion; `ListInv` replaces it by the
sequence the links spell out. A new root goes in front, so that the sequence
grows at one end. The first root clears its links after it has released the
mutex, when others may be in front of it: it stays last, its own link is null
either way, and only the back link to its successor in time can be lost.

What is in a subtree while phase 2 runs is fixed by the slots, which
`PhasesStayApart` has frozen. `TreeInv` says it for the three states a buffer can
be in: not claimed, and its subtree is empty; being drained by `w`, and the
subtree holds exactly `Moved(w)`, the slots before the current one and the part
of the current one that `w` has passed; or finished, and the subtree holds exactly the
records of its mask and is flushed if there are any. That the subtree is in
the order of the file needs that the slices of the workers follow each other
(`SlicesMeet`, `SlicesCover`, from two facts about integer division), so that
whatever comes from a later slot comes later in the file. `Needed` says that a
created buffer holds a record or its creator is about to store one, for the
equivalence of "initialized" and "flushed"; `Account` that `total_records` is set
by the last join. The simulation follows: moving a record inserts one that is in
no subtree yet into that of its mask, the last join is the end of the build, when
every record is in, and every other step changes nothing `IndexBuild` sees.

### A subtree (`EncodingProofs`)

For any number of segments, bits and records and any leaf size.

| Theorem | States |
|---|---|
| `TypeCorrect` | `[]TypeOK`: nodes come with parent and sibling, inner nodes have no records, no leaf exceeds `max_leaf_size` |
| `RecordsKept` | `[]NothingLost` |
| `NeverMissed` | `[]SearchReaches`: descent and boxes lead to every record, and leaves have no word in common |
| `ExitJustified` | `[]ExitOnlyOnEqualWords` |

All four follow from one invariant, `TreeInv`. `Shape` and `Routes` say that the
nodes are a tree in which every word has one leaf: two leaves part at an inner
node above both. `Masks` says what a split may rely on: down a path the number of
bits split on only grows, and the words that take the path agree in those bits;
so the new bit of a split sends every word one way. `Held` puts the records on
their routes, each once, `Sizes` counts them. `Boxed` is what "the box is that of
the first record" comes to: it is the box of *some* word on the route, and by
`Masks` that is the box of all of them. For `Exit` the same fact is used at the
end of the bits: words that agree in all bits are equal. `Moved` is a recursive
function over the split buffer; `MovedFacts` shows by induction on its length that
each record is handed to the child of its bit once.

### The range search (`RangeSearchProofs`)

For any forest, any number of workers and heaps and any first heap.

| Theorem | States | Inductive invariant |
|---|---|---|
| `TypeCorrect` | `[]TypeOK`: pending calls name nodes with a box, a heap's number is in the array, the counter over the roots oversteps the list by at most one per worker | `TypeInv`: the counter is at most the length of the list and the number of workers that have gone past its end; a call is pushed only for a child with a box |
| `HeapsAreExclusive` | `[]QueueOwned` | `SearchInv`: with `TypeInv` it is inductive as it stands |
| `EachLeafOnce` | `[]FoundOnce` | `FoundInv`, below |
| `AllHitsFound` | `[]NoFalseDismissal` | `FoundInv`, below |

`FoundInv` looks at three places: the roots not yet claimed (`ToClaim`), the calls
every worker has still to make (`Todo`, its stack without the leaf it has just
inserted), and the heaps. `ApartTodos` and `ApartQueues` say that no node of one
is above or below a node of another, or of the same place: then no leaf can be
inserted twice. `NearSoFar` says that all boxes above a pending call were within
the radius: only hits are inserted. `Covered` says that every hit is in a heap or
below a node in one of the other two places: when these are empty, and `Idle`
says they are at the end, all hits are in the heaps. `Effects` reduces every step
of the module to five effects on these places (claim, prune, descend, insert,
none), so that the four parts are proved over five cases and not over the
program points. The facts about the forest come from `Above`, which is defined
without recursion as the intersection of all sets closed under parents.

### The heap (`SequentialCandidatesProofs`)

For any set of elements, any integer priorities and any initial size.

| Theorem | States |
|---|---|
| `HeapStaysRight` | `[]HeapRight`: `pqueue_is_valid`, every element at the place it carries, the array within its allocation |
| `ImplementsPriorityQueue` | `RefinesPriorityQueue`, whole: initial states, steps and stutters; `PriorityQueue` has no fairness |

The invariant `HeapInv` is the type invariant with `step >= 1` (or a full array
would not grow) and the order stated once per element, not per subtree. Within an
operation the order is broken at one place, and the sifts keep it so turn by turn:
`OrderedBelow` (all is in order but the moving element against its parent) for
`bubble_up`, `OrderedAbove` (but against its children) for `percolate_down`, each
with `Bridged` (the parent of the moving element is in order with its children,
without which the exchange would break the order behind it). The place moves
towards 1 or towards the end in every turn but the last, so that the loops end
within as many turns as there are elements. `pqueue_remove` and
`pqueue_change_priority` go up or down by one comparison, and the proof shows that
it picks the direction in which the order is broken.

### The candidate step, one thread (`SequentialCandidatesProofs`)

| Theorem | States |
|---|---|
| `TypeCorrect` | `[]TypeOK` |
| `ImplementsNearestLeaves` | the initial states are those of `NearestLeaves`, and every step is one of its steps or a stutter |

`MergeInv` says where a leaf can be (`Places`): used, in one heap, or the head of
one in `result`, and in one of them only; that the cached heads are right
(`HeadsRight`): `num_queue` and `mindist` are those of the nearest head of the
tree, a head is as near as all behind it, and a heap without a head is empty; and
that the candidates are distinct points of leaves, fewer than the limit as long as
the loop goes on (`NodesRight`). Then the leaf of a round is as near as any leaf
not used. What a round adds is a recursive function over the points of the leaf,
followed point by point (`Gathered`).

### The candidate step, several threads (`ParallelCandidatesProofs`)

For any number of threads, list of leaves, limit and layout of words.

| Theorem | States | Inductive invariant |
|---|---|---|
| `TypeCorrect` | `[]TypeOK` | `TypeInv`: `LoopInv`, and `Marks` (all that is marked, or in a word a thread is about to write back, comes from scanned leaves), and `Tallies` (what a thread counts is the number of places of the leaves it is done with) |
| `OnlyRacesLose` | `[]LostOnlyByWordRace` | `RaceInv`: a point passed is marked or has a racer, and the same goes for the word a thread has read and not yet written |
| `FillMakesUp` | `[]FillComplete` | `FillInv`: before the stop a leaf handed out is scanned or in a hand; after it fewer leaves than threads remain skipped |

`LoopInv` says that each leaf handed out is in one hand and is scanned by that
hand, and that `last_node_index_each_thread` is a leaf that thread has scanned.

### Distances (`EncodingProofs`)

`SelectionIsWhole` states `[]SelectionWhole` of `Breakpoints`: for every number of
threads, sampled records, dimensions and lines the sample has no gap and loses no
value, and every line of every dimension is a value of the sample. The invariant
`SelInv` says that the places filled so far hold what they should
(`SampledSoFar`; no two workers have a place in common, and when all are joined
the places of a value are matched one to one with the records that have it), that
the lines set so far are values of the sample (`LinesSoFar`), and so are the bins
of the finished dimensions (`BinsSoFar`). Which lines are set is arithmetic (`IsSet`): before
round `r` the multiples of `2^(Bits + 1 - r)`, of which the odd multiples of the
next lower power are the turns of round `r` (`RoundEnds`), so that after the last
round all are. Of `nth_element` the proof asks only that it rearranges
(`NthElementKeeps`): it holds for the calls outside the contract as well, and
whatever another standard library does there, as long as it loses nothing.
`BreakpointsAreProjections` draws the conclusion for the encoding, whose tables
are these (`bins` is one variable, of `Bins`, in both modules): what is left is a
whole table, and each breakpoint is the projection of some record.

`EncodingBrackets` states `[]SymbolBrackets`: at the end of
the encoding the value of a dimension lies between the two lines of its symbol,
whatever the number of bits and dimensions and however the table is ordered. The
inductive invariant keeps only what the search has compared: the line before the
interval is not above the value, the line after it is. Nothing is said of the
lines it has not looked at, so the order of the table is not needed.

`PruningWithinBounds` states `[]NeverTooFar`: at every cardinality the distance from a
query to the region of a symbol's prefix is at most the distance to the value and
what the value lies beyond the bounds of the sample, together. For a value within the bounds
that is the distance to the value, and nothing near is pruned. A value beyond them,
which any data set larger than its sample may have, is taken to be as far as the end
of its region or nearer, and a search may lose it; the theorem says by how much at
most. Nothing is asked of the two bounds.
`RegionInv` adds to the invariant above that the search halves exactly
(`Halving`): the symbols still possible are always one region of `2^h` symbols,
and each region of the prefixes around it has been compared at both ends. That is
why the lines that bound a prefix bracket the value too, though the lines between
them may be in any order; it needs that the number of symbols is a power of two.

### The answers of `main` (`QueryPipelineProofs`)

For every command line, any data, query and ground truth file, any number of trees
and any assignment of points to leaves.

| Theorem | States |
|---|---|
| `KernelsForEveryLength` | `KernelsRight` for every dimensionality and all integer vectors |
| `PipelineTypeCorrect` | `[]TypeOK`: nothing is loaded from outside a file, `nodes[q]` stays in its allocation while the program goes on, the recall is at most 1 |
| `AnswersAreExact` | `[]AnswersExact`: kernels and ranking, for every dimensionality and number of threads |
| `RecallIsComplete` | `[]RecallComplete` |

`KernelsForEveryLength`: `euclidean_distance`, used with one thread, and
`fvec_L2sqr_avx512`, used with several, are the same number, the other kernels are
their sums, and `fvec_Linf_avx512` is the greatest term. The four kernels are one
shape with two operations, and the proof asks of
them only what sums and greatest values share (`Monoid`: any order, any grouping,
0 adds nothing). The total of a register of 16 lanes is the total of its halves
added; a block added to a wide register is two blocks added to its halves
(`HalvedBlock`), down to four lanes (`FourMore`, `EightMore`, `SixteenMore`); so
after each block the total is the running total up to the next offset. The lanes
behind `masked_read` are zeros and add nothing. That numbers are exact is the
abstraction of section 5; the sums of floats may differ in the last digits.

The other three follow from one invariant of `main`, `PipelineInv`, which says at
which stage what the later ones take for granted has come to hold. `Unmade`:
nothing is there before its stage. `Held`: from the tests of the sizes on, the
points and queries lie in their files and the dimensionality is not 0; the numbers
are signed and the tests unsigned, and a negative size is larger than any file.
`AtQuery`: the loop variables point at a query that exists, and `nodes` has an
entry for each query ranked. `Chosen` and `Answered`: the candidates of a query,
and what has been ranked for each query before it, are distinct points, no more
than `max_candidate_size`, the first `k_size` of them in order of the *true*
distance; with one thread they are all the points found or as many as fit
(`Filled`). `Aligned`: if the rows of the ground truth are `k_size` long, the row of
a query is that of its neighbours. `Counted`: the sum so far is at most `k_size`
per query, and under the premise of `RecallComplete` it is exactly that: the
neighbours are a set without ties, all are among the candidates, and a list of
distinct points in order of distance that holds them begins with them
(`NearestFirst`), so each of the first `k_size` places is a hit and none is
doubtful.

### The index on disk (`DiskIndexProofs`)

For any number of segments, bits, records, rounds of insertion, leaves loaded at a
time, neighbours and crashes, and any leaf size and memory limit. Assumed are
that there is a segment (`SegmentsAssumption`), that the sizes and bits are
positive, that leaf buffers are as big as leaves, which
`isax_index_settings_init` demands (`LeafBufferAssumption`), and that
`MasksInOrder` lists each root mask once, as the numbers of the soft buffers do
(`MasksAssumption`).

| Theorem | States |
|---|---|
| `DiskTypeCorrect` | `[]TypeOK`: a leaf counts what it has in memory and on disk, never exceeds `max_leaf_size`, no buffer of it grows, and a flag is set only where there is a file |
| `NoRecordLost` | `[]NothingLost`: between soft buffers, calls, leaves and files every record is kept, but for a damaged leaf, and kept once until a crash leaves a `.full` file the index does not name |
| `HardBufferNeverReused` | `[]HardBufferHeld`: nothing in a leaf points into the hard buffer when `flush_fbl` gives it free |
| `QueryMissesNone` | `[]QuerySeesLeaf`: unless the leaf is damaged, a query looks at the records whose encodings lead to it and no others, and it bounds a leaf by all of them or by its box |

All four follow from one invariant, `DiskInv`, which has a part for each phase
over a common one. `Statics` is the tree: as for `EncodingTree`, each encoding
whose root exists has one leaf, the encodings on the route to a node agree in
the bits split on above it, and a box is that of one of them. What that is needed
for here is file names: two leaves with a name have boxes without a
common encoding, so they have different files (`NamesApart`), and removing or
growing the file of one leaf touches no other.

`Building` says where records are: one that has been inserted awaits its turn in
the soft buffer of its mask, or is in a call that is still to be made, at a node on its route
(`Calls`), or is in the partial buffers or the `.part` file of the leaf of its
encoding (`LeafBuild`), and it is in exactly one of these (`Kept` and the clauses
that exclude the others). The records of a leaf that do not own their memory are
among those the loop of `flush_fbl` has passed in the current soft buffer (`Given`), and that
buffer's leaves alone have anything in memory: hence the hard buffer is free when
the loop is over. A split is the hard step: file and buffers of a leaf become
calls, each at the child of its bit, in an order that the proof need not know,
only that nothing comes twice (`TasksFacts`). No buffer grows because a leaf that
is not full has fewer records than its buffers have places; the temporary
partial buffer, whose growth would lose records, is included.

`Querying` says of each leaf, with `Mine(p)` the records whose encodings lead to
it, that every file of it there is holds just these (`Complete`): that is why
it does not matter that a loaded leaf keeps its `.part` file, and why the flags of an
older `index.idx` still fit. Of the `.part` file, the `.full` file and the
temporary full buffer the flags make exactly one count. Loading moves the records from the
first to the third, a flush from the third to the second, for every leaf in memory at once. `WrittenInv` says the same for the nodes in
`index.idx`, with the files as they are *now*, which is what `Restart` needs
in any state; after it a `.full` file may be appended to a second time, and from
then on (`stale`) only the set of its records is claimed, not that it has each once.

Of a kill inside a flush it is enough to know, leaf by leaf (`AfterCrash`): the `.part`
file is as it was; the `.full` file, if there is one, holds none but records of
the leaf, unless it is torn and has been appended to; and a `.full` file the leaf was
flagged with is not written to, since a leaf that is flushed to it was loaded from
its `.part` file. `CrashFiles` shows this for any set of leaves whose files have grown,
`CutFacts` and `LeftFiles` for the leaf whose file was being written, `KilledFiles` for
the two calls a flush may belong to. The older `index.idx` names the `.part` file where the
`.full` file is new, so the nodes read are complete (`RestartStep`); a torn `.full` file
makes its leaf an exception only once it has been flushed to again.

When `split_node` gives up (`exited`) records may have been lost and no step follows;
`GivenUp` keeps what still holds, and that nothing has been written.

### Induction

The theorem modules of the library take the predicate of an induction as an
operator, which the provers cannot instantiate. `InductionLemmas` states what is
needed with sets instead: a set of numbers that has 0 and, with a number, the next
has all of them (`Induction`, from the well-foundedness of `<`), a set bounded above
has a greatest element, a function given step by step exists (`Recursion`), and
sizes of finite unions and ranges. What a recursive function of a module computes
is proved with them.

### Only model-checked

- liveness, and with it the liveness halves of `RefinesIndexBuild` and
  `RefinesNearestLeaves` and the termination properties: they need fairness and
  ENABLED, which TLAPS does not treat;
- of `DiskIndex`, `KnnLeast`, which compares a fold of insertions with a sort, two
  definitions over data of any length; and `RefinesEncodingTree`: its mapping sorts
  and ranks the records of a subtree, and most of a simulation would be about that.

## 5. Abstractions

- Memory: `malloc`, `realloc` and `pthread_create` succeed; frees are left out.
  Steps of a thread take effect in program order and are seen by all, as on the
  x86 machines (AVX, `-march=native`) the code is built for with a compiler that
  keeps the stores of `insert_to_pRecBuf` in order; `initialized` is a plain
  field in the code, and publication by it rests on that.
- Numbers: distances are compared only. Encodings are bits. Counters are
  unbounded; the sizes of the program keep them far from overflow.
- `Kernels` and `QueryPipeline` compute with exact integers: that a float sum
  depends on its order is left out, and with it which of two almost equal
  distances comes first.
- The records a sampling worker reads lie within the data (`RecordsAssumption` of
  `Breakpoints`), and there are at least as many as an alphabet has symbols. The
  code checks neither; both hold with the `0.1n` that the repository's README
  recommends for `--sample-size`, unless the data set is tiny.
- `QueryPipeline` takes any number of threads, queries and points, negative ones
  included. A number of trees, neighbours, candidates or dimensions that is negative
  is left out, and so is an index of no trees (`CommandLine`).
- With no points left to index (`--dataset-size` at most 100) the selection of
  breakpoints reads outside its arrays; `BuildTree` goes on with an empty tree.
- In `query_to_node_dist` a cast of `MAXFLOAT` and the shift that fills the low
  bits of the upper symbol are folded into `RegionUpper`.
- `SequentialCandidates` uses a heap as the set of its leaves, as
  `RefinesPriorityQueue` permits; `max_candidate_size` is positive, as the
  repository's README asks.
- In `EncodingTree` leaves have no files; `DiskIndex` has the split that reads a
  `.part` file. Left out is the branch that reads a `.full` file, since no leaf
  has one while records are added.
- A process killed inside a flush is modelled, a machine that goes down is not: what
  `fclose` has handed to the kernel is taken to stay, in the order it was written.
  Of a torn file nothing is said that depends on how many bytes of the last record
  are there: that a second kill may by chance bring what follows back into step
  is not told apart. A `.full` file that `fopen` has created and nothing has been
  written to counts as none.
- `DiskIndex` keeps the order of calls of its caller: nothing is inserted after
  leaves have been loaded or after `index_read`, where `split_node` would read
  a `.part` file whose records are in memory too. `IndexWrite` is one step:
  `index_write` truncates `index.idx` and writes it anew, and a process killed
  inside leaves a file of which nothing is promised. The back link of an inner
  root that `node_read` has made is unset; a walk along it that takes the process
  down is the crash of `Restart`.
- Of a query on disk only the records it looks at are modelled, and the least
  distances that `isax_index_load_node_topk` keeps. Wedges are left out:
  `create_wedges` and `calculate_minimum_distance` disagree on which of two values
  is the least and which the greatest, and only one component is compared.

Not modelled: the arithmetic of the LSH projection; `cache_sax_file`, the counts
of pages and the file "adaptive", which holds two statistics;
`index_mRecBuf_write`, whose files nothing reads, and `isax_index_destroy`;
SAX conversions and the helpers without a caller (`jaccard`, the popcounts, the
SIMD variant of the scalar distance, `pqueue_bsfre_insert`,
`flush_node_buffer_m`); the overall ratio, statistics and the progress bar; the
SIGINT handler; which arrays are freed when.

## 6. Where code and documentation differ

`candidates_limit`: README.md:91 calls `max-candidate-size` "the maximum number
of returned points", and `nodes[q_loaded]` is allocated for that many
(DETLSH.cpp:755). With several threads the marking loop marks every point of each
leaf it scans, threads stop only when all of them have passed
`max_candidate_size / num_thread`, and the copy at DETLSH.cpp:935 takes all
marked points. The run reaches a state with more candidates than the limit. Two
ways lead there: leaves that overshoot a thread's share, and `finished_thread`
stepping past `num_thread` because a thread counts itself again for each further
leaf, after which the equality never holds and all leaves are marked.

`breakpoints_order`: a comment in the encoding calls its loop a binary search
(encoding_support.c:152), which presumes ascending lines. The selection
(DETLSH.cpp:1206) halves intervals with `nth_element`, but passes
`sampled_data[i] + interval` as the position for every interval `[start, end)` of
a round where `start + interval` is read afterwards. From the second interval on
that position lies at or before the first element, libstdc++ then leaves the range
alone or partitions it elsewhere, and the run reaches a dimension whose lines are
not ascending.
`SymbolBrackets` and `NeverTooFar` show what does not depend on that order.

Met while reading, with no run of their own: `main` refuses a negative
`--cpu-type` with "threads number must greater than 0" (DETLSH.cpp:237-238) and
lets 0 pass, which becomes `num_thread` (541), by which `breakpoints_selection`
divides (1072; `pipeline` goes to its "trap" there); the help text lists "Other: 1 core
in 1 CPU" and code 181 as 18 cores (DETLSH.cpp:215-218), but any value without a
case of its own, 181 included, sets `num_thread` to the value itself (541); README
documents `--benchmark`, the program has `--groundtruth`; `find_siblings` compares
a pointer with zero where the value is meant (isax_index.c:600);
`split_node` reads the time series of a leaf's file into the buffer of the
encoding (isax_node_split.c:289); `node_read` sets no parent, and of an inner root not even the link to the root
before it; `index_write` keeps one of the two memory limits and `index_read` takes
it for both; a leaf that has been loaded keeps its `.part` file, which a later
`split_node` would read again; a full temporary partial
buffer is grown by `realloc` of the temporary *full* one (isax_node_buffer.c:128,
131); the ground truth is read `k_size` numbers per query whatever a row of the
file holds, so that rows and queries drift apart for another `k`; with
`--queries-size 0` the averages divide by zero (DETLSH.cpp:972).

## 7. Plan

The build came first because every later answer depends on it, then the tree
it fills, the search that reads it, the candidate steps, `main` around them, and
the index on disk; the proofs follow the same order. What is left:

1. `index_write` as the sequence of its writes, with a promise for a file that
   has been cut short, once the code makes one (a new file and a rename, say).
2. The `.full` branch of `split_node` and insertion after `index_read`, once the
   code says which of file and memory counts for a loaded leaf.
3. A proof of `RefinesEncodingTree`, for which the invariant of the index on disk
   is there: what is missing is how the sorted records of a subtree change when one
   is taken in hand or stored.
