# libspatialindex: specifications and proofs

TLA+ modules for libspatialindex, the TLC configurations that check them on
small instances, and theorems about them that TLAPS checks for all values of
the constants.  Every definition is written from the code; `PROJECT.json` names
the lines each one stands for.  Paths below are those of the repository.

1. [The system](#1-the-system)
2. [The modules](#2-the-modules)
3. [What TLC checks](#3-what-tlc-checks)
4. [Fairness](#4-fairness)
5. [What is proved](#5-what-is-proved)
6. [Disagreements with the code](#6-disagreements-with-the-code)
7. [What is left out](#7-what-is-left-out)

To check a run: `tlc -config MCRTreeLoose.cfg MCRTree.tla`; to check the proofs:
`tlapm DiskStorageProofs.tla`.

## 1. The system

libspatialindex stores objects (an identifier, a region, a byte array) in one of
three trees whose nodes are byte arrays in a storage manager, usually with a
buffer between the two.  A C API assembles the three and keeps them in an
`Index`.  Everything runs in the thread of the caller; nothing in the library
starts a thread.  A call on a tree is recursive: it reads nodes into memory,
changes the copies and writes them back one at a time, and any of those reads
and writes may make the buffer evict another node.

| Component | State | Operations | Talks to |
|---|---|---|---|
| storage contract, `include/spatialindex/SpatialIndex.h` | a table from identifiers to byte arrays | `storeByteArray` (with `NewPage` or an identifier), `loadByteArray`, `deleteByteArray`, `flush` | implemented by the managers and by the buffer |
| memory storage manager, `src/storagemanager/MemoryStorageManager.cc` | a vector of entries, a stack of deleted identifiers | the four of the contract | no one |
| disk storage manager, `src/storagemanager/DiskStorageManager.cc` | the index table, the set of free pages, the end of the file, the `.dat` and `.idx` files | the four, the constructor (new or reopened), the destructor | the file system |
| buffers, `src/storagemanager/Buffer.cc`, `RandomEvictionsBuffer.cc` | a map of at most `Capacity` entries, each with a dirty flag | the four, `addEntry` and `removeEntry`, `clear` | the storage manager behind it |
| R-tree, `src/rtree/` | the nodes (in pages), the header: root, heights and counters | `insertData`, `deleteData`, `isIndexValid` | storage |
| R-tree queries, `src/rtree/RTree.cc` | a stack or a priority queue of nodes | range, internal nodes, nearest neighbour, self-join, query strategies | the tree, visitors of the client |
| bulk loader, `src/rtree/BulkLoader.cc` | a sorter: a buffer of records and temporary files | `bulkLoadUsingSTR`, `createLevel`; `insert`, `sort`, `getNextRecord` | a data stream, the tree |
| MVR-tree, `src/mvrtree/` | nodes and entries with lifetimes, a list of roots by time, a current time | `insertData`, `deleteData` (ends an object's lifetime), range queries, `isIndexValid` | storage, visitors |
| TPR-tree, `src/tprtree/` | nodes with moving regions, a current time, a horizon | the same, over the future | storage, visitors |
| page formats: `storeToByteArray`, `loadFromByteArray`, `getByteArraySize` of shapes, nodes, headers, property sets | none | writing, reading, measuring | storage |
| tree parameters: the constructors, `initNew` and `initOld`, `getIndexProperties` | the parameters in the header | accepting, defaulting, overriding, reporting | the C API, storage |
| shapes, `src/spatialindex/` | none | containment, intersection, distance, area, combination | every tree |
| tools, `src/tools/`, `include/spatialindex/tools/` | pools of nodes and regions, rings of pointers to them, temporary files, property sets | `acquire`, `release`, `relinquish`; reads, writes and rewinds | every tree |
| C API, `src/capi/` | an `Index` (tree, buffer, storage manager, properties), a stack of errors | about 150 functions | every class above |

What is hard about it, component by component, and what makes it correct:

* **Storage managers.**  Identifiers are reused.  The memory manager must never
  hand out one that is in use; the disk manager never looks for a free
  identifier at all, it looks for a free *page*, and its identifiers are fresh
  only as long as every identifier is the first page of its entity.  Stores
  that grow and shrink, deletes, write errors in the middle of a store, and
  restarts from an older index file must never give one page two owners, and
  what is read must be what was last stored.
* **Buffer.**  Which entry is evicted is random, and evictions write inside
  calls that have nothing to do with the entry.  The client must not be able to
  tell, and a call that is refused must not leave the buffer ahead of the
  storage manager.
* **Index.**  What is on disk after a crash depends on the order in which the
  header, the dirty entries and the index file are written.
* **R-tree.**  An insertion may split nodes up to the root, or take entries out
  of a full node and insert them again, which may fill other nodes.  A deletion
  may cut off nodes on several levels, collapse the root, and reinsert what the
  nodes held at levels noted down before.  Throughout, parents must cover their
  children, no page may be lost or shared, counters must agree with the tree,
  and the reinsertions must end.
* **Queries.**  They must report each object that qualifies once and no other,
  and nearest neighbours in order, ties with the last of them included.
* **Bulk loader.**  An external sort in runs that are merged through a priority
  queue, slabs cut by rounded quotients; every object must be in the tree once,
  and the counters right.
* **MVR-tree.**  A node dies when it is full or has too few live entries; what
  lives in it is copied, split, or joined with what a sibling can spare, and a
  root that dies is followed by another.  For every moment of the past a query
  must go on finding exactly what was alive then.
* **TPR-tree.**  Boxes move and grow; they are tight when written and loosen
  from then on.  Boxes written at different times must bound what is below them at
  every moment to come, or deletions and queries miss objects.
* **Pages and parameters.**  Every class is written, read and measured by three
  rows of code that must agree, for each tree anew.  A reopened index mixes
  parameters from its header with those of the property set, and reports them
  back through types that the constructors insist on.
* **Pointer pools.**  A node must be back in its pool only when no pointer
  refers to it.

`PROJECT.json` lists the hazards one by one with the line where each bites.

## 2. The modules

Two of the modules say what components promise and model no code in particular:
`PageStore` (a storage manager is a table; an identifier not in use is refused)
and `SpatialIndex` (an index is a bag of objects).  The rest follow the code.
Each line extends the ones it names:

| Module | Code | State |
|---|---|---|
| `MemoryStorage` | `MemoryStorageManager.cc` | `m_buffer`, `m_emptyPages` as in the code |
| `DiskStorage` | `DiskStorageManager.cc` | `m_pageIndex`, `m_emptyPages`, `m_nextPage`, the fail bit of `m_dataFile`, the two files, the local variables of a `storeByteArray` under way |
| `EvictionsBuffer` | `Buffer.cc`, `RandomEvictionsBuffer.cc` | `m_buffer`, and the storage manager as a `PageStore` |
| `IndexStorage` on it | `capi/Index.cc`: `flush` and `~Index`, and the calls of a tree on its storage | how far the two have come (`phase`), and what a crash would leave (`durable`) |
| `Region` | `Region.cc`: what the R-tree calls | none |
| `RTreeNode` on it | `rtree/Node.cc`, `Index.cc`, `Leaf.cc`: choosing a subtree, splits, what to reinsert | none |
| `RTree` on it | the rest of those, and `RTree.cc`: insertion, deletion, `isIndexValid` | nodes by page, `m_stats`, the call stack, the overflow table |
| `RTreeQueries` on it | `RTree.cc`: the queries | none of its own: frames on the call stack |
| `ExternalSorter` | the sorter of `BulkLoader.cc` | none: a sorter is a value |
| `BulkLoader` on both | the levels, slabs and nodes of `BulkLoader.cc` | frames on the call stack |
| `LoadedRTree` | composes `BulkLoader` and `RTreeQueries` | |
| `MVRTreeNode` on `RTreeNode` | the pure part of `mvrtree/Node.cc`, `Index.cc`, `Leaf.cc`: version copies, splits, siblings | none |
| `MVRTree` on it | the rest, and `MVRTree.cc` | nodes by page, `m_roots`, `m_currentTime`, `m_stats`, the call stack |
| `MovingRegion` | `MovingRegion.cc`: what the TPR-tree calls | none |
| `TPRTreeNode` on it | the pure part of `tprtree/Node.cc`, `Index.cc` | none |
| `TPRTree` on it | the rest, and `TPRTree.cc` | nodes by page, `m_currentTime`, `m_stats`, the call stack |
| `PageFormats` | serialisation of shapes, data, records, property sets | none |
| `IndexPages` on it | serialisation of the nodes and headers of the three trees | none |
| `TreeParameters` | constructors, `initNew`, `initOld`, `getIndexProperties` of the three | none |
| `CIndexProperties` | the property functions, defaults and result paging of the C API | none |
| `TreeSession` | composes these four with `MemoryStorage`: `Index_Create`, `createNew...`, `load...`, closing and reopening | the pages, the handle, the index that is open |

`reply` in the storage modules is what the last caller got, a value or an
exception; it is what the refinements compare.

**MemoryStorage.**  One action per path through the three functions: a store
that reuses the top of the stack, one that extends the vector, an overwrite, a
load, a delete, and a refusal.

**DiskStorage.**  `storeByteArray` is cut at every page it writes: `StoreNew` or
`StoreOld` is its entry (an overwrite takes the entry out of the index first),
`WritePage` one turn of the loop with the three places a page may come from,
`WriteFails` the exception out of the loop, `FinishNew` and `FinishOld` its end.
`FlushBegin` and `FlushEnd` are the truncation and the completion of the `.idx`
file.  `CrashAndReopen` is the death of the process and the constructor with
`Overwrite` false; a crash inside a flush leaves a torn file from which only
`Overwrite` goes on.  `vouched` is a history variable: what was stored at
the last flush and what has been touched since.

**EvictionsBuffer.**  One action per path again.  A call that adds an entry
(`AddEntry`) first evicts if the buffer is full; the victim is any entry, and if it
is dirty and its identifier is not in use the storage manager's exception leaves the
call (`AddThrows`).  `AnyIdentifier` says whether the client may overwrite
identifiers it was never given; trees do not.

**IndexStorage** extends it with what the C API does to the stack.  `TreeCall` is a call
of the tree on its buffer.  `Index::flush` is two steps, `IndexFlush` (the header goes
through the buffer) and `FlushStorage` (the storage manager is flushed, the buffer is not); `~Index`
is three, one for each destructor: `DestroyTree`, `DestroyBuffer`, `FlushStorage`.  The
process may die between any two.  The storage manager keeps its pages in place: `durable` is what
it would come back with, and of an identifier that was overwritten or freed since
the table was written down that is `Unknown`, so that after `Crash` it has any
contents (`Overwritten`).  `leaving` and `promised` are history variables: what the index held when its
header was stored, and what of that the code can still be held to.

**RTree.**  The functions of the tree call each other recursively, each with
copies of nodes that may be ahead of, or behind, their pages.  `work` is that
call stack.  An action is the body of one function up to the calls it makes:
`Descend` and `Arrive` are `chooseSubtree`; `InsertFits`, `ForcedReinsert`,
`SplitRoot` and `SplitNode` are `Node::insertData` and the two overrides' ends;
`AdjustTree` and `AdjustTreeAfterSplit` are `Index::adjustTree`;
`DeleteData` is `findLeaf` and `Leaf::deleteData` to its call of
`condenseTree`, which is `CondenseTree`, `CollapseRoot` and `CondenseRoot`;
`DeleteNode` and `Reinsert` are the loop that reinserts.  `Finish` is where
`u64Data` is counted.  Coordinates are integers; the split and reinsertion
decisions are those of the code, with quotients of areas compared as fractions.
`qsort` leaves the order of equal keys open, so each order is possible; so is
the value of a flag that is read past the end of the overflow table.

**RTreeQueries.**  `Ask` is the entry of a query, and each turn of its loop is a
step that takes a node from what is pending and pushes children or shows objects:
`VisitInRange`, `VisitContained`, `VisitInternal` and, for nodes wholly inside,
`VisitSubTree`; `VisitNearest` with its priority queue; `VisitPair` of the
self-join.  A page that is pending says whether `visitSubTree` put it there.  A point location query is a range query with a point.  Ties in the
priority queue leave it in any order.

**ExternalSorter and BulkLoader.**  `LoadRecord` reads the stream;
`SortInMemory`, `SpillTheRest`, `StartMerge`, `MergeNext`, `EndMerge` and
`TakeOnlyRun` are `sort`; `PackNode` and `PackedAll` are `createLevel` in the
last dimension, `CutSlab` one turn of its loop in the others, `NextLevel` and
`RootBuilt` the loop over the levels.  The merge takes the head that the code's
priority queue takes, which is not the smallest (section 6).

**MVRTree.**  `InsertFits`, `CopyVersion`, `SplitCopy` and the actions after
them are `Node::insertData` by what happens to the node: rewritten
(`SplitRootInPlace`, `CopyRootInPlace`, when it was born at this very moment) or
left to the past (`SplitRoot`, `SplitNode`, `CopyRoot`, `CopyNode`).
`InsertTwo` and `AdjustTree` are those of `Index`.  `Delete` is
`Leaf::deleteData`; `Borrow`, `Kill`, `Reinsert`, `NewRootInPlace`,
`NewRoot` and `KeepNode` are `Node::deleteData` by what it finds: a sibling with an
entry to spare, a node to be killed and its entries inserted again, a root
that is left with nothing alive.  `Call` takes the client's calls from a script.

**TPRTree** has the scheme of `RTree`.  Every call moves `m_currentTime`, and
every box drawn is drawn for that time.  The forced reinsertion is left out:
its condition begins with `false &&` (`tprtree/Node.cc:463`).  In `MovingRegion`,
times within a unit are counted in fractions fine enough for every two sides to
meet at one, so that intersection in time is exact.

**PageFormats and IndexPages.**  A byte array is the sequence of fields copied
into it, each with its width; a read of the wrong field, or of the wrong
width, is garbage.  Writer, reader and size of each class are three definitions,
as they are three functions.

**TreeParameters, CIndexProperties, TreeSession.**  A property set is a
function from names to variants.  `CreateNewTree` and `LoadOldTree` are
`Index_Create` and `create/load...` up to the constructor, `Construct` the
constructor's checks, `WriteRoot` and `WriteHeader` its two stores;
`InsertData`, `Flush` and `Close` follow.  An index is no more than its header and a
root leaf here: the trees' growth is the other modules' subject.

## 3. What TLC checks

The `MC` modules give the constants their values.

| Run | Question | Bounds |
|---|---|---|
| `tree_session` | Does every object, node and header of the three trees read back as it was written? Is an index that was closed complete when reopened with any properties, through C or C++; do its parameters fit its pages for life; is what the API reports what it uses, and does it open the index again? Do pages of results tile the result? (And, underneath: is a vector with a stack of holes a `PageStore`?) | 2 pages, 2 objects of the index, every class of stored object, 1 property set by the user among 17 settings, 2 sessions, 5 trees asked for |
| `disk_contract` | Is the disk manager a `PageStore`, and does it never lose a page? | 4 pages of 2 bytes, entities of 2 and 3 bytes, 2 contents |
| `disk_faults` | Do types, page ownership and first pages (`IndexTableSound`), fresh identifiers and what a crash must leave alone survive write and read errors, flushes, crashes and reopening in any order? | 3 pages, 1 content |
| `buffer_contract` | Is a write-back buffer over a `PageStore` a `PageStore`, whatever it evicts? Is it coherent, and within its capacity? | 4 identifiers, capacity 2, 2 contents |
| `index_storage` | Whenever the process dies, does a page that the tree left alone since `Index_Flush` or `Index_Destroy` read as it did then (but for what a write-back buffer held back during `Index_Flush`)? Do the destructors run in the right order? Does a buffer that writes through never differ from the manager? | 3 identifiers, one the header's; capacity 2; both kinds of buffer, and for one that writes through overwrites of any identifier |
| `rtree_loose` | Quadratic splits, loose MBRs: is no object lost, doubled or missed by a deletion (`SpatialIndex`); do parents cover what is below them, are nodes filled and data counted (`LooseIndexIsSound`)? | 16 objects, one of them twice; 2 deletions |
| `rtree_rstar` | R\*-tree: does every call return, do reinsertions find their level, is the tree valid and well formed? | 18 objects in two layouts, 2 deletions; capacity 5 in index nodes, so that a split leaves each half two children |
| `rtree_counters` | Quadratic splits with a minimum load of one: is a tree valid after any calls? (It is not, section 6.) | 8 objects, 5 deletions |
| `rtree_loaded` | Linear splits, with bulk loading and queries: does a load put every object in the tree once, is the result valid but for the counter of a root that came later (`LoadedIndexIsValid`), does each query report exactly what it should, do loads and queries return? | 16 objects, 3, 12 or 16 of them loaded and the rest inserted, or all inserted; sorters of 2 pages of 2 records; 7 queries, asked of the finished tree; 1 deletion after it |
| `rtree_merge` | Does a sorter hand out its records in order? (It does not, section 6.) | the same |
| `tprtree` | Do boxes bound what is below them for ever, is no object lost or missed by a deletion, is the tree valid, are queries about the future exact? | 16 objects, some driving, some standing, some spreading; 2 scripts, up to 2 deletions; times 0 to 2, horizon 4; 6 queries |
| `mvrtree` | For every moment: does a query find what was alive? Do roots follow one another, with one for every moment at which something was alive, do counters agree, do live nodes keep enough entries, does no call change the past? | 10 scripts of up to 60 insertions, 44 moves or 22 deletions, and up to 2 deletions of any object; 2 regions |

Why these are enough to be interesting:

* *Disk.*  A page holds two bytes, and entities take one page or two with the
  second partly filled.  With three pages a two-page entity and a one-page one
  fill the file, so that every way of growing, shrinking and reusing pages
  occurs, also across a reopening.
* *Buffer.*  Four identifiers and two places: every store and load may have to
  evict, and the victim may be clean, dirty, deleted or overwritten later.
* *R-tree.*  The capacity is the least the code accepts, 4 entries (5 in the index nodes of `rtree_rstar`); seventeen
  or eighteen insertions make three levels with some to spare, so that splits
  reach the root twice, and deletions (in any order, any object, also one that is not there but shares an
  identifier) condense nodes on two levels, collapse the root and reinsert
  entries of index nodes.  The order of insertion is fixed, what is deleted and
  when (once at most `LateDeletes` are left to insert) is free, and so are the
  orders of equal sort keys.  `Infinity` (1000) stands for the largest double and
  is beyond every coordinate.
* *Bulk loading and queries.*  Two records to a page and two pages make a
  sorter spill with five records, and merge in two rounds with sixteen; 3, 12 and 16
  objects leave the last node short, fill slabs exactly, and give three levels.
  The queries are chosen to meet some objects at a side, to contain
  whole nodes and parts of others, and to have ties for the k-th neighbour.
* *TPR-tree.*  Capacity 4, sixteen objects: three levels.  Objects overtake each
  other within the horizon, boxes drawn at times 0, 1 and 2 coexist, and a
  deletion at any time must find its object through them.
* *MVR-tree.*  The capacity is the least the code accepts, 10 entries.  Sixty
  insertions at about the same time fill a root of two levels by splitting in place;
  fifty and 44 moves make version splits of leaves and of index nodes and
  roots of three levels; the others empty trees again, over siblings with and
  without an entry to spare, down to a root that dies; and three empty a root leaf at
  the instant they filled it, and come back later.
* *Sessions.*  A second session is enough for a parameter to be stored by one
  client and overridden, or misread, by another; one setting at a time, because the
  constructors look at each property by itself but for the pairs that are among
  the settings' interplay with the defaults.

`LateDeletes`, `MaxDeletes`, `Orders`, `LoadSizes`, `Queries`, `QueryWhen`, `Script`, `Query`,
`Motion` and `MaxTime` bound the clients of the trees; `MaxEntries`, `MaxPages` and `Id` bound the
stores; `Sample`, `Setting`, `NewTree`, `MaxObjects`, `MaxSettings` and `MaxSessions`
bound sessions; `MaxCopies` bounds the abstract index.  None is in the code.
Deadlock is checked, but for `tree_session`, `tprtree` and `mvrtree`, whose clients come to
the end of what they are bounded to do.

For each property of these runs `PROJECT.json` names a mutant, a plausible bug
in a modelled function, with which TLC finds the property violated.

## 4. Fairness

Only `EveryCallReturns` needs any.  The calling thread runs the call it made,
so `RTree` assumes that a call under way takes its next step: weak fairness of
`Execute`.  It is written out as `[]<>(work = <<>>) \/ []<><<Execute>>_vars`
because `Execute` is enabled exactly when `work` is not empty (it is a deadlock
otherwise, which the runs rule out).  `LoadedRTree` says the same of its three
kinds of steps, with `WF_vars` of `ExecuteLoad` and of `ExecuteQuery`.  Nothing
obliges the client to make a call.  What the property says is then that no call
goes on for ever: forced reinsertions end, levels get smaller until there is a
root, merges and queries use up what is pending.  The other modules'
specifications have no fairness, and no liveness property is claimed of them.

## 5. What is proved

Each `*Proofs` module extends the module it is about; `SessionProofs` is about two that
`TreeSession` composes, `MemoryStorage` and `CIndexProperties`, and `RTreeProofs`,
`RTreeContractProofs`, `RTreeBoxProofs` and `RTreeQueriesProofs` extend each other in this order.

| Theorem | Says | Assuming |
|---|---|---|
| `SessionProofs!TypeCorrect`, `StackCorrect` | types; the stack is exactly the holes, each once | |
| `SessionProofs!Refinement` | the memory manager implements `PageStore` | |
| `IndexStorageProofs!Coherence`, `Refinement` | the buffer is coherent and implements `PageStore` | `Guarded`: clients overwrite only identifiers in use, or the buffer writes through |
| `IndexStorageProofs!NothingHeldBack`, `OverwritesRefused` | the storage manager has every change; overwrites of unknown identifiers are refused | `WriteThrough` |
| `IndexStorageProofs!CapacityKept` | at most `Capacity` entries | finitely many identifiers, `Capacity # 0` |
| `IndexStorageProofs!FlushedSurvives` | whenever the process dies, a page reads as when `Index_Flush` or `Index_Destroy` returned, unless the tree wrote or deleted it since or a write-back buffer held it back at the flush | `Guarded` |
| `IndexStorageProofs!NothingIsLeftOut` | after `Index_Destroy`, or `Index_Flush` over a buffer that writes through, that promise is for the whole index | `Guarded` |
| `DiskStorageProofs!TypeCorrect` | types, and what a call under way relies on | |
| `DiskStorageProofs!OneOwner`, `FirstPage`, `TableSound` | pages have one owner; an identifier is its entity's first page; through write errors, crashes and reopening | `NoEmptyEntities`: no entity has length zero |
| `DiskStorageProofs!FreshIdentifiers` | `NewPage` gives fresh identifiers | the same |
| `DiskStorageProofs!UntouchedSurvive` | an entity not touched since the last flush is intact in the files at every moment | the same |
| `DiskStorageProofs!NoLeak` | no page is lost: each is in use, free, or a call's | the same, and the `.dat` file can be read and written (`"io" \notin Faults`) |
| `DiskStorageProofs!DiskImplementsPageStore` | the disk manager implements `PageStore` | the same, and no faults at all |
| `RTreeProofs!SplitsDistribute` | in every variant, the two groups of a split have every entry between them, once, and neither is smaller than its least share | |
| `RTreeProofs!ReinsertionsDistribute` | what a node keeps and what it reinserts have every entry between them, once | `ReinsertFactor` rounds to an entry |
| `RTreeProofs!CallsKeepTheTree` | pages and calls under way share out the pages, levels fall by one, nodes fit: at every step | `ReinsertsSome`: `ReinsertFactor` rounds to an entry for a full node, in the R\*-tree |
| `RTreeProofs!ReinsertionsReachTheirLevel` | whatever is inserted again belongs at or below the root | the same |
| `RTreeProofs!PagesHaveOneParent` | every page has one parent or is in one call's hands; no node exceeds its capacity | the same |
| `RTreeContractProofs!CallsKeepCount`, `DataIsCounted` | every object is in one leaf or on its way in one call, and `m_u64Data` counts the objects in the leaves between calls | the same |
| `RTreeBoxProofs!IndexEntriesCover` | an entry of an index node covers all that is below it, between calls, with tight MBRs and with loose ones | the same |
| `RTreeBoxProofs!NodesStayFilled`, `LooseIndexStaysSound` | every node but the root keeps the minimum load, between calls; with the above, `LooseIndexIsSound` | `ReinsertsSome`, and `LeavesEnough`: in the R\*-tree the fill factor is no more than the split distribution and reinsert factors leave |
| `RTreeBoxProofs!TreeIsASpatialIndex` | the tree implements `SpatialIndex`: objects come and go by insertions and deletions only, and a deletion finds what is there | `ReinsertsSome`, and `AtMostTwice`, the bound `MaxCopies` of the contract: clients insert an object at most twice |
| `RTreeContractProofs!TreeStaysWellFormed` | at every step of every call `TreeWellFormed`: pages and counters of their types, one parent each, none overfull | `ReinsertsSome` |
| `RTreeBoxProofs!IndexStaysValid` | `isIndexValid` answers true after any sequence of calls | `ReinsertsSome`, tight MBRs, and `IndexNodesBranch`: what splits, reinsertions and the minimum load leave in an index node is two children or more |
| `RTreeQueriesProofs!RangeQueriesAreExact` | range, containment and internal node queries show each object that qualifies as often as it is there, and no other, after any sequence of calls | `ReinsertsSome` |
| `RTreeQueriesProofs!NearestNeighborsAreExact` | a nearest-neighbour query shows the objects than which fewer than `k` are nearer, nearest first | `ReinsertsSome`, and `AsksForSome`: `k` is not zero |
| `RTreeProofs!InsertionCombinesBox`, `DeletionKeepsBox`, `AdjustmentKeepsBox` | each way in which the R-tree keeps an MBR up to date without going over the entries gives what going over them would give | the MBR was the entries' before |
| `RTreeProofs!PruningLosesNothing` | a subtree whose MBR does not qualify holds nothing that does | |
| `MovingRegionProofs!BoundsLast`, `BoundsCompose`, `CombinationBounds` | a box that bounds a region, sides no slower outwards, bounds it for ever; boxes of boxes; a combined box bounds both its parts | |
| `SessionProofs!PagePlaces`, `PageInside`, `PagesAdjoin`, `NoLimit` | a page of results holds the places it should and no other, fits its array, and ends where the next begins | offsets are not negative |

The hypotheses are needed: without each the code does otherwise (section 6).

*Memory.*  `StackIsTheHoles` with the types is inductive.  A store reuses the
top of the stack, which is a hole and, being on the stack once, is on it no
longer; a delete pushes a slot that was not a hole.  The refinement follows
step by step, since a hole and a slot past the end are both identifiers that
are not in use.

*Buffer.*  The inductive invariant is the types, `BufferIsCoherent`, and, with
write-through, that no entry is dirty.  A victim's write then cannot be
refused, and evicting changes `store` and `m_buffer` but not what the client
sees, so each action is the action of `PageStore` of the same name, and
`Clear` a stutter.

*Index.*  To the buffer's invariant `IndexInv` adds where a promise is kept: the storage manager
and the disk both have what is `promised` of an identifier, and no dirty entry hides it
(`PromisesAreOnDisk`), so that a crash, which changes only identifiers that were written
since, leaves it.  Between the first and the last step of `Index::flush` or `~Index` the view is
still the one that was leaving (`LeavingIsKept`), since emptying the buffer moves contents
and changes none.

*Disk.*  Ownership alone is not inductive.  The invariant is `TypeOK`, that
a call under way has well-formed local variables (`InProgress`), that the table in
memory and the one in the `.idx` file each give every page one owner and every
identifier its own first page (`MemorySound`, `FileSound`), and that the pages
a store has taken or may still take are disjoint from every entry and from the
free pages (`CallSound`).  That a new identifier is fresh follows: were it in
use it would be the first page of its entry, and the store has just taken that page.
A reopened table need not agree with the `.dat` file, but it is as consistent
in itself as the one that was flushed, which is all these properties need.

`UntouchedSurvive` adds that for an untouched identifier the entry in memory is
still the one of the `.idx` file (`Intact`), and that the identifier of an
overwrite under way counts as touched.  Its pages are then pages in use, and by
`TakePageEffect` a store never writes on one of those; reopening makes all entries those
of the file, and a flush makes memory and file the same.

`NoLeak` counts: the pages in use, the free ones and those of the call under way
are together all that were ever handed out.  With that the refinement follows
step by step; a store takes effect in its last step.

*R-tree nodes.*  A split is a recursion that takes entries from those that
remain and gives each to a group.  Its invariant, that the two groups and the
rest have every entry once between them and that what remains is enough for a
group that must take it all, is proved over the numbers from 0 to the number
of entries (`UpTo`); sorted distributions and reinsertions are prefixes and
suffixes of a permutation, for which `SetToSortSeq` and the like are not needed.

*R-tree.*  A tree is not a tree while a call is under way: a page that was
split off is known only to the frame that will enter it in a parent, and pages
that were cut off only to the frame that will empty them.  The invariant
`TreeInv` therefore says who owns each page.  It has three parts:

* `TreeOK`: each page holds a node of its type, within its capacity, whose
  entries name different pages one level down.
* `Partition` (`OneOwner`): each page but the root is a child of one page or held by
  one frame of the stack, and by nothing else.
* `StackOK`, with `FrameOK` for each kind of frame: a frame's path is a route
  from the root to its page; a copy of a node in its hands has the children of the
  page; what it is to insert belongs to a level at or below the root's, and the page it
  names is one level further down; only the frame on top has a path or a copy at all, and the frames below it wait (`Waiting`), so that a step
  on top cannot invalidate them.

The last is what makes the invariant inductive: a split of the root, say, moves the
node that any route would begin with, but no other frame has a route.
A forced reinsertion must not happen to keep all `capacity + 1` entries, hence
`ReinsertsSome`.  It is true of every capacity the code accepts with the default
factor, 0.3; the code does not enforce it for smaller ones (section 6).

*Counting objects.*  `Tally(D)` counts the objects of `D` in leaves and in the
hands of calls.  A step of a call under way moves them and leaves every tally alone
(`TallyStaysTheSame`, one lemma per kind of step); only the first step of an insertion
or deletion changes one, by one.  `WayInv` adds what the stack looks like from below: its
last frame is the `return` that will change `m_u64Data`, and there is no other, so
`DataInv` can say that the counter and what that frame has pending make up the tally of all objects.

*Covering.*  `BoxInv` says of every page that its MBR covers its entries
and, if MBRs are tight, is theirs (`BoxOK`), and of every entry of an index node that
it spans its child (`EntryBound`).  The entry may be wrong only while the
running call is about to correct it (`Behind`: `adjustTree` has just been called
for it, or the copy of the node in hand is ahead of the page), and may be too large while
its child is being condensed (`Shrinking`).  `Covering` says the same of what frames carry:
the MBR a call reinserts, or hands up to `adjustTree`, is the child's.  When no
call is under way neither exception is there, and `ParentsCover` follows through two entries.

*Filling.*  A node has less than its minimum load only if a frame will delete it or
`condenseTree` is at it or has cut it off (`Excused`).  `LeavesEnough` is what the
linear and quadratic splits see to and the R\*-tree's do not: with its documented
defaults, fill factor 0.7 and split distribution factor 0.4, it is false, and so is
`NodesFilled` (section 6).

*Counting nodes.*  `nodesInLevel` is not exact while a call is under way: `CollapseRoot`
sets the counter of the new root's level to two, for a node that is still to be deleted, and
`deleteNode` counts one down wherever the node was.  `CountInv(exact)` says
of each level that its counter is the number of its pages or, where `exact` is not
claimed, no less.  What may go wrong is a counter below zero, and the reason why it does
not is an order: of the nodes a condensation cut off, the one that may be as high as
the root waits first, and is gone before a reinsertion can split the root (`WaitInv`).
With the inequality alone the counters keep their types
(`CountStep`, `TreeStaysWellFormed`).

They are exact if each collapse has lost a sibling of the child that takes the root's
place (`LostSibling`), since the two that are then counted are this child and that
sibling.  `RootInv` says why there is one: a root above the leaves has two
children, or is at the end of a condensation that cut one off (`AtRootWithout`).  The child
that takes its place must have two itself, which is the load of the paragraph
above for `TwoKidsLoad`, two in every index node; `FillInv` is proved for
any load that splits, reinsertions and condensations leave (`Attained`).  `IndexNodesBranch`
holds for the defaults, for every index capacity from 7 on with the default
factors of the R\*-tree, and for linear and quadratic splits whenever the minimum load is two
or more; without it the theorem is false, and so is the answer of `isIndexValid` (section 6).

What is left is `isIndexValid` itself, which walks the tree.  `AllWays[k]` are the ways of `k` steps
from the root; each page of a level has exactly one way to it, by
`OneOwner` in one direction (`OneWayEach`) and by its parent in the other (`WaysReachAll`), so
the nodes met at a level are its pages (`WalkAtLevel`), and an entry met has its
child's MBR, by `BoxInv`.  The sum of the counters is the number of pages because
every page is of one level (`SumOfClasses`, for `Sum` as the community modules fold it).

*The contract.*  A deletion that finds nothing is the delicate step: `findLeaf` goes
only into entries that contain the object's region.  By `BoxInv` the entries
above a leaf with the object do, so a way from the root leads to it (`WaysLeadThere`,
from the leaf upwards, each page having one parent), and `LeafPaths`
finds it (`FindsEveryObject`).  With the tallies each first step of a call is the
action of `SpatialIndex` of its name and every other step a stutter.
`CopiesInv` carries the bound on copies: those in the tree and those still to be inserted.

*Regions.*  `IsBoxOf` says that each side of a box is the outermost of its
entries' sides; there is only one such box, and the loop computes it
(`BoxIsComputed`).  An entry without a side in common with the box can
change within it, or go, and the box is still that of the entries: this is why
`adjustTree` may stop where it does.  `BoxInv`
and with it `IndexStaysValid` rest on these steps.

*Queries.*  `QueriedSpec` is an index that is filled by `insertData` and `deleteData` and asked
between calls.  A query is a search of a tree (`Forest`, `Searched`): every page is
visited, or pending, or below one that is, or not `Promising`, and since no page has two parents
none is met twice (`SearchGoesOn`).  `RangeOK` says in addition how often each object was
shown: as often as it is in the leaves visited if it qualifies, and else not at all.  When nothing
is pending every page that may hold something was visited (`SearchEnds`, by induction over
levels), and that a page without promise holds nothing is `BoxInv` again.
A page pushed by `visitSubTree` lies inside the query, and so does all below it
(`WholeIsInside`).

In the queue of `nearestNeighborQuery` are pages and objects, with distances that are no
more than what is below them is away (`KeyOK`).  `NearFits` says that what was shown and
what is queued is what the visited leaves hold, that whatever is queued is no nearer than
anything shown, and that fewer than `k` are nearer than anything shown (`Qualified`).  An object taken
from the front is not preceded by any that is still to be met (`NothingNearerQueued`), so
it may be shown; when the query stops instead, `k` are nearer than all that is left (`NearStops`).
Where among equals the code's priority queue has an order of its own, any will do.

*Moving regions.*  The distance between a side of the box and one of a region below it
grows with time if the velocities are so ordered.  `BoxesBoundTheFuture` of the
TPR-tree therefore speaks of the current time and of velocities only.

Every invariant of the R-tree that a run checks is proved.  Only model-checked: the MVR-
and TPR-tree, sessions, bulk loading (and so queries on trees that were loaded), self-joins; and the liveness property, `EveryCallReturns`.  Liveness and `ENABLED` are
out of reach of the prover, and so is induction by the library's theorems, which
take the induction hypothesis as a parameter: where induction over numbers is
needed it is over sets of numbers (`UpTo`, `Recursion`, `AllDealt`).

## 6. Disagreements with the code

Two have runs of their own, in which TLC finds the behaviour:

* **A sound tree is declared invalid** (`rtree_counters`).  When a root with one child
  collapses, `condenseTree` sets the counter of the level below to two, for a "pending
  deleteNode" that is to count one down (`rtree/Node.cc:1023`, and the same in
  `tprtree/Node.cc:1184`).  If the minimum load is one (capacity 4, fill factor 0.4), the child that takes the
  root's place may itself have one child.  The next deletion collapses the
  root again with nothing pending, and `isIndexValid` says no ever after, with "Level 0 pages: 2"
  of one node.  The run's thirteen calls do the same in the compiled library.
  With two children in every index node it cannot happen (`IndexStaysValid`), which
  is how it was found.
* **An external sort does not sort** (`rtree_merge`).  The runs are merged
  through a priority queue whose comparison makes the largest head the first
  (`BulkLoader.cc:229`, `BulkLoader.h:83-90`).  A loaded tree is then worse than
  it could be, not wrong: `rtree_loaded` shows that nothing is lost.

Four others break an assertion of the code or an answer it should give, and TLC finds them if a run's
property or a constant is changed as is said in brackets:

* **A root loses all its children.**  With the same minimum load of one, an index node with a
  single child is legal, and a root that had only this child is left with none when that is
  condensed away: it collapses only if exactly one is left (`rtree/Node.cc:1012`).  The next
  insertion fails the assertion of `rtree/Index.cc:74`, or, without assertions, reads
  an entry that is not there (`MCRTreeCounters.cfg` with `ReturnOrders`, `MaxDeletes = 8`, `LateDeletes = 1`:
  `SubtreeIsThere`).
* **A loaded tree is declared invalid once it has grown.**  A load leaves a
  trailing zero among the counters (`BulkLoader.cc:367`), and the next root is counted behind it;
  `isIndexValid` says no until the root is split again (`MCLoadedRTree.cfg`:
  `IndexIsValid`).  Everything else it looks at is right then, and that is what
  `LoadedIndexIsValid` states: the boxes, the number of
  nodes, and the counters of all other levels.
* **A root leaf forgets when it began.**  When its last entry goes at the instant
  it came, `deleteEntry` of the MVR-tree gives the leaf an infinite start (`mvrtree/Node.cc:346`), and the next insertion
  its own.  If it overflows at that same instant, it is split in place and the assertion
  of `mvrtree/Node.cc:487` fails, since `m_roots` has the old start (the one at line 567, for
  a root that is copied in place, compares the same; `Script <- Refills`: `RootStartAsserted`).
  If it overflows later, the wrong start goes into `m_roots` (`Node.cc:496`) and there are moments
  without a root.  Nothing was alive at those, which is what `LivesHaveRoots` states, so queries do not notice.
* **A buffer of capacity zero has no bound.**  `RandomEvictionsBuffer.cc:75`
  evicts when the size equals the capacity; once past it, it never does again (`Capacity = 0`: `CapacityRespected`).

Others were met while modelling.  Of these, most can be reproduced in the same way:

* *Disk.*  `overview.rst:146` says that after an unexpected failure "changes to the
  storage manager will be lost due to a stale .idx file".  Pages are overwritten in place and
  reused at once, though, so the old `.idx` file may name pages with new, or another entity's,
  contents (`Faults = {"restart"}`, two pages: `CrashLosesOnlyChanges`, which no run checks).  What does hold, and is
  proved: entities that were not touched since the last flush are intact.
* An overwrite with length zero gives up the page that the entity is named
  after, and the next `NewPage` store returns an identifier in use
  (`Length = {0, 2}`, three pages: `NewIdentifiersAreFresh`).
* *Buffer.*  A write-back buffer accepts an overwrite of an identifier that is not in use, where
  `overview.rst:68` promises an exception; some later call gets it (`AnyIdentifier` with `WriteThrough`
  false: `InvalidOverwritesAreRefused`).
* *Index.*  `Index::flush()` does not flush the buffer: what a write-back buffer holds
  back is lost in a crash, and `FlushedPagesSurviveCrash` excepts it (`HeldBack`).  Pages that are
  overwritten after a flush are not what they were at the flush, if the process dies.
* *R-tree.*  The R\*-tree's splits look at the split distribution factor only; with the
  documented defaults (fill factor 70%, split distribution factor 0.4) its nodes
  fall below the minimum load (`NodesFilled` with `Variant = "rstar"`).
* A reinsert factor that rounds to no entry leaves a node with one entry too
  many (`ReinsertFactor = <<1, 10>>`: `NodesWithinCapacity`).
* `isIndexValid` says no to trees with loose MBRs on which everything
  works (`TightMBRs = FALSE`: `IndexIsValid`).
* The overflow table of an insertion is as long as the root is high when the
  insertion begins.  Its reinsertions may raise the root and then look up a
  level past the end (`ReinsertFactor = <<3, 5>>` and a stream of 28
  overlapping objects).
* *Queries.*  `nearestNeighborQuery` with `k` zero reports everything at
  distance zero.  An empty tree's root has an MBR turned inside out, which every
  query region contains.
* *Bulk loader.*  Without the `ExternalSortBuffer...` properties
  `createAndBulkLoadNewRTree` runs a sorter of no pages, which sorts for ever; with one
  entry per index node the loop over levels never ends (`BulkLoader.cc:373`).
* *MVR-tree.*  `findLeaf` also finds entries that are dead, and
  `deleteData` takes the last with the identifier: deleting twice, or inserting an
  object again with a region it had before, rewrites the past.  The current time follows every deletion's end,
  backwards too.  The default split factor of 0.4 may leave a group below the
  weak condition.  With the linear and quadratic splits and the default fill factor
  the assertion of `mvrtree/Node.cc:455` fails.  The assertion of
  `mvrtree/Index.cc:259` reads an entry that was not set.  An interval query
  that straddles a version split may report objects with a lifetime of zero.  When
  the last node below a root of three or more levels dies, the nodes walked are
  not counted as dead (`TallTreeDied`).
* *TPR-tree.*  `containsWhatQuery` never reports anything, where
  `overview.rst:161` promises the contents of a range (`TPRTree!ContainmentQueriesExact`, which no run
  checks).  Two regions that meet only at the
  instant at which they stop meeting in one dimension are not found to meet
  (`MovingRegion.cc:347`).  Nodes may be underfull.  `Leaf::findLeaf` looks at
  the identifier only.  A deletion moves the current time whether or not it
  deletes.
* *Parameters.*  The default near minimum overlap factor, 32, is not checked
  against small capacities when it is not given, so that the C API's default
  handle cannot open indexes with smaller nodes.  Any page may be opened as a
  header: nothing in it says that it is one.
* *C API.*  Negative offsets and limits are not refused (`Utility.cc:171`), and a limit of zero ignores the
  offset.  The `std::exception` branches of `Index_Intersects_obj` and
  `Index_Contains_obj` push an error and return `RT_None`.  An `Index_Create` that
  fails leaks what it had made.  A property set that holds a file name or a
  pointer cannot be serialised.

## 7. What is left out

Left out of the modules there are, and why:

* `DiskStorage`: what the constructor makes of a half-written `.idx` file, and
  errors of that file; that the stream may hold back the last page.
* `EvictionsBuffer`: a `flush()` of a buffer that stays in use (it frees its
  entries and keeps the pointers), and the hit counter.
* `IndexStorage`: a crash in the middle of a call is one right after it, and the manager's own flush
  is one step (`DiskStorage` has both in detail).  In `TreeSession` pages go straight to the memory storage manager.
* `RTree`, `MVRTree`, `TPRTree`: commands, and the counters of reads, writes, hits
  and adjustments.  The three do not run over pages as bytes: that nodes read back
  as they were written is what `TreeSession` shows.
* `RTreeQueries`: `queryStrategy`, whose control is the client's.
* `MVRTree` and `TPRTree`: nearest neighbours and self-joins throw in the code, and internal node
  queries as well.
* `ExternalSorter`: the pages in which a merge reads ahead, and the bytes of a
  temporary file (the record format is in `PageFormats`).
* `CIndexProperties`, `TreeSession`: the wrappers that convert arguments and
  forward to the trees, and the stack of error messages.
* Rounding: coordinates are integers, areas, margins and integrals exact.
* Threads: the library's own calls are those of one thread.  `internalNodesQuery`
  alone takes a lock, and what a data race makes of the rest has no bound.

Not modelled, and why:

* *Pointer pools.*  Rings of shared pointers and the pool they return to are
  memory lifetime in C++; the trees' modules take a node that is read for a copy of
  its own, which is what the pools must provide.
* *C API visitors and streams.*  Each appends what it visits to a vector, or
  forwards a call to a function of the client.
* *Geometry that no tree's control depends on*: line segments, moving
  points, distances of time regions; it is floating-point arithmetic without state.
* *Random numbers, locks and buffered files* of `src/tools`, `test/` and the
  vendored `gtest`.

What would come next: the invariants of the R-tree for the MVR- and TPR-tree; the self-join's
exactness, from the search of a tree of pairs of pages; and `TreeSession` over `IndexStorage`, so that a crash meets a
header and a root that were written at different times.
