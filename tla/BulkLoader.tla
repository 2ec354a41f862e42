----------------------------- MODULE BulkLoader -----------------------------
(***************************************************************************)
(* Bulk loading by sort-tile-recursive packing: the data of a stream are   *)
(* sorted by the first dimension, cut into slabs, each slab is sorted by   *)
(* the next dimension, and so on; in the last dimension nodes are packed   *)
(* full.  The nodes' boxes are the data of the next level, until a level   *)
(* has one node.                                                           *)
(*                                                                         *)
(* The loader's calls are frames on the call stack of RTree.  What is      *)
(* loaded is the first part of the client's todo list; the rest of it is   *)
(* inserted into the loaded tree.                                          *)
(***************************************************************************)
EXTENDS RTree, ExternalSorter
LOCAL INSTANCE TLC
LOCAL INSTANCE SequencesExt
LOCAL INSTANCE FiniteSetsExt

CONSTANT LoadSizes  \* bound: how many objects of the client's are loaded

\* bleaf and bindex: how many entries a packed node gets.  With one entry per
\* node the levels would never get smaller.
NodeSize(level) == Floor(Capacity(level), FillFactor)

ASSUME BulkLoaderAssumption ==
  /\ LoadSizes \subseteq Nat \ {0}
  /\ NodeSize(0) >= 1
  /\ NodeSize(1) >= 2

\* ceil(n / m), and ceil(sqrt(n)).
CeilDiv(n, m) == (n + m - 1) \div m
CeilSqrt(n)   == Min({s \in 0 .. n : s * s >= n})

Slabs(total, level) == CeilSqrt(CeilDiv(total, NodeSize(level)))

SlabSize(f) == Slabs(f.es.total, f.level) * NodeSize(f.level)

LoadFrame(stream, es) == [fn |-> "bulkLoadUsingSTR", stream |-> stream, es |-> es]

\* A sorter that createLevel is called with; it is sorted first.
LevelFrame(es, dimension, level) ==
  [fn |-> "createLevel", es |-> es, dimension |-> dimension, level |-> level]

\* The loop over the levels; es2 takes the boxes of the level being built.
LoopFrame(level, es2) == [fn |-> "createLevels", level |-> level, es2 |-> es2]

------------------------------------------------------------------------------
(***************************************************************************)
(* createAndBulkLoadNewRTree, on a tree just created: the empty root goes. *)
(***************************************************************************)
BulkLoad ==
  /\ work = <<>>
  /\ answer = Contract!NoAnswer
  /\ \E n \in LoadSizes :
       /\ n <= Len(todo)
       /\ work' = <<LoadFrame(SubSeq(todo, 1, n), NewSorter)>>
       /\ todo' = SubSeq(todo, n + 1, Len(todo))
  /\ answer' = Contract!Loaded
  /\ nodes' = WithoutPage(m_rootID)
  /\ m_stats' = [m_stats EXCEPT !.u32Nodes = @ - 1, !.nodesInLevel = [@ EXCEPT ![1] = @ - 1]]
  /\ UNCHANGED <<m_rootID, overflowTable, deletes>>

LoadRecord ==
  /\ Step("bulkLoadUsingSTR")
  /\ LET f == work[1] IN
       /\ f.stream # <<>>
       /\ \E es \in Insert(f.es, Record(f.stream[1], 1)) :
            Become(<<LoadFrame(Tail(f.stream), es)>>)
  /\ UNCHANGED <<nodes, m_stats, overflowTable>>

\* A counter for the new level, on top of those there are.
Counted(stats) == [stats EXCEPT !.nodesInLevel = Append(@, 0)]

FirstLevel ==
  /\ Step("bulkLoadUsingSTR")
  /\ LET f == work[1] IN
       /\ f.stream = <<>>
       /\ Become(<<LevelFrame(f.es, 1, 0), LoopFrame(0, NewSorter)>>)
       /\ m_stats' = Counted([m_stats EXCEPT !.u64Data = f.es.total])
  /\ UNCHANGED <<nodes, overflowTable>>

------------------------------------------------------------------------------
(***************************************************************************)
(* ExternalSorter::sort.                                                   *)
(***************************************************************************)
BecomeSorter(f, es) == Become(<<[f EXCEPT !.es = es]>>)

SortInMemory ==
  /\ Step("createLevel")
  /\ LET f == work[1] IN
       /\ InMemory(f.es)
       /\ \E es \in SortedInMemory(f.es) : BecomeSorter(f, es)
  /\ UNCHANGED <<nodes, m_stats, overflowTable>>

SpillTheRest ==
  /\ Step("createLevel")
  /\ LET f == work[1] IN
       /\ LeftOver(f.es)
       /\ \E es \in Spilt(f.es) : BecomeSorter(f, es)
  /\ UNCHANGED <<nodes, m_stats, overflowTable>>

TakeOnlyRun ==
  /\ Step("createLevel")
  /\ LET f == work[1] IN
       /\ OneRunLeft(f.es)
       /\ BecomeSorter(f, DoneSorting(f.es, f.es.runs[1]))
  /\ UNCHANGED <<nodes, m_stats, overflowTable>>

MergeFrame(buckets, run) == [fn |-> "merge", buckets |-> buckets, run |-> run]

StartMerge ==
  /\ Step("createLevel")
  /\ LET f == work[1] IN
       /\ MustMerge(f.es)
       /\ Become(<<MergeFrame(Buckets(f.es), <<>>), f>>)
  /\ UNCHANGED <<nodes, m_stats, overflowTable>>

MergeNext ==
  /\ Step("merge")
  /\ LET f == work[1] IN
       \E i \in TopHeads(f.buckets) :
         Become(<<MergeFrame([f.buckets EXCEPT ![i] = Tail(@)], Append(f.run, f.buckets[i][1]))>>)
  /\ UNCHANGED <<nodes, m_stats, overflowTable>>

EndMerge ==
  /\ Step("merge")
  /\ LET f == work[1]
         caller == work[2]
     IN  /\ TopHeads(f.buckets) = {}
         /\ work' = <<[caller EXCEPT !.es = Merged(@, f.run)]>> \o SubSeq(work, 3, Len(work))
  /\ UNCHANGED <<nodes, m_stats, overflowTable>>

------------------------------------------------------------------------------
(***************************************************************************)
(* createLevel: either the records are packed as they come, or they are    *)
(* cut into slabs.                                                         *)
(***************************************************************************)
Sorted(f) == ~f.es.inserting

Packs(f) ==
  \/ Slabs(f.es.total, f.level) = 1
  \/ f.dimension = Dimension
  \/ SlabSize(f) = f.es.total

\* The frame at the bottom, which takes the boxes.
WithBox(box) ==
  {[work EXCEPT ![Len(work)].es2 = es2] : es2 \in Insert(Last(work).es2, box)}

\* Mutant of Written: only a new root would be counted.
WrittenUncounted(stats, level) == [stats EXCEPT !.u32Nodes = @ + 1]

\* writeNode of a new page.
Written(stats, level) ==
  [stats EXCEPT !.u32Nodes = @ + 1, !.nodesInLevel = [@ EXCEPT ![level + 1] = @ + 1]]

PackNode ==
  /\ Running("createLevel")
  /\ LET f == work[1]
         records == NextRecords(f.es, NodeSize(f.level))
         page == NewPageBeside(DOMAIN nodes)
         node == Node(f.level, [k \in DOMAIN records |->
                                  [id |-> records[k].id, mbr |-> records[k].mbr]])
     IN  /\ Sorted(f)
         /\ Packs(f)
         /\ records # <<>>
         /\ nodes' = (page :> node) @@ nodes
         /\ m_rootID' = page
         /\ m_stats' = Written(m_stats, f.level)
         /\ \E w \in WithBox(Record([id |-> page, mbr |-> node.mbr], 1)) :
              work' = <<[f EXCEPT !.es = WithoutNext(@, NodeSize(f.level))]>> \o Tail(w)
  /\ UNCHANGED <<overflowTable, client>>

PackedAll ==
  /\ Step("createLevel")
  /\ LET f == work[1] IN Sorted(f) /\ Packs(f) /\ f.es.sorted = <<>>
  /\ Become(<<>>)
  /\ UNCHANGED <<nodes, m_stats, overflowTable>>

\* Mutant of MoreSlabs: the end is not noticed.
MoreSlabsForEver(f) == TRUE

\* bMore: the end is noticed when a record is asked for that is not there, so
\* that the last slab may be empty.
MoreSlabs(f) == Len(f.es.sorted) >= SlabSize(f)

CutSlab ==
  /\ Step("createLevel")
  /\ LET f == work[1]
         taken == NextRecords(f.es, SlabSize(f))
         slab == [k \in DOMAIN taken |-> Record(taken[k], f.dimension + 1)]
     IN  /\ Sorted(f)
         /\ ~Packs(f)
         /\ \E es3 \in InsertAll(NewSorter, slab) :
              Become(<<LevelFrame(es3, f.dimension + 1, f.level)>>
                       \o (IF MoreSlabs(f)
                             THEN <<[f EXCEPT !.es = WithoutNext(@, SlabSize(f))]>>
                             ELSE <<>>))
  /\ UNCHANGED <<nodes, m_stats, overflowTable>>

NextLevel ==
  /\ Step("createLevels")
  /\ LET f == work[1] IN
       /\ f.es2.total # 1
       /\ Become(<<LevelFrame(f.es2, 1, f.level + 1), LoopFrame(f.level + 1, NewSorter)>>)
       /\ m_stats' = Counted(m_stats)
  /\ UNCHANGED <<nodes, overflowTable>>

RootBuilt ==
  /\ Step("createLevels")
  /\ work[1].es2.total = 1
  /\ m_stats' = [m_stats EXCEPT !.u32TreeHeight = work[1].level + 1]
  /\ Become(<<>>)
  /\ UNCHANGED <<nodes, overflowTable>>

ExecuteLoad ==
  \/ LoadRecord
  \/ FirstLevel
  \/ SortInMemory
  \/ SpillTheRest
  \/ TakeOnlyRun
  \/ StartMerge
  \/ MergeNext
  \/ EndMerge
  \/ PackNode
  \/ PackedAll
  \/ CutSlab
  \/ NextLevel
  \/ RootBuilt

==============================================================================
