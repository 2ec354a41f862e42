----------------------------- MODULE LoadedRTree -----------------------------
(***************************************************************************)
(* An R-tree that may be bulk loaded, is then changed, and is queried.     *)
(***************************************************************************)
EXTENDS BulkLoader, RTreeQueries
LOCAL INSTANCE SequencesExt
LOCAL INSTANCE FiniteSetsExt

LoadedNext == QueriedNext \/ BulkLoad \/ ExecuteLoad

(***************************************************************************)
(* As for RTree, whoever makes a call runs it; the fairness of Execute is  *)
(* again put in words.                                                     *)
(***************************************************************************)
LoadsOrAsks ==
  work # <<>> /\ work[1].fn \in {"bulkLoadUsingSTR", "createLevel", "createLevels", "merge"}
                                  \cup QueryKinds

LoadedSpec ==
  /\ Init /\ [][LoadedNext]_vars
  /\ []<>(Idle \/ LoadsOrAsks) \/ []<><<Execute>>_vars
  /\ WF_vars(ExecuteLoad)
  /\ WF_vars(ExecuteQuery)

------------------------------------------------------------------------------
(***************************************************************************)
(* The comment at rtree/BulkLoader.cc:137 calls it an external merge sort: *)
(* whatever createLevel packs or cuts is in the order of its dimension.    *)
(* It is not, once there are two runs to merge.                            *)
(***************************************************************************)
MergeSorts ==
  \A k \in DOMAIN work : work[k].fn = "createLevel" => InOrder(work[k].es.sorted)

\* The objects that a loader's call still holds: of two calls, the one that
\* merges and the one it merges for, the latter.
InSorter(f) ==
  CASE f.fn = "bulkLoadUsingSTR" -> f.stream \o RecordsOf(f.es)
    [] f.fn = "createLevel" -> IF f.level = 0 THEN RecordsOf(f.es) ELSE <<>>
    [] OTHER -> <<>>

TimesInSorters(o) ==
  MapThenSumSet(LAMBDA k : LET records == InSorter(work[k]) IN
                  Cardinality({i \in DOMAIN records :
                                 records[i].id = o.id /\ records[i].mbr = o.mbr}),
                DOMAIN work)

(***************************************************************************)
(* Every record of the stream ends up in one leaf, whatever the numbers of *)
(* records, runs and slabs, and at every step is in one place; from then   *)
(* on the tree is as good as one that was filled by insertData, and no     *)
(* query changes what it holds.                                            *)
(***************************************************************************)
LoadedContract == INSTANCE SpatialIndex WITH
                    MaxCopies <- 2,
                    held <- [o \in Object |->
                               Occurrences(0, LAMBDA e : e = o) + TimesInSorters(o)]

LoadedImplementsSpatialIndex == LoadedContract!Spec

(***************************************************************************)
(* The loader leaves one counter more than there are levels, so that the   *)
(* counter of the next root lands one place too high, and the root's own   *)
(* stays at nothing until the root is split again.                         *)
(***************************************************************************)
RootCounterLost ==
  /\ answer[1] # "loaded"
  /\ Len(m_stats.nodesInLevel) > m_stats.u32TreeHeight
  /\ m_stats.nodesInLevel[m_stats.u32TreeHeight] = 0

(***************************************************************************)
(* All that isIndexValid looks at after a load, whatever is inserted and   *)
(* deleted afterwards: the boxes, the number of nodes, and the counter of  *)
(* every level but a root's that was lost.                                 *)
(***************************************************************************)
LoadedIndexIsValid ==
  Idle =>
    /\ WalkIsValid
    /\ m_stats.u32Nodes = Cardinality(Walk)
    /\ \A l \in 1 .. m_stats.u32TreeHeight :
         \/ m_stats.nodesInLevel[l] = Cardinality({p \in Walk : nodes[Last(p)].level = l - 1})
         \/ l = m_stats.u32TreeHeight /\ RootCounterLost

==============================================================================
