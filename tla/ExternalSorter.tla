--------------------------- MODULE ExternalSorter ---------------------------
(***************************************************************************)
(* ExternalSorter of rtree/BulkLoader.cc: records are collected in a       *)
(* buffer, every full buffer is sorted and written to a temporary file (a  *)
(* run), and the runs are merged, so many at a time, until one is left.    *)
(* A sorter is a value here, for the loader uses several at once.          *)
(*                                                                         *)
(* A record is an entry and the dimension it is to be sorted by.  The      *)
(* pages in which a merge reads its runs ahead are left out: the order in  *)
(* which records leave a run is all that a merge can see of it.            *)
(***************************************************************************)
EXTENDS RTreeNode
LOCAL INSTANCE SequencesExt

CONSTANTS
  PageRecords,  \* m_u32PageSize, in records
  BufferPages   \* m_u32BufferPages

\* createAndBulkLoadNewRTree refuses less.
ASSUME ExternalSorterAssumption ==
  /\ PageRecords \in Nat /\ PageRecords >= 2
  /\ BufferPages \in Nat /\ BufferPages >= 2

NewSorter == [inserting |-> TRUE, buffer |-> <<>>, runs |-> <<>>, sorted |-> <<>>, total |-> 0]

Record(entry, s) == [id |-> entry.id, mbr |-> entry.mbr, s |-> s]

\* Record::operator<, which is about twice the centers in dimension m_s.
SortKey(r) == r.mbr.high[r.s] + r.mbr.low[r.s]

\* std::sort: equal records may change places.
SortedBuffers(buffer) ==
  {Pick(buffer, order) : order \in SortedOrders([k \in DOMAIN buffer |-> SortKey(buffer[k])])}

\* The buffer, sorted, as a new run.
Spilt(es) ==
  {[es EXCEPT !.runs = Append(@, run), !.buffer = <<>>] : run \in SortedBuffers(es.buffer)}

Collected(es, r) == [es EXCEPT !.buffer = Append(@, r), !.total = @ + 1]

\* insert: what may become of the sorter.
Insert(es, r) ==
  IF Len(es.buffer) + 1 >= PageRecords * BufferPages
    THEN Spilt(Collected(es, r))
    ELSE {Collected(es, r)}

InsertAll(es, records) ==
  LET after[k \in 0 .. Len(records)] ==
        IF k = 0 THEN {es} ELSE UNION {Insert(e, records[k]) : e \in after[k - 1]}
  IN  after[Len(records)]

------------------------------------------------------------------------------
(***************************************************************************)
(* sort, in the steps it is made of.                                       *)
(***************************************************************************)
DoneSorting(es, records) ==
  [es EXCEPT !.inserting = FALSE, !.sorted = records, !.buffer = <<>>, !.runs = <<>>]

InMemory(es)   == es.inserting /\ es.runs = <<>>
LeftOver(es)   == es.inserting /\ es.runs # <<>> /\ es.buffer # <<>>
OneRunLeft(es) == es.inserting /\ Len(es.runs) = 1 /\ es.buffer = <<>>
MustMerge(es)  == es.inserting /\ Len(es.runs) > 1 /\ es.buffer = <<>>

SortedInMemory(es) == {DoneSorting(es, records) : records \in SortedBuffers(es.buffer)}

MergeWidth(es) == IF Len(es.runs) < BufferPages THEN Len(es.runs) ELSE BufferPages

Buckets(es) == SubSeq(es.runs, 1, MergeWidth(es))

\* The runs whose next record may be on top of the priority queue.  Its order
\* is that of SortAscending, and a std::priority_queue has the last on top: the
\* runs are ascending, but the greatest of their next records goes first.
TopHeads(buckets) ==
  {i \in DOMAIN buckets :
     /\ buckets[i] # <<>>
     /\ \A j \in DOMAIN buckets :
          buckets[j] # <<>> => SortKey(buckets[i][1]) >= SortKey(buckets[j][1])}

\* Mutant of Merged: the merged run replaces the first of those it was made from.
MergedForgetful(es, run) == [es EXCEPT !.runs = <<run>> \o SubSeq(@, MergeWidth(es) + 2, Len(@))]

\* The merged run goes to the end of the list, behind those not merged yet;
\* the last pass leaves it as the sorted file.
Merged(es, run) ==
  LET rest == SubSeq(es.runs, MergeWidth(es) + 1, Len(es.runs)) IN
    IF rest = <<>> THEN DoneSorting(es, run) ELSE [es EXCEPT !.runs = Append(rest, run)]

------------------------------------------------------------------------------
\* getNextRecord, n times, or until EndOfStreamException.
NextRecords(es, n) == SubSeq(es.sorted, 1, IF n < Len(es.sorted) THEN n ELSE Len(es.sorted))

WithoutNext(es, n) == [es EXCEPT !.sorted = SubSeq(@, n + 1, Len(@))]

\* Where a sorter keeps its records, before and after the sorting.
RecordsOf(es) == es.buffer \o FlattenSeq(es.runs) \o es.sorted

InOrder(records) ==
  \A i, j \in DOMAIN records : i < j => SortKey(records[i]) <= SortKey(records[j])

=============================================================================
