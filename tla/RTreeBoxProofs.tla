---------------------------- MODULE RTreeBoxProofs ----------------------------
(***************************************************************************)
(* Proofs about the MBRs, the fill and the counters of an R-tree: what     *)
(* isIndexValid checks of it, and what findLeaf and the queries rely on.   *)
(***************************************************************************)
EXTENDS RTreeContractProofs
LOCAL INSTANCE SequencesExt

------------------------------------------------------------------------------
(***************************************************************************)
(* MBRs.                                                                   *)
(***************************************************************************)
LEMMA ContainsTransitive ==
  ASSUME NEW a \in Regions, NEW b \in Regions, NEW c \in Regions,
         ContainsRegion(a, b), ContainsRegion(b, c)
  PROVE  ContainsRegion(a, c)
<1>1. \A d \in Dim : /\ a.low[d] \in Int /\ b.low[d] \in Int /\ c.low[d] \in Int
                     /\ a.high[d] \in Int /\ b.high[d] \in Int /\ c.high[d] \in Int
                     /\ a.low[d] <= b.low[d] /\ b.high[d] <= a.high[d]
                     /\ b.low[d] <= c.low[d] /\ c.high[d] <= b.high[d]
  BY DEF Regions, ContainsRegion
<1>2. \A d \in Dim : a.low[d] <= c.low[d] /\ c.high[d] <= a.high[d]
  BY <1>1
<1>3. QED
  BY <1>2 DEF ContainsRegion

LEMMA ContainsItself ==
  ASSUME NEW a \in Regions
  PROVE  ContainsRegion(a, a)
<1>1. \A d \in Dim : a.low[d] \in Int /\ a.high[d] \in Int
  BY DEF Regions
<1>2. QED
  BY <1>1 DEF ContainsRegion

LEMMA InfiniteIsRegion == InfiniteRegion \in Regions
<1>1. Infinity \in Int /\ -Infinity \in Int
  BY RegionAssumption
<1>2. QED
  BY <1>1 DEF InfiniteRegion, Regions

\* A node's MBR covers its entries, and is no larger if MBRs are tight.
BoxOK(n) ==
  /\ ContainsRegion(n.mbr, InfiniteRegion)
  /\ \A k \in DOMAIN n.kids : ContainsRegion(n.mbr, n.kids[k].mbr)
  /\ TightMBRs => n.mbr = NodeBox(n.kids)

LEMMA ComputedBoxOK ==
  ASSUME NEW n, n.kids \in Seq(Entry), n.mbr = NodeBox(n.kids)
  PROVE  BoxOK(n)
BY NodeBoxCovers DEF BoxOK

\* A region that covers the entries covers their MBR.
LEMMA CoversNodeBox ==
  ASSUME NEW kids \in Seq(Entry), NEW box \in Regions, ContainsRegion(box, InfiniteRegion),
         \A k \in DOMAIN kids : ContainsRegion(box, kids[k].mbr)
  PROVE  ContainsRegion(box, NodeBox(kids))
<1> DEFINE least == NodeBox(kids)
<1>1. least \in Regions /\ IsBoxOf(least, MBRs(kids)) /\ MBRs(kids) \in SUBSET Regions
  BY NodeBoxCovers
<1> HIDE DEF least
<1>2. \A r \in MBRs(kids) : ContainsRegion(box, r)
  BY DEF MBRs
<1>3. \A d \in Dim : box.low[d] <= Infinity /\ -Infinity <= box.high[d]
  BY DEF ContainsRegion, InfiniteRegion
<1>4. ASSUME NEW d \in Dim
      PROVE  box.low[d] <= least.low[d] /\ least.high[d] <= box.high[d]
  <2>1. \A r \in MBRs(kids) : box.low[d] <= r.low[d] /\ r.high[d] <= box.high[d]
    BY <1>2 DEF ContainsRegion
  <2>2. /\ least.low[d] \in {r.low[d] : r \in MBRs(kids)} \cup {Infinity}
        /\ least.high[d] \in {r.high[d] : r \in MBRs(kids)} \cup {-Infinity}
    BY <1>1 DEF IsBoxOf
  <2>3. QED
    BY <1>3, <2>1, <2>2
<1>5. QED
  BY <1>4 DEF ContainsRegion, least

\* The node grows.
LEMMA GrownBoxOK ==
  ASSUME NEW n \in Nodes, BoxOK(n), NEW entry \in Entry, NEW m, m = WithEntry(n, entry),
         m.kids = Append(n.kids, entry), m.mbr = CombinedRegion(n.mbr, entry.mbr)
  PROVE  /\ BoxOK(m) /\ ContainsRegion(m.mbr, n.mbr)
         /\ ContainsRegion(n.mbr, entry.mbr) => m.mbr = n.mbr
<1> DEFINE both == {n.mbr, entry.mbr}
<1>1. n.mbr \in Regions /\ entry.mbr \in Regions /\ n.kids \in Seq(Entry)
  BY EntryOf DEF Nodes
<1>2. m.mbr \in Regions /\ IsBoxOf(m.mbr, both)
  <2> DEFINE f == <<n.mbr, entry.mbr>>
  <2>1. f \in [1 .. 2 -> Regions] /\ {f[k] : k \in 1 .. 2} = both
    BY <1>1
  <2>2. both \in SUBSET Regions
    BY <1>1
  <2> HIDE DEF f, both
  <2>3. PICK box \in Regions : IsBoxOf(box, both)
    <3>1. \E box \in Regions : IsBoxOf(box, {f[k] : k \in 1 .. 2})
      BY <2>1, FiniteBox, 2 \in Nat, Zenon
    <3>2. QED
      BY <2>1, <3>1
  <2>4. BoundingBox(both) = box
    BY <2>2, <2>3, BoxIsComputed
  <2>5. QED
    BY <2>3, <2>4 DEF CombinedRegion, both
<1>3. ContainsRegion(m.mbr, n.mbr) /\ ContainsRegion(m.mbr, entry.mbr)
  <2>1. n.mbr \in both /\ entry.mbr \in both
    OBVIOUS
  <2> HIDE DEF both
  <2>2. QED
    BY <1>2, <2>1 DEF IsBoxOf, ContainsRegion
<1>4. ContainsRegion(m.mbr, InfiniteRegion)
  BY <1>1, <1>2, <1>3, InfiniteIsRegion, ContainsTransitive DEF BoxOK
<1>5. ASSUME NEW k \in DOMAIN m.kids
      PROVE  ContainsRegion(m.mbr, m.kids[k].mbr)
  <2>1. CASE k \in DOMAIN n.kids
    <3>1. m.kids[k] = n.kids[k] /\ n.kids[k] \in Entry
      BY <1>1, <2>1
    <3>2. ContainsRegion(n.mbr, n.kids[k].mbr) /\ n.kids[k].mbr \in Regions
      BY <2>1, <3>1, EntryOf DEF BoxOK
    <3>3. QED
      BY <1>1, <1>2, <1>3, <3>1, <3>2, ContainsTransitive
  <2>2. CASE k \notin DOMAIN n.kids
    <3>1. m.kids[k] = entry
      BY <1>1, <2>2
    <3>2. QED
      BY <1>3, <3>1
  <2>3. QED
    BY <2>1, <2>2
<1>6. ASSUME TightMBRs
      PROVE  m.mbr = NodeBox(m.kids)
  <2>1. n.mbr = NodeBox(n.kids)
    BY <1>6 DEF BoxOK
  <2>2. IsBoxOf(n.mbr, MBRs(n.kids)) /\ MBRs(n.kids) \in SUBSET Regions
    BY <1>1, <2>1, NodeBoxCovers
  <2>3. CombinedRegion(n.mbr, entry.mbr) = BoundingBox(MBRs(n.kids) \cup {entry.mbr})
    BY <1>1, <2>2, InsertionCombinesBox
  <2>4. MBRs(m.kids) = MBRs(n.kids) \cup {entry.mbr}
    <3>1. \A k \in DOMAIN n.kids : k \in DOMAIN m.kids /\ m.kids[k] = n.kids[k]
      BY <1>1
    <3>2. Len(n.kids) + 1 \in DOMAIN m.kids /\ m.kids[Len(n.kids) + 1] = entry
      BY <1>1
    <3>3. \A k \in DOMAIN m.kids : k \in DOMAIN n.kids \/ m.kids[k] = entry
      BY <1>1
    <3>4. QED
      BY <3>1, <3>2, <3>3 DEF MBRs
  <2>5. QED
    BY <2>3, <2>4 DEF NodeBox
<1>7. ASSUME ContainsRegion(n.mbr, entry.mbr)
      PROVE  m.mbr = n.mbr
  <2>1. ContainsRegion(n.mbr, InfiniteRegion)
    BY DEF BoxOK
  <2>2. \A d \in Dim : n.mbr.low[d] <= Infinity /\ -Infinity <= n.mbr.high[d]
    BY <2>1 DEF ContainsRegion, InfiniteRegion
  <2>3. \A d \in Dim : n.mbr.low[d] \in Int /\ n.mbr.high[d] \in Int
    BY <1>1 DEF Regions
  <2>4. IsBoxOf(n.mbr, both)
    BY <1>7, <2>2, <2>3 DEF IsBoxOf, ContainsRegion
  <2>5. both \in SUBSET Regions
    BY <1>1
  <2> HIDE DEF both
  <2>6. BoundingBox(both) = n.mbr
    BY <1>1, <2>4, <2>5, BoxIsComputed
  <2>7. QED
    BY <2>6 DEF CombinedRegion, both
<1>8. QED
  BY <1>3, <1>4, <1>5, <1>6, <1>7 DEF BoxOK

\* Sets of regions that differ in one.
OneNew(olds, news, gone, come) ==
  \E others \in SUBSET Regions : olds = others \cup {gone} /\ news = others \cup {come}

\* A child's entry is brought up to date.
LEMMA UpdatedKids ==
  ASSUME NEW kids \in Seq(Entry), NEW child \in KidIds(kids), NEW mbr \in Regions
  PROVE  LET at == PositionOf(kids, child)
             news == Updated(kids, child, mbr)
         IN  /\ at \in DOMAIN kids /\ kids[at].id = child
             /\ news \in Seq(Entry) /\ DOMAIN news = DOMAIN kids /\ SameIds(news, kids)
             /\ news[at].mbr = mbr
             /\ \A k \in DOMAIN kids \ {at} : news[k] = kids[k]
             /\ OneNew(MBRs(kids), MBRs(news), kids[at].mbr, mbr)
<1> DEFINE at == PositionOf(kids, child)
           news == Updated(kids, child, mbr)
           others == {kids[k].mbr : k \in DOMAIN kids \ {at}}
<1>1. PICK i \in DOMAIN kids : kids[i].id = child
  BY DEF KidIds
<1>2. at \in DOMAIN kids /\ kids[at].id = child
  BY <1>1, PositionFound
<1>3. news \in Seq(Entry) /\ SameIds(news, kids)
  BY UpdatedIds
<1>4. news = [kids EXCEPT ![at].mbr = mbr]
  BY DEF Updated
<1> HIDE DEF at, news
<1>5. DOMAIN news = DOMAIN kids /\ \A k \in DOMAIN kids \ {at} : news[k] = kids[k]
  BY <1>4
<1>6. news[at].mbr = mbr
  <2>1. news[at] = [kids[at] EXCEPT !.mbr = mbr] /\ kids[at] \in Entry
    BY <1>2, <1>4
  <2>2. QED
    BY <2>1 DEF Entry
<1>7. others \in SUBSET Regions
  <2>1. \A k \in DOMAIN kids : kids[k] \in Entry
    OBVIOUS
  <2>2. \A k \in DOMAIN kids : kids[k].mbr \in Regions
    BY <2>1, EntryOf
  <2>3. QED
    BY <2>2
<1>8. MBRs(kids) = others \cup {kids[at].mbr}
  BY <1>2 DEF MBRs
<1>9. MBRs(news) = others \cup {mbr}
  BY <1>2, <1>5, <1>6 DEF MBRs
<1> HIDE DEF others
<1>10. OneNew(MBRs(kids), MBRs(news), kids[at].mbr, mbr)
  BY <1>7, <1>8, <1>9, Zenon DEF OneNew
<1>11. QED
  BY <1>2, <1>3, <1>5, <1>6, <1>10 DEF at, news

\* Where the MBR is left alone, or computed again.
LEMMA UpdatedBoxOK ==
  ASSUME NEW n \in Nodes, BoxOK(n), NEW child \in KidIds(n.kids), NEW mbr \in Regions,
         NEW news, mbr \in news, NEW recompute \in BOOLEAN,
         ~recompute => ~MustRecompute(n, child, news)
  PROVE  BoxOK(Adjusted(n, Updated(n.kids, child, mbr), recompute))
<1> DEFINE at == PositionOf(n.kids, child)
           kids == Updated(n.kids, child, mbr)
           m == Adjusted(n, kids, recompute)
<1>1. n.kids \in Seq(Entry) /\ n.mbr \in Regions
  BY DEF Nodes
<1>2. /\ at \in DOMAIN n.kids /\ kids \in Seq(Entry) /\ DOMAIN kids = DOMAIN n.kids
      /\ kids[at].mbr = mbr /\ \A k \in DOMAIN n.kids \ {at} : kids[k] = n.kids[k]
  BY <1>1, UpdatedKids
<1>3. PICK others \in SUBSET Regions : /\ MBRs(n.kids) = others \cup {n.kids[at].mbr}
                                       /\ MBRs(kids) = others \cup {mbr}
  <2>1. OneNew(MBRs(n.kids), MBRs(kids), n.kids[at].mbr, mbr)
    BY <1>1, UpdatedKids
  <2>2. QED
    BY <2>1, Zenon DEF OneNew
<1> HIDE DEF kids
<1>4. m.kids = kids /\ m.mbr = IF recompute THEN NodeBox(kids) ELSE n.mbr
  BY DEF Adjusted, Nodes
<1> HIDE DEF m
<1>5. CASE recompute
  BY <1>2, <1>4, <1>5, ComputedBoxOK DEF m, kids
<1>6. CASE ~recompute
  <2>1. m.mbr = n.mbr
    BY <1>4, <1>6
  <2>2. ~MustRecompute(n, child, news)
    BY <1>6
  <2>3. ContainsRegion(n.mbr, mbr) /\ (TightMBRs => ~TouchesRegion(n.mbr, n.kids[at].mbr))
    BY <2>2 DEF MustRecompute
  <2>4. ASSUME NEW k \in DOMAIN kids
        PROVE  ContainsRegion(n.mbr, kids[k].mbr)
    <3> HIDE DEF at
    <3>1. CASE k = at
      BY <1>2, <2>3, <3>1
    <3>2. CASE k # at
      <4>1. k \in DOMAIN n.kids /\ kids[k] = n.kids[k]
        BY <1>2, <3>2
      <4>2. QED
        BY <4>1 DEF BoxOK
    <3>3. QED
      BY <3>1, <3>2
  <2>5. ASSUME TightMBRs
        PROVE  n.mbr = NodeBox(kids)
    <3>1. n.mbr = NodeBox(n.kids)
      BY <2>5 DEF BoxOK
    <3>2. IsBoxOf(n.mbr, others \cup {n.kids[at].mbr})
      BY <1>1, <1>3, <3>1, NodeBoxCovers
    <3>3. n.kids[at].mbr \in Regions
      <4>1. n.kids[at] \in Entry
        BY <1>1, <1>2
      <4>2. QED
        BY <4>1, EntryOf
    <3>4. ~TouchesRegion(n.mbr, n.kids[at].mbr)
      BY <2>3, <2>5
    <3> HIDE DEF at
    <3>5. BoundingBox(others \cup {mbr}) = n.mbr
      BY <1>1, <2>3, <3>2, <3>3, <3>4, AdjustmentKeepsBox
    <3>6. QED
      BY <1>3, <3>5 DEF NodeBox, at
  <2>6. QED
    BY <1>4, <2>1, <2>4, <2>5 DEF BoxOK, m, kids
<1>7. QED
  BY <1>5, <1>6

\* An entry goes.
LEMMA ShrunkBoxOK ==
  ASSUME NEW n \in Nodes, BoxOK(n), NEW k \in DOMAIN n.kids
  PROVE  /\ BoxOK(DeleteEntry(n, k)) /\ ContainsRegion(n.mbr, DeleteEntry(n, k).mbr)
         /\ \A i \in DOMAIN DeleteEntry(n, k).kids :
              \E j \in DOMAIN n.kids \ {k} : DeleteEntry(n, k).kids[i] = n.kids[j]
<1> DEFINE kids == WithoutEntry(n.kids, k)
           m == DeleteEntry(n, k)
           go == kids = <<>> \/ (TightMBRs /\ TouchesRegion(n.mbr, n.kids[k].mbr))
<1>1. n.kids \in Seq(Entry) /\ n.mbr \in Regions
  BY DEF Nodes
<1>2. OneLess(n.kids, k, kids)
  BY <1>1, OneOut
<1>3. kids \in Seq(Entry)
  BY <1>2 DEF OneLess
<1>4. m.kids = kids /\ m.mbr = IF go THEN NodeBox(kids) ELSE n.mbr
  <2>1. m = [n EXCEPT !.kids = kids, !.mbr = IF go THEN NodeBox(kids) ELSE @]
    BY Zenon DEF DeleteEntry, WithoutEntry
  <2> HIDE DEF m, kids, go
  <2>2. QED
    BY <2>1 DEF Nodes
<1>5. ASSUME NEW i \in DOMAIN kids
      PROVE  \E j \in DOMAIN n.kids \ {k} : kids[i] = n.kids[j]
  <2> HIDE DEF kids
  <2>1. i \in 1 .. Len(n.kids) - 1 /\ k \in 1 .. Len(n.kids) /\ Len(n.kids) \in Nat
    BY <1>1, <1>2, <1>3 DEF OneLess
  <2>2. kids[i] = IF i = k THEN n.kids[Len(n.kids)] ELSE n.kids[i]
    BY <1>2, <2>1 DEF OneLess
  <2>3. Len(n.kids) \in DOMAIN n.kids /\ i \in DOMAIN n.kids /\ Len(n.kids) # i
    BY <1>1, <2>1
  <2>4. QED
    BY <2>2, <2>3
<1>6. ASSUME NEW j \in DOMAIN n.kids \ {k}
      PROVE  \E i \in DOMAIN kids : kids[i] = n.kids[j]
  <2> HIDE DEF kids
  <2>1. j \in 1 .. Len(n.kids) /\ k \in 1 .. Len(n.kids) /\ Len(n.kids) \in Nat
    BY <1>1
  <2>2. DOMAIN kids = 1 .. Len(n.kids) - 1
    BY <1>2, <1>3, <2>1 DEF OneLess
  <2>3. CASE j = Len(n.kids)
    <3>1. k \in 1 .. Len(n.kids) - 1
      BY <2>1, <2>3
    <3>2. kids[k] = n.kids[j]
      BY <1>2, <2>3, <3>1 DEF OneLess
    <3>3. QED
      BY <2>2, <3>1, <3>2
  <2>4. CASE j # Len(n.kids)
    <3>1. j \in 1 .. Len(n.kids) - 1
      BY <2>1, <2>4
    <3>2. kids[j] = n.kids[j]
      BY <1>2, <3>1 DEF OneLess
    <3>3. QED
      BY <2>2, <3>1, <3>2
  <2>5. QED
    BY <2>3, <2>4
<1> HIDE DEF kids, go, m
<1>7. \A i \in DOMAIN kids : ContainsRegion(n.mbr, kids[i].mbr)
  BY <1>5 DEF BoxOK
<1>8. ContainsRegion(n.mbr, InfiniteRegion)
  BY DEF BoxOK
<1>9. ASSUME go
      PROVE  BoxOK(m) /\ ContainsRegion(n.mbr, m.mbr)
  <2>1. BoxOK(m)
    BY <1>3, <1>4, <1>9, ComputedBoxOK
  <2>2. ContainsRegion(n.mbr, NodeBox(kids))
    BY <1>1, <1>3, <1>7, <1>8, CoversNodeBox
  <2>3. QED
    BY <1>4, <1>9, <2>1, <2>2
<1>10. ASSUME ~go
       PROVE  BoxOK(m) /\ ContainsRegion(n.mbr, m.mbr)
  <2>1. m.mbr = n.mbr
    BY <1>4, <1>10
  <2>2. ASSUME TightMBRs
        PROVE  n.mbr = NodeBox(kids)
    <3> DEFINE others == {n.kids[j].mbr : j \in DOMAIN n.kids \ {k}}
    <3>1. MBRs(n.kids) = others \cup {n.kids[k].mbr} /\ MBRs(kids) = others
      <4>1. MBRs(n.kids) = others \cup {n.kids[k].mbr}
        BY DEF MBRs
      <4>2. MBRs(kids) = others
        BY <1>5, <1>6 DEF MBRs
      <4>3. QED
        BY <4>1, <4>2
    <3> HIDE DEF others
    <3>2. n.mbr = NodeBox(n.kids)
      BY <2>2 DEF BoxOK
    <3>3. IsBoxOf(n.mbr, others \cup {n.kids[k].mbr}) /\ others \cup {n.kids[k].mbr} \in SUBSET Regions
      BY <1>1, <3>1, <3>2, NodeBoxCovers
    <3>4. ~TouchesRegion(n.mbr, n.kids[k].mbr)
      BY <1>10, <2>2 DEF go
    <3>5. n.kids[k].mbr \in Regions /\ others \in SUBSET Regions
      BY <3>3
    <3>6. BoundingBox(others) = n.mbr
      BY <1>1, <3>3, <3>4, <3>5, DeletionKeepsBox
    <3>7. QED
      BY <3>1, <3>6 DEF NodeBox
  <2>3. ContainsRegion(n.mbr, n.mbr)
    BY <1>1, ContainsItself
  <2>4. QED
    BY <1>4, <1>7, <1>8, <2>1, <2>2, <2>3 DEF BoxOK
<1>11. BoxOK(m) /\ ContainsRegion(n.mbr, m.mbr)
  BY <1>9, <1>10
<1>12. QED
  BY <1>4, <1>5, <1>11 DEF m

\* condenseTree: a child shrinks.
LEMMA CondensedBoxOK ==
  ASSUME NEW n \in Nodes, BoxOK(n), NEW child \in KidIds(n.kids), NEW mbr \in Regions,
         ContainsRegion(n.kids[PositionOf(n.kids, child)].mbr, mbr)
  PROVE  LET m == Adjusted(n, Updated(n.kids, child, mbr), TightMBRs)
         IN  BoxOK(m) /\ ContainsRegion(n.mbr, m.mbr)
<1> DEFINE at == PositionOf(n.kids, child)
           kids == Updated(n.kids, child, mbr)
           m == Adjusted(n, kids, TightMBRs)
<1>1. n.kids \in Seq(Entry) /\ n.mbr \in Regions
  BY DEF Nodes
<1>2. /\ at \in DOMAIN n.kids /\ kids \in Seq(Entry) /\ DOMAIN kids = DOMAIN n.kids
      /\ kids[at].mbr = mbr /\ \A k \in DOMAIN n.kids \ {at} : kids[k] = n.kids[k]
  BY <1>1, UpdatedKids
<1>3. ContainsRegion(n.kids[at].mbr, mbr)
  OBVIOUS
<1> HIDE DEF kids, at
<1>4. m.kids = kids /\ m.mbr = IF TightMBRs THEN NodeBox(kids) ELSE n.mbr
  BY DEF Adjusted, Nodes
<1> HIDE DEF m
<1>5. ASSUME NEW k \in DOMAIN kids
      PROVE  ContainsRegion(n.mbr, kids[k].mbr)
  <2>1. CASE k # at
    BY <1>2, <2>1 DEF BoxOK
  <2>2. CASE k = at
    <3>1. n.kids[at] \in Entry
      BY <1>1, <1>2
    <3>2. n.kids[at].mbr \in Regions /\ ContainsRegion(n.mbr, n.kids[at].mbr)
      BY <1>2, <3>1, EntryOf DEF BoxOK
    <3>3. QED
      BY <1>1, <1>2, <1>3, <2>2, <3>2, ContainsTransitive
  <2>3. QED
    BY <2>1, <2>2
<1>6. ContainsRegion(n.mbr, InfiniteRegion)
  BY DEF BoxOK
<1>7. CASE TightMBRs
  <2>1. BoxOK(m)
    BY <1>2, <1>4, <1>7, ComputedBoxOK
  <2>2. ContainsRegion(n.mbr, NodeBox(kids))
    BY <1>1, <1>2, <1>5, <1>6, CoversNodeBox
  <2>3. QED
    BY <1>4, <1>7, <2>1, <2>2 DEF m, kids
<1>8. CASE ~TightMBRs
  <2>1. m.mbr = n.mbr
    BY <1>4, <1>8
  <2>2. BoxOK(m)
    BY <1>4, <1>5, <1>6, <1>8, <2>1 DEF BoxOK
  <2>3. QED
    BY <1>1, <2>1, <2>2, ContainsItself DEF m, kids
<1>9. QED
  BY <1>7, <1>8

\* The root, in the end.
LEMMA RecomputedBoxOK ==
  ASSUME NEW n \in Nodes, BoxOK(n)
  PROVE  BoxOK(Adjusted(n, n.kids, TightMBRs))
<1> DEFINE m == Adjusted(n, n.kids, TightMBRs)
<1>1. n.kids \in Seq(Entry)
  BY DEF Nodes
<1>2. m.kids = n.kids /\ m.mbr = IF TightMBRs THEN NodeBox(n.kids) ELSE n.mbr
  BY DEF Adjusted, Nodes
<1> HIDE DEF m
<1>3. CASE TightMBRs
  BY <1>1, <1>2, <1>3, ComputedBoxOK DEF m
<1>4. CASE ~TightMBRs
  BY <1>2, <1>4 DEF BoxOK, m
<1>5. QED
  BY <1>3, <1>4

------------------------------------------------------------------------------
(***************************************************************************)
(* An index node's entry covers its child, and with tight MBRs is the      *)
(* child's own, but for one that the running call is about to change, or   *)
(* whose child has shrunk and is being condensed.  What calls have in hand *)
(* covers what it is for.                                                  *)
(***************************************************************************)
Spans(pages, mbr, id) ==
  ContainsRegion(mbr, pages[id].mbr) /\ (TightMBRs => mbr = pages[id].mbr)

Behind(stack, p, id) ==
  /\ stack # <<>>
  /\ \/ /\ stack[1].fn \in {"adjustTree", "adjustTree2"}
        /\ stack[1].page = p /\ stack[1].child = id
     \/ stack[1].fn = "insertData" /\ stack[1].page = p

Shrinking(stack, id) ==
  stack # <<>> /\ stack[1].fn = "condenseTree" /\ stack[1].page = id

EntryBound(pages, stack, p, e) ==
  \/ Behind(stack, p, e.id)
  \/ Spans(pages, e.mbr, e.id)
  \/ Shrinking(stack, e.id) /\ ContainsRegion(e.mbr, pages[e.id].mbr)

KidsBound(pages, stack, p) ==
  pages[p].level # 0 => \A k \in DOMAIN pages[p].kids : EntryBound(pages, stack, p, pages[p].kids[k])

KidsSpan(pages, node) ==
  node.level # 0 => \A k \in DOMAIN node.kids : Spans(pages, node.kids[k].mbr, node.kids[k].id)

Covering(pages, f) ==
  /\ f.fn \in {"insertData_impl", "chooseSubtree"} /\ f.level # 0
       => Spans(pages, f.entry.mbr, f.entry.id)
  /\ f.fn = "insertData" =>
       /\ f.node.level # 0 => Spans(pages, f.entry.mbr, f.entry.id)
       /\ BoxOK(f.node) /\ KidsSpan(pages, f.node)
       /\ ~f.recomputed => f.node.mbr = pages[f.page].mbr
  /\ f.fn \in {"adjustTree", "adjustTree2"} => Spans(pages, f.mbr, f.child)
  /\ f.fn = "adjustTree2" => Spans(pages, f.entry.mbr, f.entry.id)

Boxes(pages, stack) ==
  /\ \A p \in DOMAIN pages : BoxOK(pages[p]) /\ KidsBound(pages, stack, p)
  /\ \A k \in DOMAIN stack : Covering(pages, stack[k])

BoxInv == Boxes(nodes, work)

LEMMA SpansItself ==
  ASSUME NEW pages, NEW id, NEW mbr, mbr = pages[id].mbr, mbr \in Regions
  PROVE  Spans(pages, mbr, id)
BY ContainsItself DEF Spans

\* What the new stack begins with.
LEMMA OneOnTop ==
  ASSUME TreeInv, work # <<>>, NEW g, Became(<<g>>)
  PROVE  work' # <<>> /\ work'[1] = g
<1> DEFINE new == <<g>>
<1>1. Len(new) = 1 /\ new[1] = g /\ Became(new)
  OBVIOUS
<1> HIDE DEF new
<1>2. /\ Len(work) \in Nat /\ Len(work) >= 1 /\ Len(new) \in Nat
      /\ DOMAIN work' = 1 .. Len(new) + (Len(work) - 1) /\ \A k \in 1 .. Len(new) : work'[k] = new[k]
      /\ work' \in Seq(Frame)
  BY <1>1, StackAfter
<1>3. 1 \in DOMAIN work' /\ work'[1] = new[1]
  BY <1>1, <1>2
<1>4. QED
  BY <1>1, <1>2, <1>3

\* The calls that wait go on covering what they hold.
LEMMA StackCovers ==
  ASSUME TreeInv, BoxInv, work # <<>>, NEW new, Became(new),
         \A k \in DOMAIN new : Covering(nodes', new[k]),
         \A c : Holds(Tail(work), c) => nodes'[c].mbr = nodes[c].mbr
  PROVE  \A k \in DOMAIN work' : Covering(nodes', work'[k])
<1>1. /\ Len(work) \in Nat /\ Len(work) >= 1 /\ Len(new) \in Nat
      /\ DOMAIN new = 1 .. Len(new) /\ DOMAIN work = 1 .. Len(work)
      /\ DOMAIN Tail(work) = 1 .. Len(work) - 1
      /\ \A k \in 1 .. Len(work) - 1 : Tail(work)[k] = work[k + 1] /\ Waiting(work[k + 1])
      /\ DOMAIN work' = 1 .. Len(new) + (Len(work) - 1)
      /\ \A k \in 1 .. Len(new) : work'[k] = new[k]
      /\ \A k \in 1 .. Len(work) - 1 : work'[Len(new) + k] = work[k + 1]
  BY StackAfter
<1> SUFFICES ASSUME NEW k \in DOMAIN work'
             PROVE  Covering(nodes', work'[k])
  OBVIOUS
<1>2. CASE k \in 1 .. Len(new)
  BY <1>1, <1>2
<1>3. CASE k \notin 1 .. Len(new)
  <2> DEFINE j == k - Len(new)
             g == work[j + 1]
  <2>1. j \in 1 .. Len(work) - 1 /\ k = Len(new) + j /\ j + 1 \in DOMAIN work
    <3> DEFINE a == Len(new)
               b == Len(work)
    <3>1. a \in Nat /\ b \in Nat /\ k \in 1 .. a + (b - 1) /\ k \notin 1 .. a /\ DOMAIN work = 1 .. b
      BY <1>1, <1>3
    <3> HIDE DEF a, b
    <3>2. k - a \in 1 .. b - 1 /\ k = a + (k - a) /\ (k - a) + 1 \in 1 .. b
      BY <3>1
    <3>3. QED
      BY <3>1, <3>2 DEF a, b
  <2>2. work'[k] = g /\ Waiting(g) /\ Tail(work)[j] = g /\ j \in DOMAIN Tail(work)
    BY <1>1, <2>1
  <2>3. Covering(nodes, g)
    BY <2>1 DEF BoxInv, Boxes
  <2>4. \A c \in HeldPages(g) : nodes'[c].mbr = nodes[c].mbr
    BY <2>2 DEF Holds
  <2> HIDE DEF g, j
  <2>5. g.fn = "insertData_impl" /\ g.level # 0 => g.entry.id \in HeldPages(g)
    BY DEF HeldPages
  <2>6. Covering(nodes', g)
    BY <2>2, <2>3, <2>4, <2>5 DEF Covering, Waiting, Spans
  <2>7. QED
    BY <2>2, <2>6
<1>4. QED
  BY <1>2, <1>3

\* A page that is in the tree is in no call's hands.
LEMMA OnRouteNotHeld ==
  ASSUME TreeInv, work # <<>>, NEW page, NEW path \in Path,
         Route(nodes, m_rootID, path, page), Lineage(nodes, path, page)
  PROVE  /\ page \in DOMAIN nodes /\ ~Holds(Tail(work), page) /\ page \notin HeldPages(work[1])
         /\ path = <<>> <=> page = m_rootID
         /\ \A q \in DOMAIN nodes : page \in Children(nodes[q]) => path # <<>> /\ q = Last(path)
<1>1. OwnedOnce(nodes, m_rootID, work[1], Tail(work))
  BY HeldByTop DEF TreeInv
<1>2. TreeOK(nodes, m_rootID)
  BY DEF TreeInv, Sound
<1>3. CASE path = <<>>
  <2>1. page = m_rootID /\ page \in DOMAIN nodes
    BY <1>3 DEF Route
  <2>2. \A q \in DOMAIN nodes : page \notin Children(nodes[q])
    BY <1>1, <2>1 DEF OwnedOnce
  <2>3. page \notin HeldPages(work[1]) /\ ~Holds(Tail(work), page)
    BY <1>1, <2>1 DEF OwnedOnce, Holds
  <2>4. QED
    BY <1>3, <2>1, <2>2, <2>3
<1>4. CASE path # <<>>
  <2>1. Last(path) \in DOMAIN nodes /\ Last(path) = path[Len(path)] /\ page \in DOMAIN nodes
    BY <1>2, <1>4, RouteUp, PathFront
  <2>2. page \in Children(nodes[Last(path)])
    BY <1>4, <2>1 DEF Lineage
  <2>3. /\ page # m_rootID /\ page \notin HeldPages(work[1]) /\ ~Holds(Tail(work), page)
        /\ \A q \in DOMAIN nodes : page \in Children(nodes[q]) => Last(path) = q
    BY <1>1, <2>1, <2>2 DEF OwnedOnce
  <2>4. QED
    BY <1>4, <2>1, <2>3
<1>5. QED
  BY <1>3, <1>4

\* A page on the way of an insertion is written: what of the other nodes'
\* entries does not change, and its parent's entry is next, or still right.
LEMMA OthersBound ==
  ASSUME TreeInv, BoxInv, work # <<>>, work[1].fn \in {"insertData", "adjustTree"},
         NEW page, page = work[1].page, NEW path \in Path,
         Route(nodes, m_rootID, path, page), Lineage(nodes, path, page),
         \A q \in DOMAIN nodes \ {page} : q \in DOMAIN nodes' /\ nodes'[q] = nodes[q],
         path # <<>> => Behind(work', Last(path), page) \/ nodes'[page].mbr = nodes[page].mbr
  PROVE  \A q \in DOMAIN nodes \ {page} : BoxOK(nodes'[q]) /\ KidsBound(nodes', work', q)
<1> SUFFICES ASSUME NEW q \in DOMAIN nodes \ {page}
             PROVE  BoxOK(nodes'[q]) /\ KidsBound(nodes', work', q)
  OBVIOUS
<1>1. nodes'[q] = nodes[q] /\ BoxOK(nodes[q]) /\ KidsBound(nodes, work, q)
  BY DEF BoxInv, Boxes
<1>2. ASSUME nodes[q].level # 0, NEW k \in DOMAIN nodes[q].kids
      PROVE  EntryBound(nodes', work', q, nodes[q].kids[k])
  <2> DEFINE e == nodes[q].kids[k]
  <2>1. EntryBound(nodes, work, q, e)
    BY <1>1, <1>2 DEF KidsBound
  <2>2. e.id \in Children(nodes[q])
    BY <1>2 DEF Children, KidIds
  <2>3. e.id \in DOMAIN nodes
    <3>1. FitsIn(nodes, nodes[q])
      BY DEF TreeInv, Sound, TreeOK
    <3>2. QED
      BY <1>2, <2>2, <3>1 DEF FitsIn, Children
  <2> HIDE DEF e
  <2>4. ~Behind(work, q, e.id) /\ ~Shrinking(work, e.id)
    BY DEF Behind, Shrinking
  <2>5. Spans(nodes, e.mbr, e.id)
    BY <2>1, <2>4 DEF EntryBound
  <2>6. CASE e.id # page
    <3>1. nodes'[e.id] = nodes[e.id]
      BY <2>3, <2>6
    <3>2. Spans(nodes', e.mbr, e.id)
      BY <2>5, <3>1 DEF Spans
    <3>3. QED
      BY <3>2 DEF EntryBound, e
  <2>7. CASE e.id = page
    <3>1. path # <<>> /\ q = Last(path)
      BY <2>2, <2>7, OnRouteNotHeld
    <3>2. Behind(work', q, e.id) \/ nodes'[e.id].mbr = nodes[e.id].mbr
      BY <2>7, <3>1
    <3>3. CASE Behind(work', q, e.id)
      BY <3>3 DEF EntryBound, e
    <3>4. CASE nodes'[e.id].mbr = nodes[e.id].mbr
      <4>1. Spans(nodes', e.mbr, e.id)
        BY <2>5, <3>4 DEF Spans
      <4>2. QED
        BY <4>1 DEF EntryBound, e
    <3>5. QED
      BY <3>2, <3>3, <3>4
  <2>8. QED
    BY <2>6, <2>7
<1>3. QED
  BY <1>1, <1>2 DEF KidsBound

------------------------------------------------------------------------------
(***************************************************************************)
(* Steps that write no page.                                               *)
(***************************************************************************)
LEMMA NoPageBoxes ==
  ASSUME TreeInv, BoxInv, work # <<>>, work[1].fn # "condenseTree", nodes' = nodes,
         NEW new, Became(new), \A k \in DOMAIN new : Covering(nodes, new[k]),
         \A q, id : Behind(work, q, id) => Behind(work', q, id)
  PROVE  BoxInv'
<1>1. \A k \in DOMAIN work' : Covering(nodes', work'[k])
  BY StackCovers
<1>2. ASSUME NEW p \in DOMAIN nodes
      PROVE  BoxOK(nodes[p]) /\ KidsBound(nodes, work', p)
  <2>1. BoxOK(nodes[p]) /\ KidsBound(nodes, work, p)
    BY DEF BoxInv, Boxes
  <2>2. ASSUME NEW e, EntryBound(nodes, work, p, e)
        PROVE  EntryBound(nodes, work', p, e)
    BY <2>2 DEF EntryBound, Shrinking
  <2>3. QED
    BY <2>1, <2>2 DEF KidsBound
<1>3. Boxes(nodes, work')
  BY <1>1, <1>2 DEF Boxes
<1>4. QED
  BY <1>3 DEF BoxInv

LEMMA NoneBehind ==
  ASSUME work # <<>>, work[1].fn \notin {"adjustTree", "adjustTree2", "insertData"}
  PROVE  \A q, id : ~Behind(work, q, id)
BY DEF Behind

\* The entry is passed on.
LEMMA PassedOnBoxes ==
  ASSUME TreeInv, BoxInv, work # <<>>, work[1].fn \in {"insertData_impl", "chooseSubtree"},
         nodes' = nodes, NEW g, Became(<<g>>), g.fn = "chooseSubtree",
         g.level = work[1].level, g.entry = work[1].entry
  PROVE  BoxInv'
<1>1. Covering(nodes, work[1])
  <2>1. 1 \in DOMAIN work
    BY DEF TreeInv, Sound, StackOK
  <2>2. QED
    BY <2>1 DEF BoxInv, Boxes
<1>2. Covering(nodes, g)
  BY <1>1 DEF Covering
<1>3. \A q, id : ~Behind(work, q, id)
  BY NoneBehind
<1> DEFINE new == <<g>>
<1>4. \A k \in DOMAIN new : Covering(nodes, new[k])
  BY <1>2
<1>5. Became(new)
  OBVIOUS
<1> HIDE DEF new
<1>6. QED
  BY <1>3, <1>4, <1>5, NoPageBoxes

LEMMA BoxesGoingDown ==
  ASSUME TreeInv, BoxInv, Reinsert \/ Descend
  PROVE  BoxInv'
<1> DEFINE f == work[1]
<1>1. ASSUME Reinsert
      PROVE  BoxInv'
  <2> DEFINE g == ChooseFrame(m_rootID, f.entry, f.level, <<>>)
  <2>1. work # <<>> /\ f.fn = "insertData_impl"
    BY <1>1, InStep, Zenon DEF Reinsert
  <2>2. nodes' = nodes /\ Became(<<g>>)
    BY <1>1, ReinsertDoes
  <2>3. g.fn = "chooseSubtree" /\ g.level = f.level /\ g.entry = f.entry
    BY DEF ChooseFrame
  <2> HIDE DEF g
  <2>4. QED
    BY <2>1, <2>2, <2>3, PassedOnBoxes
<1>2. ASSUME Descend
      PROVE  BoxInv'
  <2>1. work # <<>> /\ f.fn = "chooseSubtree"
    BY <1>2, InStep, Zenon DEF Descend
  <2>2. PICK c \in Children(nodes[f.page]) :
          Became(<<ChooseFrame(c, f.entry, f.level, Append(f.path, f.page))>>)
    BY <1>2, DescendDoes
  <2> DEFINE g == ChooseFrame(c, f.entry, f.level, Append(f.path, f.page))
  <2>3. nodes' = nodes /\ Became(<<g>>)
    BY <1>2, <2>2, DescendDoes
  <2>4. g.fn = "chooseSubtree" /\ g.level = f.level /\ g.entry = f.entry
    BY DEF ChooseFrame
  <2> HIDE DEF g
  <2>5. QED
    BY <2>1, <2>3, <2>4, PassedOnBoxes
<1>3. QED
  BY <1>1, <1>2

\* The copy of a node.
LEMMA BoxesArriving ==
  ASSUME TreeInv, BoxInv, Arrive
  PROVE  BoxInv'
<1> DEFINE f == work[1]
           n == nodes[f.page]
           no == FALSE
           g == InsertFrame(f.page, n, f.entry, f.path, no)
<1>1. work # <<>> /\ f.fn = "chooseSubtree" /\ 1 \in DOMAIN work
  <2>1. work # <<>> /\ f.fn = "chooseSubtree"
    BY InStep, Zenon DEF Arrive
  <2>2. 1 \in DOMAIN work
    BY <2>1 DEF TreeInv, Sound, StackOK
  <2>3. QED
    BY <2>1, <2>2
<1>2. nodes' = nodes /\ n.level = f.level /\ f.page \in DOMAIN nodes /\ Became(<<g>>)
  BY ArriveDoes
<1>3. g.fn = "insertData" /\ g.node = n /\ g.entry = f.entry /\ g.page = f.page
  BY DEF InsertFrame
<1>4. Covering(nodes, f) /\ BoxOK(n) /\ KidsBound(nodes, work, f.page)
  BY <1>1, <1>2 DEF BoxInv, Boxes
<1>5. \A q, id : ~Behind(work, q, id)
  BY <1>1, NoneBehind
<1>6. KidsSpan(nodes, n)
  <2>1. \A id : ~Shrinking(work, id)
    BY <1>1 DEF Shrinking
  <2>2. QED
    BY <1>4, <1>5, <2>1 DEF KidsBound, KidsSpan, EntryBound
<1> HIDE DEF g
<1>7. Covering(nodes, g)
  BY <1>1, <1>2, <1>3, <1>4, <1>6 DEF Covering
<1> DEFINE new == <<g>>
<1>8. \A k \in DOMAIN new : Covering(nodes, new[k])
  BY <1>7
<1>9. Became(new)
  BY <1>2
<1> HIDE DEF new
<1>10. QED
  BY <1>1, <1>2, <1>5, <1>8, <1>9, NoPageBoxes

LEMMA BoxesReturning ==
  ASSUME TreeInv, BoxInv, Finish
  PROVE  BoxInv'
<1>1. work # <<>> /\ work[1].fn = "return" /\ nodes' = nodes
  BY InStep, FinishDoes, Zenon DEF Finish
<1>2. \A q, id : ~Behind(work, q, id)
  BY <1>1, NoneBehind
<1> DEFINE new == <<>>
<1>3. Became(new) /\ \A k \in DOMAIN new : Covering(nodes, new[k])
  BY FinishDoes
<1> HIDE DEF new
<1>4. QED
  BY <1>1, <1>2, <1>3, NoPageBoxes

\* The children of a node with one of them brought up to date.
LEMMA WithChildBoxOK ==
  ASSUME TreeInv, BoxInv, work # <<>>, work[1].fn \in {"adjustTree", "adjustTree2"},
         NEW f, f = work[1], f.mbr \in Regions,
         NEW n, n = nodes[f.page], f.page \in DOMAIN nodes, f.child \in Children(n),
         NEW news, f.mbr \in news, NEW go \in BOOLEAN, ~go => ~MustRecompute(n, f.child, news)
  PROVE  LET m == WithChild(n, f, go)
         IN  BoxOK(m) /\ KidsSpan(nodes, m) /\ (~go => m.mbr = n.mbr)
<1> DEFINE m == WithChild(n, f, go)
           kids == Updated(n.kids, f.child, f.mbr)
           at == PositionOf(n.kids, f.child)
<1>1. n \in Nodes /\ FitsIn(nodes, n) /\ n.kids \in Seq(Entry)
  BY NodesTyped DEF TreeInv, Sound
<1>2. n.level # 0 /\ f.child \in KidIds(n.kids)
  BY DEF Children
<1>3. BoxOK(n) /\ KidsBound(nodes, work, f.page)
  BY DEF BoxInv, Boxes
<1>4. Covering(nodes, f)
  <2>1. 1 \in DOMAIN work
    BY DEF TreeInv, Sound, StackOK
  <2>2. QED
    BY <2>1 DEF BoxInv, Boxes
<1>5. BoxOK(m)
  BY <1>1, <1>2, <1>3, UpdatedBoxOK DEF WithChild
<1>6. /\ at \in DOMAIN n.kids /\ n.kids[at].id = f.child /\ DOMAIN kids = DOMAIN n.kids
      /\ kids[at].mbr = f.mbr /\ SameIds(kids, n.kids) /\ kids \in Seq(Entry)
      /\ \A k \in DOMAIN n.kids \ {at} : kids[k] = n.kids[k]
  BY <1>1, <1>2, UpdatedKids
<1>7. m.kids = kids /\ m.level = n.level /\ (~go => m.mbr = n.mbr)
  BY <1>1 DEF WithChild, Adjusted, Nodes
<1> HIDE DEF m, kids, at
<1>8. ASSUME NEW k \in DOMAIN kids
      PROVE  Spans(nodes, kids[k].mbr, kids[k].id)
  <2>1. CASE k = at
    <3>1. kids[k].id = f.child
      BY <1>1, <1>6, <2>1 DEF SameIds
    <3>2. Spans(nodes, f.mbr, f.child)
      BY <1>4 DEF Covering
    <3>3. QED
      BY <1>6, <2>1, <3>1, <3>2
  <2>2. CASE k # at
    <3>1. kids[k] = n.kids[k] /\ k \in DOMAIN n.kids
      BY <1>6, <2>2
    <3>2. n.kids[k].id # f.child
      BY <1>1, <1>2, <1>6, <2>2, <3>1 DEF FitsIn, DistinctIds
    <3>3. EntryBound(nodes, work, f.page, n.kids[k])
      BY <1>2, <1>3, <3>1 DEF KidsBound
    <3>4. ~Behind(work, f.page, n.kids[k].id) /\ ~Shrinking(work, n.kids[k].id)
      BY <3>2 DEF Behind, Shrinking
    <3>5. QED
      BY <3>1, <3>3, <3>4 DEF EntryBound
  <2>3. QED
    BY <2>1, <2>2
<1>9. KidsSpan(nodes, m)
  BY <1>7, <1>8 DEF KidsSpan
<1>10. QED
  BY <1>5, <1>7, <1>9 DEF m

LEMMA BoxesAfterSplit ==
  ASSUME TreeInv, WayInv, BoxInv, AdjustTreeAfterSplit
  PROVE  BoxInv'
<1> DEFINE f == work[1]
           n == nodes[f.page]
           go == AdjustsAfterSplit(f)
           m == WithChild(n, f, go)
           g == InsertFrame(f.page, m, f.entry, f.path, go)
<1>1. work # <<>> /\ f.fn = "adjustTree2" /\ 1 \in DOMAIN work
  <2>1. work # <<>> /\ f.fn = "adjustTree2"
    BY InStep, Zenon DEF AdjustTreeAfterSplit
  <2>2. 1 \in DOMAIN work
    BY <2>1 DEF TreeInv, Sound, StackOK
  <2>3. QED
    BY <2>1, <2>2
<1>2. /\ f.page \in DOMAIN nodes /\ f.mbr \in Regions /\ n.level # 0 /\ nodes' = nodes
      /\ go \in BOOLEAN /\ Became(<<g>>)
  BY AdjustTreeAfterSplitDoes
<1>3. f.child \in Children(n)
  BY <1>1 DEF WayInv, Upward
<1>4. BoxOK(m) /\ KidsSpan(nodes, m) /\ (~go => m.mbr = n.mbr)
  <2> DEFINE news == {f.mbr, f.entry.mbr}
  <2>1. f.mbr \in news /\ (~go => ~MustRecompute(n, f.child, news))
    BY DEF AdjustsAfterSplit
  <2> HIDE DEF news, go
  <2>2. QED
    BY <1>1, <1>2, <1>3, <2>1, WithChildBoxOK
<1>5. /\ g.fn = "insertData" /\ g.node = m /\ g.entry = f.entry /\ g.page = f.page
      /\ g.recomputed = go
  BY DEF InsertFrame
<1>6. Covering(nodes, f)
  BY <1>1 DEF BoxInv, Boxes
<1> HIDE DEF g, m, go
<1>7. Covering(nodes, g)
  BY <1>1, <1>4, <1>5, <1>6 DEF Covering
<1> DEFINE new == <<g>>
<1>8. \A k \in DOMAIN new : Covering(nodes, new[k])
  BY <1>7
<1>9. Became(new)
  BY <1>2
<1>10. \A q, id : Behind(work, q, id) => Behind(work', q, id)
  <2>1. work' # <<>> /\ work'[1] = g
    BY <1>1, <1>2, OneOnTop
  <2>2. QED
    BY <1>1, <1>5, <2>1 DEF Behind
<1> HIDE DEF new
<1>11. QED
  BY <1>1, <1>2, <1>8, <1>9, <1>10, NoPageBoxes

------------------------------------------------------------------------------
(***************************************************************************)
(* Steps that write the page that an insertion is at.                      *)
(***************************************************************************)

\* Every entry of a full node's groups is one of the node's, or the new one.
LEMMA GroupsAreOf ==
  ASSUME NEW pages, NEW node, FitsIn(pages, node), Full(node), NEW entry \in Entry,
         NEW g, NEW least, Distributes(Overflowing(node, entry), g, least),
         NEW i \in {1, 2}, NEW k \in DOMAIN g[i]
  PROVE  g[i][k] = entry \/ \E j \in DOMAIN node.kids : g[i][k] = node.kids[j]
<1> DEFINE all == Overflowing(node, entry)
           n == Capacity(node.level)
           front == SubSeq(node.kids, 1, n)
<1>1. node.kids \in Seq(Entry) /\ n \in Nat /\ n \in 0 .. Len(node.kids) /\ Len(node.kids) = n
  BY CapacityAtLeastFour DEF FitsIn, Full, Nodes
<1>2. front \in Seq(Entry) /\ Len(front) = n /\ \A j \in 1 .. n : front[j] = node.kids[j]
  BY <1>1, PrefixOf
<1>3. all = Append(front, entry)
  BY DEF Overflowing
<1> HIDE DEF all, front, n
<1>4. ASSUME NEW j \in DOMAIN all
      PROVE  all[j] = entry \/ \E h \in DOMAIN node.kids : all[j] = node.kids[h]
  <2>1. \/ j \in DOMAIN front /\ all[j] = front[j]
        \/ all[j] = entry
    BY <1>2, <1>3, AppendedOne
  <2>2. DOMAIN front = DOMAIN node.kids /\ DOMAIN front = 1 .. n
    BY <1>1, <1>2
  <2>3. QED
    BY <1>2, <2>1, <2>2
<1>5. all \in Seq(Entry)
  BY <1>2, <1>3
<1>6. PICK o \in Orderings(Len(all)), p \in 1 .. Len(all) - 1 :
        g = <<FirstGroup(all, o, p), SecondGroup(all, o, p)>>
  BY DEF Distributes, all
<1> DEFINE m == Len(all)
<1>7. m \in Nat /\ DOMAIN all = 1 .. m /\ p \in Nat /\ p <= m
  BY <1>5
<1>8. g[1] = [h \in 1 .. p |-> all[o[h]]] /\ g[2] = [h \in 1 .. m - p |-> all[o[p + h]]]
  BY <1>6 DEF FirstGroup, SecondGroup
<1>9. o \in [1 .. m -> 1 .. m]
  BY DEF Orderings
<1> HIDE DEF m
<1>10. \E j \in DOMAIN all : g[i][k] = all[j]
  <2>1. CASE i = 1
    <3>1. k \in 1 .. p /\ g[i][k] = all[o[k]]
      BY <1>8, <2>1
    <3>2. o[k] \in DOMAIN all
      BY <1>7, <1>9, <3>1
    <3>3. QED
      BY <3>1, <3>2
  <2>2. CASE i = 2
    <3>1. k \in 1 .. m - p /\ g[i][k] = all[o[p + k]]
      BY <1>8, <2>2
    <3>2. p + k \in 1 .. m
      BY <1>7, <3>1
    <3>3. o[p + k] \in DOMAIN all
      BY <1>7, <1>9, <3>2
    <3>4. QED
      BY <3>1, <3>3
  <2>3. QED
    BY <2>1, <2>2
<1>11. QED
  BY <1>4, <1>10

\* A node whose children are not at the page that changes.
LEMMA SpansElsewhere ==
  ASSUME NEW pages, NEW node, FitsIn(pages, node), NEW page, pages[page].level = node.level,
         NEW pages2, \A q \in DOMAIN pages \ {page} : pages2[q] = pages[q], KidsSpan(pages, node)
  PROVE  KidsSpan(pages2, node)
<1> SUFFICES ASSUME node.level # 0, NEW k \in DOMAIN node.kids
             PROVE  Spans(pages2, node.kids[k].mbr, node.kids[k].id)
  BY DEF KidsSpan
<1> DEFINE c == node.kids[k].id
<1>1. c \in DOMAIN pages /\ pages[c].level = node.level - 1 /\ node.level \in Nat
  BY DEF FitsIn, KidIds, Nodes
<1>2. c # page
  BY <1>1
<1>3. pages2[c] = pages[c]
  BY <1>1, <1>2
<1>4. QED
  BY <1>3 DEF KidsSpan, Spans

LEMMA EntrySpansElsewhere ==
  ASSUME NEW pages, NEW e, NEW level \in Nat, level # 0, EntryAt(pages, e, level),
         NEW page, pages[page].level = level,
         NEW pages2, \A q \in DOMAIN pages \ {page} : pages2[q] = pages[q],
         Spans(pages, e.mbr, e.id)
  PROVE  Spans(pages2, e.mbr, e.id)
<1>1. e.id \in DOMAIN pages /\ e.id # page
  BY DEF EntryAt
<1>2. pages2[e.id] = pages[e.id]
  BY <1>1
<1>3. QED
  BY <1>2 DEF Spans

LEMMA PageWritten ==
  ASSUME TreeInv, WayInv, BoxInv, work # <<>>, work[1].fn \in {"insertData", "adjustTree"},
         NEW page, page = work[1].page, NEW path \in Path, path = work[1].path,
         Route(nodes, m_rootID, path, page),
         \A q \in DOMAIN nodes \ {page} : q \in DOMAIN nodes' /\ nodes'[q] = nodes[q],
         \A q \in DOMAIN nodes' : q = page \/ q \notin DOMAIN nodes =>
           BoxOK(nodes'[q]) /\ KidsBound(nodes', work', q),
         NEW new, Became(new), \A k \in DOMAIN new : Covering(nodes', new[k]),
         path # <<>> => Behind(work', Last(path), page) \/ nodes'[page].mbr = nodes[page].mbr
  PROVE  BoxInv'
<1>1. Lineage(nodes, path, page)
  BY DEF WayInv, Upward
<1>2. \A q \in DOMAIN nodes \ {page} : BoxOK(nodes'[q]) /\ KidsBound(nodes', work', q)
  BY <1>1, OthersBound
<1>3. \A q \in DOMAIN nodes' : BoxOK(nodes'[q]) /\ KidsBound(nodes', work', q)
  BY <1>2
<1>4. ASSUME NEW c, Holds(Tail(work), c)
      PROVE  nodes'[c].mbr = nodes[c].mbr
  <2>1. c # page
    BY <1>1, <1>4, OnRouteNotHeld
  <2>2. c \in DOMAIN nodes
    BY <1>4, HeldByTop DEF TreeInv, OwnedOnce, Holds
  <2>3. QED
    BY <2>1, <2>2
<1>5. \A k \in DOMAIN work' : Covering(nodes', work'[k])
  BY <1>4, StackCovers
<1>6. QED
  BY <1>3, <1>5 DEF BoxInv, Boxes

\* The parent is next.
LEMMA ParentIsBehind ==
  ASSUME NEW page, NEW mbr, NEW path, path # <<>>, NEW force, NEW new,
         new = AdjustParent(page, mbr, path, force), work' # <<>>, work'[1] = new[1]
  PROVE  Behind(work', Last(path), page)
<1>1. work'[1].fn = "adjustTree" /\ work'[1].page = Last(path) /\ work'[1].child = page
  BY DEF AdjustParent
<1>2. QED
  BY <1>1 DEF Behind

\* What it is told covers the page.
LEMMA ParentIsTold ==
  ASSUME NEW pages, NEW page, NEW mbr \in Regions, mbr = pages[page].mbr, NEW path, NEW force,
         NEW new, new = AdjustParent(page, mbr, path, force)
  PROVE  \A k \in DOMAIN new : Covering(pages, new[k])
<1>1. CASE path = <<>>
  BY <1>1 DEF AdjustParent
<1>2. CASE path # <<>>
  <2> DEFINE g == [fn |-> "adjustTree", page |-> Last(path), child |-> page, mbr |-> mbr,
                   path |-> Front(path), force |-> force]
  <2>1. new = <<g>>
    BY <1>2 DEF AdjustParent
  <2>2. g.fn = "adjustTree" /\ g.mbr = mbr /\ g.child = page
    OBVIOUS
  <2> HIDE DEF g
  <2>3. Spans(pages, g.mbr, g.child)
    BY <2>2, SpansItself
  <2>4. Covering(pages, g)
    BY <2>2, <2>3 DEF Covering
  <2>5. QED
    BY <2>1, <2>4
<1>3. QED
  BY <1>1, <1>2

LEMMA KidsSpanBound ==
  ASSUME NEW pages, NEW stack, NEW p, KidsSpan(pages, pages[p])
  PROVE  KidsBound(pages, stack, p)
BY DEF KidsSpan, KidsBound, EntryBound

\* What the new stack begins with, if calls were made.
LEMMA FirstOnTop ==
  ASSUME TreeInv, work # <<>>, NEW new, Became(new), new # <<>>
  PROVE  work' # <<>> /\ work'[1] = new[1]
<1>1. /\ Len(work) \in Nat /\ Len(work) >= 1 /\ Len(new) \in Nat
      /\ DOMAIN work' = 1 .. Len(new) + (Len(work) - 1) /\ \A k \in 1 .. Len(new) : work'[k] = new[k]
      /\ work' \in Seq(Frame) /\ DOMAIN new = 1 .. Len(new)
  BY StackAfter
<1> DEFINE a == Len(new)
           b == Len(work)
<1>2. a \in Nat /\ b \in Nat /\ b >= 1 /\ a # 0
  BY <1>1 DEF Became
<1>3. 1 \in 1 .. a /\ 1 \in 1 .. a + (b - 1)
  <2> HIDE DEF a, b
  <2>1. QED
    BY <1>2
<1>4. 1 \in DOMAIN work' /\ work'[1] = new[1]
  BY <1>1, <1>3
<1>5. QED
  BY <1>1, <1>4

\* The page is written, and the parent told unless the MBR is as before.
LEMMA ParentOrNotBoxes ==
  ASSUME TreeInv, WayInv, BoxInv, work # <<>>, work[1].fn \in {"insertData", "adjustTree"},
         NEW page, page = work[1].page, NEW path \in Path, path = work[1].path,
         Route(nodes, m_rootID, path, page),
         NEW m, FitsIn(nodes, m), m.level = nodes[page].level, OnlyAt(page, m, nodes, nodes'),
         BoxOK(m), KidsSpan(nodes, m), NEW mbr \in Regions, mbr = m.mbr,
         NEW force, NEW go \in BOOLEAN, ~go => mbr = nodes[page].mbr,
         Became(IF go THEN AdjustParent(page, mbr, path, force) ELSE <<>>)
  PROVE  BoxInv'
<1>1. /\ page \in DOMAIN nodes /\ DOMAIN nodes' = DOMAIN nodes /\ nodes'[page] = m
      /\ \A q \in DOMAIN nodes \ {page} : q \in DOMAIN nodes' /\ nodes'[q] = nodes[q]
  BY DEF OnlyAt, Route
<1>2. KidsSpan(nodes', m)
  BY <1>1, SpansElsewhere
<1>3. \A q \in DOMAIN nodes' : q = page \/ q \notin DOMAIN nodes =>
        BoxOK(nodes'[q]) /\ KidsBound(nodes', work', q)
  BY <1>1, <1>2, KidsSpanBound
<1> DEFINE new == IF go THEN AdjustParent(page, mbr, path, force) ELSE <<>>
<1>4. \A k \in DOMAIN new : Covering(nodes', new[k])
  <2>1. CASE go
    <3>1. new = AdjustParent(page, mbr, path, force) /\ mbr = nodes'[page].mbr
      BY <1>1, <2>1
    <3> HIDE DEF new
    <3>2. QED
      BY <3>1, ParentIsTold
  <2>2. CASE ~go
    BY <2>2
  <2>3. QED
    BY <2>1, <2>2
<1>5. ASSUME path # <<>>
      PROVE  Behind(work', Last(path), page) \/ nodes'[page].mbr = nodes[page].mbr
  <2>1. CASE go
    <3>1. new = AdjustParent(page, mbr, path, force) /\ Became(new)
      BY <2>1
    <3>2. new # <<>>
      BY <1>5, <3>1 DEF AdjustParent
    <3> HIDE DEF new
    <3>3. work' # <<>> /\ work'[1] = new[1]
      BY <3>1, <3>2, FirstOnTop
    <3>4. QED
      BY <1>5, <3>1, <3>3, ParentIsBehind
  <2>2. CASE ~go
    BY <1>1, <2>2
  <2>3. QED
    BY <2>1, <2>2
<1>6. Became(new)
  OBVIOUS
<1> HIDE DEF new
<1>7. QED
  BY <1>1, <1>3, <1>4, <1>5, <1>6, PageWritten

\* What an insertion has in hand.
LEMMA InsertingCovers ==
  ASSUME TreeInv, BoxInv, work # <<>>, NEW f, f = work[1], Inserting(f)
  PROVE  /\ f.node.level # 0 => Spans(nodes, f.entry.mbr, f.entry.id)
         /\ BoxOK(f.node) /\ KidsSpan(nodes, f.node)
         /\ ~f.recomputed => f.node.mbr = nodes[f.page].mbr
<1>1. 1 \in DOMAIN work
  BY DEF TreeInv, Sound, StackOK
<1>2. Covering(nodes, f) /\ f.fn = "insertData"
  BY <1>1 DEF BoxInv, Boxes, Inserting
<1>3. QED
  BY <1>2 DEF Covering

LEMMA BoxesInserting ==
  ASSUME TreeInv, WayInv, BoxInv, InsertFits
  PROVE  BoxInv'
<1> DEFINE f == work[1]
           m == WithEntry(f.node, f.entry)
           page == f.page
           path == f.path
           mbr == m.mbr
           go == GoesUp(f)
           no == FALSE
<1>1. work # <<>> /\ f.fn = "insertData"
  BY InStep, Zenon DEF InsertFits
<1>2. /\ Inserting(f) /\ ~Full(f.node)
      /\ m \in Nodes /\ m.level = f.node.level /\ m.kids = Append(f.node.kids, f.entry)
      /\ mbr = CombinedRegion(f.node.mbr, f.entry.mbr) /\ mbr \in Regions
      /\ OnlyAt(page, m, nodes, nodes') /\ go \in BOOLEAN
      /\ Became(IF go THEN AdjustParent(page, mbr, path, no) ELSE <<>>)
  BY InsertFitsDoes
<1>3. /\ f.node.level # 0 => Spans(nodes, f.entry.mbr, f.entry.id)
      /\ BoxOK(f.node) /\ KidsSpan(nodes, f.node)
      /\ ~f.recomputed => f.node.mbr = nodes[f.page].mbr
  BY <1>1, <1>2, InsertingCovers
<1>4. /\ f.node \in Nodes /\ f.entry \in Entry /\ path \in Path /\ Route(nodes, m_rootID, path, page)
      /\ f.node.level = nodes[page].level /\ FitsIn(nodes, f.node) /\ f.node.kids \in Seq(Entry)
      /\ EntryAt(nodes, f.entry, f.node.level)
      /\ f.node.level # 0 => f.entry.id \notin KidIds(f.node.kids)
  BY <1>2 DEF Inserting, FitsIn, Nodes
<1>5. BoxOK(m) /\ (ContainsRegion(f.node.mbr, f.entry.mbr) => m.mbr = f.node.mbr)
  <2> HIDE DEF m
  <2>1. m = WithEntry(f.node, f.entry)
    BY DEF m
  <2> DEFINE n == f.node
             e == f.entry
  <2>2. /\ n \in Nodes /\ BoxOK(n) /\ e \in Entry /\ m = WithEntry(n, e)
        /\ m.kids = Append(n.kids, e) /\ m.mbr = CombinedRegion(n.mbr, e.mbr)
    BY <1>2, <1>3, <1>4, <2>1
  <2>3. BoxOK(m) /\ (ContainsRegion(n.mbr, e.mbr) => m.mbr = n.mbr)
    <3> HIDE DEF n, e
    <3>1. QED
      BY <2>2, GrownBoxOK
  <2>4. QED
    BY <2>3
<1>6. ~go => mbr = nodes[page].mbr
  BY <1>3, <1>5 DEF GoesUp
<1> HIDE DEF m, go
<1>7. KidsSpan(nodes, m) 
  <2> SUFFICES ASSUME m.level # 0, NEW k \in DOMAIN m.kids
               PROVE  Spans(nodes, m.kids[k].mbr, m.kids[k].id)
    BY DEF KidsSpan
  <2>1. \/ k \in DOMAIN f.node.kids /\ m.kids[k] = f.node.kids[k]
        \/ m.kids[k] = f.entry
    BY <1>2, <1>4, AppendedOne
  <2>2. QED
    BY <1>2, <1>3, <2>1 DEF KidsSpan
<1>8. FitsIn(nodes, m)
  <2> DEFINE n == f.node
             e == f.entry
  <2>1. /\ n \in Nodes /\ e \in Entry /\ FitsIn(nodes, n) /\ EntryAt(nodes, e, n.level)
        /\ (n.level # 0 => e.id \notin KidIds(n.kids)) /\ ~Full(n)
    BY <1>2, <1>4
  <2>2. m = WithEntry(n, e)
    BY DEF m
  <2> HIDE DEF n, e
  <2>3. QED
    BY <2>1, <2>2, Grown
<1>9. work[1].fn \in {"insertData", "adjustTree"} /\ page = work[1].page /\ path = work[1].path /\ mbr = m.mbr
      /\ m.level = nodes[page].level
  BY <1>1, <1>2, <1>4
<1> HIDE DEF page, path, mbr, no
<1>10. QED
  BY <1>1, <1>2, <1>4, <1>5, <1>6, <1>7, <1>8, <1>9, ParentOrNotBoxes

LEMMA BoxesAdjusting ==
  ASSUME TreeInv, WayInv, BoxInv, AdjustTree
  PROVE  BoxInv'
<1> DEFINE f == work[1]
           page == f.page
           path == f.path
           force == f.force
           n == nodes[page]
           go == AdjustsAnyway(f)
           m == WithChild(n, f, go)
           mbr == m.mbr
<1>1. work # <<>> /\ f.fn = "adjustTree"
  BY InStep, Zenon DEF AdjustTree
<1>2. /\ page \in DOMAIN nodes /\ Route(nodes, m_rootID, path, page) /\ path \in Path
      /\ f.mbr \in Regions /\ n \in Nodes /\ FitsIn(nodes, n) /\ go \in BOOLEAN
      /\ OnlyAt(page, m, nodes, nodes')
      /\ Became(IF go THEN AdjustParent(page, mbr, path, force) ELSE <<>>)
  BY AdjustTreeDoes
<1>3. f.child \in Children(n)
  BY <1>1 DEF WayInv, Upward
<1> HIDE DEF go
<1>4. FitsIn(nodes, m) /\ m.level = n.level /\ mbr \in Regions
  <2>1. FitsIn(nodes, n) /\ f.mbr \in Regions /\ go \in BOOLEAN /\ m = WithChild(n, f, go)
    BY <1>2
  <2> HIDE DEF m, n, f
  <2>2. QED
    BY <2>1, WithChildOf
<1>5. BoxOK(m) /\ KidsSpan(nodes, m) /\ (~go => mbr = n.mbr)
  <2> DEFINE news == {f.mbr}
  <2>1. f.mbr \in news /\ (~go => ~MustRecompute(n, f.child, news))
    BY DEF AdjustsAnyway, go
  <2> HIDE DEF news
  <2>2. QED
    BY <1>1, <1>2, <1>3, <2>1, WithChildBoxOK
<1> HIDE DEF m
<1>6. work[1].fn \in {"insertData", "adjustTree"} /\ page = work[1].page /\ path = work[1].path /\ mbr = m.mbr
      /\ m.level = nodes[page].level /\ (~go => mbr = nodes[page].mbr)
  BY <1>1, <1>4, <1>5
<1> HIDE DEF page, path, mbr, force
<1>7. QED
  BY <1>1, <1>2, <1>4, <1>5, <1>6, ParentOrNotBoxes

\* Nodes of the entries of an overflowing one.
LEMMA GroupsCovered ==
  ASSUME TreeInv, BoxInv, work # <<>>, NEW f, f = work[1], Inserting(f), Full(f.node),
         NEW g, NEW least, Distributes(Overflowing(f.node, f.entry), g, least), NEW i \in {1, 2}
  PROVE  LET m == Node(f.node.level, g[i])
         IN  /\ BoxOK(m) /\ KidsSpan(nodes, m) /\ FitsIn(nodes, m) /\ m.mbr \in Regions
             /\ m.level = f.node.level /\ m.kids = g[i] /\ g[i] \in Seq(Entry)
<1> DEFINE m == Node(f.node.level, g[i])
<1>1. /\ f.node.level # 0 => Spans(nodes, f.entry.mbr, f.entry.id)
      /\ KidsSpan(nodes, f.node)
  BY InsertingCovers
<1>2. FitsIn(nodes, f.node) /\ f.entry \in Entry
  BY DEF Inserting
<1>3. /\ Parted(f, Node(f.node.level, g[1]), Node(f.node.level, g[2]))
      /\ g[1] \in Seq(Entry) /\ g[2] \in Seq(Entry)
  BY PartsOf
<1>4. g[i] \in Seq(Entry) /\ FitsIn(nodes, m) /\ m.mbr \in Regions
  BY <1>3 DEF Parted
<1>5. m.level = f.node.level /\ m.kids = g[i] /\ m.mbr = NodeBox(g[i])
  BY DEF Node
<1> HIDE DEF m
<1>6. BoxOK(m)
  BY <1>4, <1>5, ComputedBoxOK
<1>7. ASSUME m.level # 0, NEW k \in DOMAIN g[i]
      PROVE  Spans(nodes, g[i][k].mbr, g[i][k].id)
  <2>1. g[i][k] = f.entry \/ \E j \in DOMAIN f.node.kids : g[i][k] = f.node.kids[j]
    BY <1>2, GroupsAreOf
  <2>2. QED
    BY <1>1, <1>5, <1>7, <2>1 DEF KidsSpan
<1>8. KidsSpan(nodes, m)
  BY <1>5, <1>7 DEF KidsSpan
<1>9. QED
  BY <1>4, <1>5, <1>6, <1>8 DEF m

\* Reinsertions of entries that cover their children.
LEMMA ImplsCover ==
  ASSUME NEW pages, NEW kids \in Seq(Entry), NEW level \in Nat, NEW fresh \in BOOLEAN,
         level # 0 => DistinctIds(kids),
         level # 0 => \A k \in DOMAIN kids : Spans(pages, kids[k].mbr, kids[k].id)
  PROVE  \A k \in DOMAIN Impls(kids, level, fresh) : Covering(pages, Impls(kids, level, fresh)[k])
<1> DEFINE list == Impls(kids, level, fresh)
<1>1. /\ DOMAIN list = DOMAIN kids
      /\ \A k \in DOMAIN kids : /\ list[k].fn = "insertData_impl" /\ list[k].level = level
                                /\ list[k].entry = kids[k]
  BY ImplsOf
<1> HIDE DEF list
<1>2. \A k \in DOMAIN list : Covering(pages, list[k])
  BY <1>1 DEF Covering
<1>3. QED
  BY <1>2 DEF list

LEMMA BoxesReinserting ==
  ASSUME ReinsertsSome, TreeInv, WayInv, BoxInv, ForcedReinsert
  PROVE  BoxInv'
<1> DEFINE f == work[1]
           level == f.node.level
           page == f.page
           path == f.path
           all == Overflowing(f.node, f.entry)
           yes == TRUE
           no == FALSE
<1>1. work # <<>> /\ f.fn = "insertData"
  BY InStep, Zenon DEF ForcedReinsert
<1>2. Inserting(f) /\ Full(f.node) /\ path # <<>>
  BY ForcedReinsertDoes
<1>3. PICK r : /\ Distributes(all, r, 1) /\ r[1] \in Seq(Entry) /\ r[2] \in Seq(Entry)
               /\ OnlyAt(page, Node(level, r[1]), nodes, nodes')
               /\ Became(AdjustParent(page, Node(level, r[1]).mbr, path, yes) \o Impls(r[2], level, no))
  BY ForcedReinsertDoes
<1> DEFINE m == Node(level, r[1])
           mbr == m.mbr
           up == AdjustParent(page, mbr, path, yes)
           rest == Impls(r[2], level, no)
           new == up \o rest
           g == [fn |-> "adjustTree", page |-> Last(path), child |-> page, mbr |-> mbr,
                 path |-> Front(path), force |-> yes]
<1>4. /\ path \in Path /\ Route(nodes, m_rootID, path, page) /\ level \in Nat
      /\ level = nodes[page].level /\ page \in DOMAIN nodes
  BY <1>2 DEF Inserting
<1>5. BoxOK(m) /\ KidsSpan(nodes, m) /\ FitsIn(nodes, m) /\ mbr \in Regions /\ m.level = level
  BY <1>1, <1>2, <1>3, GroupsCovered
<1>6. /\ DOMAIN nodes' = DOMAIN nodes /\ nodes'[page] = m
      /\ \A q \in DOMAIN nodes \ {page} : q \in DOMAIN nodes' /\ nodes'[q] = nodes[q]
  BY <1>3 DEF OnlyAt
<1>7. KidsSpan(nodes', m)
  BY <1>4, <1>5, <1>6, SpansElsewhere
<1>8. \A k \in DOMAIN rest : Covering(nodes', rest[k])
  <2> DEFINE m2 == Node(level, r[2])
  <2>1. KidsSpan(nodes, m2) /\ FitsIn(nodes, m2) /\ m2.level = level /\ m2.kids = r[2]
    BY <1>1, <1>2, <1>3, GroupsCovered
  <2>2. KidsSpan(nodes', m2)
    BY <1>4, <1>6, <2>1, SpansElsewhere
  <2>3. level # 0 => \A k \in DOMAIN r[2] : Spans(nodes', r[2][k].mbr, r[2][k].id)
    BY <2>1, <2>2 DEF KidsSpan
  <2>4. level # 0 => DistinctIds(r[2])
    BY <1>2, <1>3, PartsOf
  <2>5. r[2] \in Seq(Entry) /\ no \in BOOLEAN
    BY <1>3
  <2> HIDE DEF no
  <2>6. QED
    BY <1>4, <2>3, <2>4, <2>5, ImplsCover
<1>9. up = <<g>> /\ up[1] = g /\ 1 \in DOMAIN up /\ new = <<g>> \o rest /\ Became(new)
  <2>1. up = <<g>>
    BY <1>2 DEF AdjustParent
  <2>2. up[1] = g /\ 1 \in DOMAIN up
    <3> HIDE DEF up, g
    <3>1. QED
      BY <2>1
  <2>3. QED
    BY <1>3, <2>1, <2>2
<1>10. \A k \in DOMAIN up : Covering(nodes', up[k])
  <2>1. mbr = nodes'[page].mbr
    BY <1>6
  <2> HIDE DEF mbr, yes, g
  <2>2. QED
    BY <1>5, <2>1, ParentIsTold
<1>11. rest \in Seq(Frame)
  <2>1. level # 0 => DistinctIds(r[2])
    BY <1>2, <1>3, PartsOf
  <2>2. r[2] \in Seq(Entry) /\ no \in BOOLEAN
    BY <1>3
  <2> HIDE DEF no
  <2>3. QED
    BY <1>4, <2>1, <2>2, ImplsOf
<1>12. /\ new # <<>> /\ new[1] = g
       /\ \A k \in DOMAIN new : Covering(nodes', new[k])
  <2> HIDE DEF g, rest, up
  <2>1. Covering(nodes', g)
    BY <1>9, <1>10, Zenon
  <2> SUFFICES /\ new # <<>> /\ new[1] = g
               /\ \A k \in DOMAIN new : \/ k = 1 /\ new[k] = g
                                        \/ \E j \in DOMAIN rest : new[k] = rest[j]
    BY <1>8, <2>1
  <2>2. Len(rest) \in Nat /\ DOMAIN rest = 1 .. Len(rest) /\ new = <<g>> \o rest
    BY <1>9, <1>11
  <2> DEFINE s == new
             b == Len(rest)
  <2>3. /\ DOMAIN s = 1 .. 1 + b /\ s[1] = g
        /\ \A k \in 2 .. 1 + b : s[k] = rest[k - 1]
    BY <2>2, <1>11
  <2>4. b \in Nat /\ \A k \in 1 .. 1 + b : k = 1 \/ (k \in 2 .. 1 + b /\ k - 1 \in 1 .. b)
    BY <2>2
  <2>5. QED
    BY <2>2, <2>3, <2>4
<1> HIDE DEF new, m, g
<1>13. Behind(work', Last(path), page)
  <2>1. work' # <<>> /\ work'[1] = new[1]
    BY <1>1, <1>9, <1>12, FirstOnTop
  <2>2. work'[1].fn = "adjustTree" /\ work'[1].page = Last(path) /\ work'[1].child = page
    BY <1>12, <2>1 DEF g
  <2>3. QED
    BY <2>1, <2>2 DEF Behind
<1>14. \A q \in DOMAIN nodes' : q = page \/ q \notin DOMAIN nodes =>
         BoxOK(nodes'[q]) /\ KidsBound(nodes', work', q)
  BY <1>5, <1>6, <1>7, KidsSpanBound
<1>15. work[1].fn \in {"insertData", "adjustTree"} /\ page = work[1].page /\ path = work[1].path
  BY <1>1
<1>16. Became(new) /\ \A k \in DOMAIN new : Covering(nodes', new[k])
  BY <1>9, <1>12
<1> HIDE DEF page, path, level
<1>17. QED
  BY <1>1, <1>4, <1>6, <1>13, <1>14, <1>15, <1>16, PageWritten

LEMMA BoxesSplitting ==
  ASSUME TreeInv, WayInv, BoxInv, SplitNode
  PROVE  BoxInv'
<1> DEFINE f == work[1]
           level == f.node.level
           page == f.page
           path == f.path
           all == Overflowing(f.node, f.entry)
<1>1. work # <<>> /\ f.fn = "insertData"
  BY InStep, Zenon DEF SplitNode
<1>2. Inserting(f) /\ Full(f.node) /\ path # <<>>
  BY SplitNodeDoes
<1>3. PICK g, nn : /\ Distributes(all, g, LeastShare(level))
                   /\ g[1] \in Seq(Entry) /\ g[2] \in Seq(Entry)
                   /\ nn \in Nat /\ nn \notin DOMAIN nodes
                   /\ TwoPages(page, Node(level, g[1]), nn, Node(level, g[2]), nodes, nodes')
                   /\ Became(<<[fn |-> "adjustTree2", page |-> Last(path),
                                child |-> page, mbr |-> Node(level, g[1]).mbr,
                                entry |-> [id |-> nn, mbr |-> Node(level, g[2]).mbr],
                                path |-> Front(path)]>>)
  BY SplitNodeDoes
<1> DEFINE left == Node(level, g[1])
           right == Node(level, g[2])
           up == [fn |-> "adjustTree2", page |-> Last(path), child |-> page, mbr |-> left.mbr,
                  entry |-> [id |-> nn, mbr |-> right.mbr], path |-> Front(path)]
<1>4. /\ path \in Path /\ Route(nodes, m_rootID, path, page)
      /\ level = nodes[page].level /\ page \in DOMAIN nodes
  BY <1>2 DEF Inserting
<1>5. /\ BoxOK(left) /\ KidsSpan(nodes, left) /\ FitsIn(nodes, left) /\ left.mbr \in Regions
      /\ BoxOK(right) /\ KidsSpan(nodes, right) /\ FitsIn(nodes, right) /\ right.mbr \in Regions
      /\ left.level = level /\ right.level = level
  BY <1>1, <1>2, <1>3, GroupsCovered
<1>6. /\ DOMAIN nodes' = DOMAIN nodes \cup {nn} /\ nodes'[page] = left /\ nodes'[nn] = right
      /\ \A q \in DOMAIN nodes \ {page} : q \in DOMAIN nodes' /\ nodes'[q] = nodes[q]
  BY <1>3 DEF TwoPages
<1>7. /\ Became(<<up>>) /\ up.fn = "adjustTree2" /\ up.page = Last(path) /\ up.child = page
      /\ up.mbr = left.mbr /\ up.entry.id = nn /\ up.entry.mbr = right.mbr
  BY <1>3
<1> HIDE DEF left, right, up
<1>8. KidsSpan(nodes', left) /\ KidsSpan(nodes', right)
  BY <1>4, <1>5, <1>6, SpansElsewhere
<1>9. \A q \in DOMAIN nodes' : q = page \/ q \notin DOMAIN nodes =>
         BoxOK(nodes'[q]) /\ KidsBound(nodes', work', q)
  BY <1>5, <1>6, <1>8, KidsSpanBound
<1>10. Covering(nodes', up)
  <2>1. Spans(nodes', left.mbr, page) /\ Spans(nodes', right.mbr, nn)
    BY <1>5, <1>6, SpansItself
  <2>2. QED
    BY <1>7, <2>1 DEF Covering
<1>11. Behind(work', Last(path), page)
  <2>1. work' # <<>> /\ work'[1] = up
    BY <1>1, <1>7, OneOnTop
  <2>2. QED
    BY <1>7, <2>1 DEF Behind
<1> DEFINE new == <<up>>
<1>12. Became(new) /\ \A k \in DOMAIN new : Covering(nodes', new[k])
  BY <1>7, <1>10
<1>13. work[1].fn \in {"insertData", "adjustTree"} /\ page = work[1].page /\ path = work[1].path
  BY <1>1
<1> HIDE DEF page, path, level, new
<1>14. QED
  BY <1>1, <1>4, <1>6, <1>9, <1>11, <1>12, <1>13, PageWritten

LEMMA BoxesSplittingRoot ==
  ASSUME TreeInv, WayInv, BoxInv, SplitRoot
  PROVE  BoxInv'
<1> DEFINE f == work[1]
           level == f.node.level
           page == f.page
           path == f.path
           all == Overflowing(f.node, f.entry)
<1>1. work # <<>> /\ f.fn = "insertData"
  BY InStep, Zenon DEF SplitRoot
<1>2. Inserting(f) /\ Full(f.node) /\ path = <<>> /\ page = m_rootID /\ Became(<<>>)
  BY SplitRootDoes
<1>3. PICK g, n, nn :
        /\ Distributes(all, g, LeastShare(level))
        /\ n # nn /\ n \notin DOMAIN nodes /\ nn \notin DOMAIN nodes
        /\ ThreePages(m_rootID, Node(level + 1, TwoKids(n, Node(level, g[1]).mbr,
                                                        nn, Node(level, g[2]).mbr)),
                      n, Node(level, g[1]), nn, Node(level, g[2]), nodes, nodes')
        /\ TwoKids(n, Node(level, g[1]).mbr, nn, Node(level, g[2]).mbr) \in Seq(Entry)
  BY SplitRootDoes
<1> DEFINE left == Node(level, g[1])
           right == Node(level, g[2])
           kids == TwoKids(n, left.mbr, nn, right.mbr)
           top == Node(level + 1, kids)
<1>4. /\ path \in Path /\ Route(nodes, m_rootID, path, page) /\ level \in Nat
      /\ level = nodes[page].level /\ page \in DOMAIN nodes
  BY <1>2 DEF Inserting
<1>5. /\ BoxOK(left) /\ KidsSpan(nodes, left) /\ FitsIn(nodes, left) /\ left.mbr \in Regions
      /\ BoxOK(right) /\ KidsSpan(nodes, right) /\ FitsIn(nodes, right) /\ right.mbr \in Regions
      /\ left.level = level /\ right.level = level
  BY <1>1, <1>2, <1>3, GroupsCovered
<1>6. /\ DOMAIN nodes' = DOMAIN nodes \cup {n, nn} /\ nodes'[page] = top /\ nodes'[n] = left
      /\ nodes'[nn] = right
      /\ \A q \in DOMAIN nodes \ {page} : q \in DOMAIN nodes' /\ nodes'[q] = nodes[q]
  BY <1>2, <1>3 DEF ThreePages
<1>7. kids \in Seq(Entry) /\ top.kids = kids /\ top.mbr = NodeBox(kids)
  BY <1>3 DEF Node
<1>8. /\ DOMAIN kids = {1, 2} /\ kids[1].id = n /\ kids[2].id = nn
      /\ kids[1].mbr = left.mbr /\ kids[2].mbr = right.mbr
  BY DEF TwoKids
<1> HIDE DEF left, right, kids, top
<1>9. KidsSpan(nodes', left) /\ KidsSpan(nodes', right)
  BY <1>4, <1>5, <1>6, SpansElsewhere
<1>10. BoxOK(top)
  BY <1>7, ComputedBoxOK
<1>11. KidsSpan(nodes', top)
  <2>1. Spans(nodes', left.mbr, n) /\ Spans(nodes', right.mbr, nn)
    BY <1>5, <1>6, SpansItself
  <2>2. QED
    BY <1>7, <1>8, <2>1 DEF KidsSpan
<1>12. \A q \in DOMAIN nodes' : q = page \/ q \notin DOMAIN nodes =>
         BoxOK(nodes'[q]) /\ KidsBound(nodes', work', q)
  BY <1>5, <1>6, <1>9, <1>10, <1>11, KidsSpanBound
<1> DEFINE new == <<>>
<1>13. Became(new) /\ \A k \in DOMAIN new : Covering(nodes', new[k])
  BY <1>2
<1>14. /\ work[1].fn \in {"insertData", "adjustTree"} /\ page = work[1].page /\ path = work[1].path
       /\ path = <<>>
  BY <1>1, <1>2
<1> HIDE DEF page, path, level, new
<1>15. QED
  BY <1>1, <1>4, <1>6, <1>12, <1>13, <1>14, PageWritten

------------------------------------------------------------------------------
(***************************************************************************)
(* Steps of a deletion.                                                    *)
(***************************************************************************)

\* No entry of a node is being changed, or condensed.
LEMMA QuietKids ==
  ASSUME BoxInv, NEW q \in DOMAIN nodes, \A id : ~Behind(work, q, id),
         \A c \in Children(nodes[q]) : ~Shrinking(work, c)
  PROVE  KidsSpan(nodes, nodes[q])
<1> SUFFICES ASSUME nodes[q].level # 0, NEW k \in DOMAIN nodes[q].kids
             PROVE  Spans(nodes, nodes[q].kids[k].mbr, nodes[q].kids[k].id)
  BY DEF KidsSpan
<1>1. EntryBound(nodes, work, q, nodes[q].kids[k])
  BY DEF BoxInv, Boxes, KidsBound
<1>2. nodes[q].kids[k].id \in Children(nodes[q])
  BY DEF Children, KidIds
<1>3. QED
  BY <1>1, <1>2 DEF EntryBound

\* A page shrinks: what of the other nodes' entries does not change, and its
\* parent's entry will be condensed.
LEMMA OthersAroundShrinking ==
  ASSUME TreeInv, BoxInv, NEW page \in DOMAIN nodes, NEW m, m.mbr \in Regions,
         OnlyAt(page, m, nodes, nodes'), ContainsRegion(nodes[page].mbr, m.mbr),
         \A q \in DOMAIN nodes : page \in Children(nodes[q]) => Shrinking(work', page),
         \A q \in DOMAIN nodes \ {page} : KidsSpan(nodes, nodes[q])
  PROVE  \A q \in DOMAIN nodes \ {page} : BoxOK(nodes'[q]) /\ KidsBound(nodes', work', q)
<1> SUFFICES ASSUME NEW q \in DOMAIN nodes \ {page}
             PROVE  BoxOK(nodes'[q]) /\ KidsBound(nodes', work', q)
  OBVIOUS
<1>1. nodes'[q] = nodes[q] /\ BoxOK(nodes[q]) /\ KidsSpan(nodes, nodes[q]) /\ nodes'[page] = m
  BY DEF BoxInv, Boxes, OnlyAt
<1>2. ASSUME nodes[q].level # 0, NEW k \in DOMAIN nodes[q].kids
      PROVE  EntryBound(nodes', work', q, nodes[q].kids[k])
  <2> DEFINE e == nodes[q].kids[k]
  <2>1. Spans(nodes, e.mbr, e.id)
    BY <1>1, <1>2 DEF KidsSpan
  <2>2. e.id \in Children(nodes[q])
    BY <1>2 DEF Children, KidIds
  <2>3. /\ FitsIn(nodes, nodes[q]) /\ nodes[q].kids \in Seq(Entry)
        /\ FitsIn(nodes, nodes[page]) /\ nodes[page].mbr \in Regions
    BY NodesTyped DEF TreeInv, Sound
  <2>4. e.id \in DOMAIN nodes /\ e.mbr \in Regions
    <3>1. e \in Entry
      BY <1>2, <2>3
    <3>2. e.id \in DOMAIN nodes
      BY <1>2, <2>2, <2>3 DEF FitsIn, Children
    <3> HIDE DEF e
    <3>3. QED
      BY <3>1, <3>2, EntryOf
  <2> HIDE DEF e
  <2>5. CASE e.id # page
    <3>1. nodes'[e.id] = nodes[e.id]
      BY <2>4, <2>5 DEF OnlyAt
    <3>2. Spans(nodes', e.mbr, e.id)
      BY <2>1, <3>1 DEF Spans
    <3>3. QED
      BY <3>2 DEF EntryBound, e
  <2>6. CASE e.id = page
    <3>1. Shrinking(work', e.id)
      BY <2>2, <2>6
    <3>2. ContainsRegion(e.mbr, nodes[page].mbr)
      BY <2>1, <2>6 DEF Spans
    <3>3. ContainsRegion(e.mbr, m.mbr)
      BY <2>3, <2>4, <3>2, ContainsTransitive
    <3>4. nodes'[e.id].mbr = m.mbr
      BY <1>1, <2>6
    <3>5. QED
      BY <3>1, <3>3, <3>4 DEF EntryBound, e
  <2>7. QED
    BY <2>5, <2>6
<1>3. QED
  BY <1>1, <1>2 DEF KidsBound

\* While a deletion condenses, only the client's call waits.
LEMMA CondensingHeld ==
  ASSUME TreeInv, work # <<>>, work[1].fn = "condenseTree"
  PROVE  \A c : ~Holds(Tail(work), c)
<1>1. StackOK(nodes, m_rootID, work)
  BY DEF TreeInv, Sound
<1>2. \A k \in DOMAIN Tail(work) : Tail(work)[k].fn = "return"
  BY <1>1, TopOf
<1>3. QED
  BY <1>2 DEF Holds, HeldPages

\* What findLeaf found shrinks.
LEMMA BoxesDeleting ==
  ASSUME TreeInv, BoxInv, NEW o \in Object, DeleteData(o)
  PROVE  BoxInv'
<1> DEFINE none == <<>>
           minus == -1
<1>1. PICK path \in Path, page \in DOMAIN nodes : \E child \in DOMAIN nodes[page].kids :
        /\ work = <<>> /\ nodes[page].level = 0 /\ nodes[page] \in Nodes
        /\ FitsIn(nodes, nodes[page])
        /\ OnlyAt(page, DeleteEntry(nodes[page], child), nodes, nodes')
        /\ work' = <<CondenseFrame(page, path, none), Return(minus)>>
  BY DeleteDataDoes
<1>2. PICK child \in DOMAIN nodes[page].kids :
        /\ work = <<>> /\ nodes[page].level = 0 /\ nodes[page] \in Nodes
        /\ FitsIn(nodes, nodes[page])
        /\ OnlyAt(page, DeleteEntry(nodes[page], child), nodes, nodes')
        /\ work' = <<CondenseFrame(page, path, none), Return(minus)>>
  BY <1>1
<1> DEFINE n == nodes[page]
           m == DeleteEntry(n, child)
           f == CondenseFrame(page, path, none)
           g == Return(minus)
<1>3. f.fn = "condenseTree" /\ f.page = page /\ g.fn = "return" /\ work' = <<f, g>>
  BY <1>2 DEF CondenseFrame, Return
<1>4. BoxOK(n)
  BY DEF BoxInv, Boxes
<1>5. FitsIn(nodes, m) /\ m.level = n.level
  BY <1>2, Shorter
<1>6. BoxOK(m) /\ ContainsRegion(n.mbr, m.mbr)
  BY <1>2, <1>4, ShrunkBoxOK
<1> HIDE DEF f, g, m
<1>7. m.mbr \in Regions
  BY <1>5 DEF FitsIn, Nodes
<1>8. work' # <<>> /\ work'[1] = f /\ DOMAIN work' = {1, 2} /\ work'[2] = g
  BY <1>3
<1>9. Shrinking(work', page)
  BY <1>3, <1>8 DEF Shrinking
<1>10. \A q \in DOMAIN nodes : KidsSpan(nodes, nodes[q])
  <2>1. \A q, id : ~Behind(work, q, id) /\ ~Shrinking(work, id)
    BY <1>2 DEF Behind, Shrinking
  <2>2. QED
    BY <2>1, QuietKids
<1>11. OnlyAt(page, m, nodes, nodes')
  BY <1>2 DEF m
<1>12. \A q \in DOMAIN nodes \ {page} : BoxOK(nodes'[q]) /\ KidsBound(nodes', work', q)
  BY <1>6, <1>7, <1>9, <1>10, <1>11, OthersAroundShrinking
<1>13. BoxOK(nodes'[page]) /\ KidsBound(nodes', work', page)
  BY <1>2, <1>5, <1>6, <1>11 DEF OnlyAt, KidsBound
<1>14. \A k \in DOMAIN work' : Covering(nodes', work'[k])
  BY <1>3, <1>8 DEF Covering
<1>15. QED
  BY <1>11, <1>12, <1>13, <1>14 DEF BoxInv, Boxes, OnlyAt

\* The node above a condensed one, without its entry or with its new MBR.
Condensed(p, at, n) ==
  IF Underfull(n) THEN DeleteEntry(p, at)
                  ELSE Adjusted(p, Updated(p.kids, p.kids[at].id, n.mbr), TightMBRs)

LEMMA CondensedCovers ==
  ASSUME TreeInv, BoxInv, work # <<>>, work[1].fn = "condenseTree", NEW page, page = work[1].page,
         page \in DOMAIN nodes, NEW parent \in DOMAIN nodes, NEW p, p = nodes[parent],
         NEW n, n = nodes[page], p.level = n.level + 1,
         NEW at \in DOMAIN p.kids, p.kids[at].id = page, at = PositionOf(p.kids, page)
  PROVE  LET m == Condensed(p, at, n)
         IN  /\ BoxOK(m) /\ ContainsRegion(p.mbr, m.mbr) /\ FitsIn(nodes, m) /\ m.level = p.level
             /\ KidsSpan(nodes, m)
<1> DEFINE m == Condensed(p, at, n)
<1>1. /\ FitsIn(nodes, p) /\ p \in Nodes /\ p.kids \in Seq(Entry) /\ n \in Nodes /\ n.mbr \in Regions
      /\ p.level \in Nat /\ n.level \in Nat /\ p.mbr \in Regions
  BY NodesTyped DEF TreeInv, Sound
<1>2. p.level # 0 /\ page \in KidIds(p.kids)
  BY <1>1 DEF KidIds
<1>3. BoxOK(p) /\ KidsBound(nodes, work, parent)
  BY DEF BoxInv, Boxes
<1>4. \A q, id : ~Behind(work, q, id) /\ (Shrinking(work, id) => id = page)
  BY DEF Behind, Shrinking
<1>5. ASSUME NEW j \in DOMAIN p.kids \ {at}
      PROVE  Spans(nodes, p.kids[j].mbr, p.kids[j].id)
  <2>1. p.kids[j].id # page
    BY <1>1, <1>2 DEF FitsIn, DistinctIds
  <2>2. EntryBound(nodes, work, parent, p.kids[j])
    BY <1>2, <1>3 DEF KidsBound
  <2>3. QED
    BY <1>4, <2>1, <2>2 DEF EntryBound
<1>6. ContainsRegion(p.kids[at].mbr, n.mbr)
  <2>1. EntryBound(nodes, work, parent, p.kids[at])
    BY <1>2, <1>3 DEF KidsBound
  <2>2. QED
    BY <1>4, <2>1 DEF EntryBound, Spans
<1>7. ASSUME Underfull(n)
      PROVE  /\ BoxOK(m) /\ ContainsRegion(p.mbr, m.mbr) /\ FitsIn(nodes, m) /\ m.level = p.level
             /\ KidsSpan(nodes, m)
  <2>1. m = DeleteEntry(p, at)
    BY <1>7 DEF Condensed
  <2> HIDE DEF m
  <2>2. /\ BoxOK(m) /\ ContainsRegion(p.mbr, m.mbr)
        /\ \A i \in DOMAIN m.kids : \E j \in DOMAIN p.kids \ {at} : m.kids[i] = p.kids[j]
    BY <1>1, <1>3, <2>1, ShrunkBoxOK
  <2>3. FitsIn(nodes, m) /\ m.level = p.level
    BY <1>1, <2>1, Shorter
  <2>4. KidsSpan(nodes, m)
    BY <1>5, <2>2 DEF KidsSpan
  <2>5. QED
    BY <2>2, <2>3, <2>4
<1>8. ASSUME ~Underfull(n)
      PROVE  /\ BoxOK(m) /\ ContainsRegion(p.mbr, m.mbr) /\ FitsIn(nodes, m) /\ m.level = p.level
             /\ KidsSpan(nodes, m)
  <2> DEFINE mbr == n.mbr
             kids == Updated(p.kids, page, mbr)
  <2>1. m = Adjusted(p, kids, TightMBRs)
    BY <1>8 DEF Condensed
  <2>2. mbr \in Regions
    BY <1>1
  <2>3. /\ DOMAIN kids = DOMAIN p.kids /\ kids[at].mbr = mbr /\ SameIds(kids, p.kids)
        /\ kids \in Seq(Entry)
        /\ \A k \in DOMAIN p.kids \ {at} : kids[k] = p.kids[k]
    <3> HIDE DEF mbr
    <3>1. QED
      BY <1>1, <1>2, <2>2, UpdatedKids
  <2>4. BoxOK(m) /\ ContainsRegion(p.mbr, m.mbr)
    <3>1. ContainsRegion(p.kids[PositionOf(p.kids, page)].mbr, mbr)
      BY <1>6
    <3>2. p \in Nodes /\ BoxOK(p) /\ page \in KidIds(p.kids)
      BY <1>1, <1>2, <1>3
    <3> HIDE DEF mbr, m
    <3> DEFINE new == Adjusted(p, Updated(p.kids, page, mbr), TightMBRs)
    <3>3. BoxOK(new) /\ ContainsRegion(p.mbr, new.mbr)
      BY <2>2, <3>1, <3>2, CondensedBoxOK, Zenon
    <3>4. m = new
      BY <2>1
    <3> HIDE DEF new
    <3>5. QED
      BY <3>3, <3>4
  <2>5. FitsIn(nodes, m) /\ m.level = p.level
    <3> DEFINE f == [child |-> page, mbr |-> mbr]
               tight == TightMBRs
    <3>1. m = WithChild(p, f, tight)
      BY <2>1 DEF WithChild
    <3>2. f.mbr \in Regions /\ tight \in BOOLEAN
      BY <2>2, RTreeAssumption
    <3>3. FitsIn(nodes, p)
      BY <1>1
    <3> HIDE DEF f, m, tight
    <3>4. FitsIn(nodes, WithChild(p, f, tight)) /\ WithChild(p, f, tight).level = p.level
      BY <3>2, <3>3, WithChildOf
    <3>5. QED
      BY <3>1, <3>4
  <2>6. m.kids = kids
    BY <1>1, <2>1 DEF Adjusted, Nodes
  <2>7. kids[at].id = page
    BY <1>1, <2>3 DEF SameIds
  <2>8. Spans(nodes, mbr, page)
    BY <2>2, SpansItself
  <2> HIDE DEF m, kids, mbr
  <2>9. \A k \in DOMAIN kids : Spans(nodes, kids[k].mbr, kids[k].id)
    BY <1>5, <2>3, <2>7, <2>8
  <2>10. KidsSpan(nodes, m)
    BY <2>6, <2>9 DEF KidsSpan
  <2>11. QED
    BY <2>4, <2>5, <2>10
<1>9. QED
  BY <1>7, <1>8 DEF m

LEMMA BoxesCondensing ==
  ASSUME TreeInv, BoxInv, CondenseTree
  PROVE  BoxInv'
<1> DEFINE f == work[1]
           page == f.page
           n == nodes[page]
           parent == Last(f.path)
           p == nodes[parent]
           at == PositionOf(p.kids, page)
           m == Condensed(p, at, n)
           g == CondenseFrame(parent, Front(f.path),
                  IF Underfull(n) THEN Append(f.toReinsert, page) ELSE f.toReinsert)
<1>1. work # <<>> /\ f.fn = "condenseTree"
  BY InStep, Zenon DEF CondenseTree
<1>2. /\ page \in DOMAIN nodes /\ parent \in DOMAIN nodes /\ p.level = n.level + 1
      /\ at \in DOMAIN p.kids /\ p.kids[at].id = page
  BY CondenseTreeDoes
<1>3. OnlyAt(parent, m, nodes, nodes')
  <2>1. OnlyAt(parent, IF Underfull(n) THEN DeleteEntry(p, at)
                         ELSE Adjusted(p, Updated(p.kids, page, n.mbr), TightMBRs), nodes, nodes')
    BY CondenseTreeDoes
  <2>2. m = IF Underfull(n) THEN DeleteEntry(p, at)
                            ELSE Adjusted(p, Updated(p.kids, page, n.mbr), TightMBRs)
    BY <1>2 DEF Condensed
  <2> HIDE DEF m, n, p
  <2>3. QED
    BY <2>1, <2>2
<1>4. Became(<<g>>) /\ g.fn = "condenseTree" /\ g.page = parent
  BY CondenseTreeDoes DEF CondenseFrame
<1> HIDE DEF g
<1>5. /\ BoxOK(m) /\ ContainsRegion(p.mbr, m.mbr) /\ FitsIn(nodes, m) /\ m.level = p.level
      /\ KidsSpan(nodes, m)
  BY <1>1, <1>2, CondensedCovers
<1> HIDE DEF m
<1>6. m.mbr \in Regions
  BY <1>5 DEF FitsIn, Nodes
<1>7. work' # <<>> /\ work'[1] = g
  BY <1>1, <1>4, OneOnTop
<1>8. Shrinking(work', parent)
  BY <1>4, <1>7 DEF Shrinking
<1>9. \A q \in DOMAIN nodes \ {parent} : KidsSpan(nodes, nodes[q])
  <2>1. \A q, id : ~Behind(work, q, id)
    BY <1>1 DEF Behind
  <2>2. OwnedOnce(nodes, m_rootID, f, Tail(work))
    BY <1>1, HeldByTop DEF TreeInv
  <2>3. p.level # 0
    BY <1>2, NodesTyped DEF TreeInv, Sound
  <2>4. page \in Children(p)
    BY <1>2, <2>3 DEF Children, KidIds
  <2>5. ASSUME NEW q \in DOMAIN nodes \ {parent}, NEW c \in Children(nodes[q])
        PROVE  ~Shrinking(work, c)
    <3>1. c # page
      BY <1>2, <2>2, <2>4, <2>5 DEF OwnedOnce
    <3>2. QED
      BY <3>1 DEF Shrinking
  <2>6. QED
    BY <2>1, <2>5, QuietKids
<1>10. \A q \in DOMAIN nodes \ {parent} : BoxOK(nodes'[q]) /\ KidsBound(nodes', work', q)
  BY <1>2, <1>3, <1>5, <1>6, <1>8, <1>9, OthersAroundShrinking
<1>11. nodes'[parent] = m /\ KidsSpan(nodes', m) /\ DOMAIN nodes' = DOMAIN nodes
  <2>1. /\ nodes'[parent] = m /\ DOMAIN nodes' = DOMAIN nodes
        /\ \A q \in DOMAIN nodes \ {parent} : nodes'[q] = nodes[q]
    BY <1>3 DEF OnlyAt
  <2>2. nodes[parent].level = m.level
    BY <1>5
  <2>3. KidsSpan(nodes', m)
    BY <1>5, <2>1, <2>2, SpansElsewhere
  <2>4. QED
    BY <2>1, <2>3
<1> DEFINE new == <<g>>
<1>12. Became(new) /\ \A k \in DOMAIN new : Covering(nodes', new[k])
  <2>1. Covering(nodes', g)
    BY <1>4 DEF Covering
  <2>2. QED
    BY <1>4, <2>1
<1> HIDE DEF new
<1>13. \A k \in DOMAIN work' : Covering(nodes', work'[k])
  <2>1. \A c : ~Holds(Tail(work), c)
    BY <1>1, CondensingHeld
  <2>2. QED
    BY <1>1, <1>12, <2>1, StackCovers
<1>14. BoxOK(nodes'[parent]) /\ KidsBound(nodes', work', parent)
  BY <1>5, <1>11, KidsSpanBound
<1>15. QED
  BY <1>10, <1>11, <1>13, <1>14 DEF BoxInv, Boxes

\* Deletions of nodes that hold nothing back.
LEMMA DisposalsCover ==
  ASSUME NEW pages, NEW list \in Seq(Nat), \A i, j \in DOMAIN list : list[i] = list[j] => i = j
  PROVE  \A k \in DOMAIN Disposals(list) : Covering(pages, Disposals(list)[k])
<1>1. \A k \in DOMAIN Disposals(list) : Disposals(list)[k].fn = "deleteNode"
  BY DisposalsOf
<1>2. QED
  BY <1>1 DEF Covering

\* The root is no node's child, so that all is quiet once it is condensed.
LEMMA AtRootQuiet ==
  ASSUME TreeInv, BoxInv, work # <<>>, work[1].fn = "condenseTree", work[1].page = m_rootID
  PROVE  \A q \in DOMAIN nodes : KidsSpan(nodes, nodes[q])
<1>1. OwnedOnce(nodes, m_rootID, work[1], Tail(work))
  BY HeldByTop DEF TreeInv
<1>2. \A q \in DOMAIN nodes : \A c \in Children(nodes[q]) : ~Shrinking(work, c)
  BY <1>1 DEF OwnedOnce, Shrinking
<1>3. \A q, id : ~Behind(work, q, id)
  BY DEF Behind
<1>4. QED
  BY <1>2, <1>3, QuietKids

LEMMA RootDisposals ==
  ASSUME TreeInv, Step("condenseTree"), AtRoot(work[1])
  PROVE  \A k \in DOMAIN Disposals(work[1].toReinsert) :
           Covering(nodes', Disposals(work[1].toReinsert)[k])
<1>1. work[1].path = <<>>
  BY DEF AtRoot
<1> DEFINE list == work[1].toReinsert
           pages == nodes'
<1>2. list \in Seq(Nat) /\ \A i, j \in DOMAIN list : list[i] = list[j] => i = j
  BY <1>1, AtTheRoot
<1> HIDE DEF list, pages
<1>3. \A k \in DOMAIN Disposals(list) : Covering(pages, Disposals(list)[k])
  BY <1>2, DisposalsCover
<1>4. QED
  BY <1>3 DEF list, pages

LEMMA BoxesAtRoot ==
  ASSUME TreeInv, BoxInv, CondenseRoot
  PROVE  BoxInv'
<1> DEFINE f == work[1]
           n == nodes[m_rootID]
           tight == TightMBRs
           m == Adjusted(n, n.kids, tight)
           new == Disposals(f.toReinsert)
<1>1. work # <<>> /\ f.fn = "condenseTree" /\ f.page = m_rootID /\ m_rootID \in DOMAIN nodes
  BY InStep, CondenseRootDoes, Zenon DEF CondenseRoot
<1>2. OnlyAt(m_rootID, m, nodes, nodes') /\ Became(new) /\ n \in Nodes
  BY <1>1, CondenseRootDoes, NodesTyped DEF TreeInv, Sound
<1>3. BoxOK(n) /\ \A q \in DOMAIN nodes : KidsSpan(nodes, nodes[q])
  BY <1>1, AtRootQuiet DEF BoxInv, Boxes
<1>4. BoxOK(m)
  BY <1>2, <1>3, RecomputedBoxOK
<1>5. m.kids = n.kids /\ m.level = n.level
  BY <1>2 DEF Adjusted, Nodes
<1>6. \A k \in DOMAIN new : Covering(nodes', new[k])
  BY RootDisposals DEF CondenseRoot
<1> HIDE DEF m, tight, new
<1>7. /\ DOMAIN nodes' = DOMAIN nodes /\ nodes'[m_rootID] = m
      /\ \A q \in DOMAIN nodes \ {m_rootID} : nodes'[q] = nodes[q]
  BY <1>2 DEF OnlyAt
<1>8. OwnedOnce(nodes, m_rootID, f, Tail(work))
  BY <1>1, HeldByTop DEF TreeInv
<1>9. ASSUME NEW q \in DOMAIN nodes, nodes[q].level # 0, NEW k \in DOMAIN nodes[q].kids
      PROVE  Spans(nodes', nodes[q].kids[k].mbr, nodes[q].kids[k].id)
  <2> DEFINE c == nodes[q].kids[k].id
  <2>1. c \in Children(nodes[q])
    BY <1>9 DEF Children, KidIds
  <2>2. c \in DOMAIN nodes /\ c # m_rootID
    BY <1>8, <2>1 DEF OwnedOnce
  <2>3. nodes'[c] = nodes[c]
    BY <1>7, <2>2
  <2>4. QED
    BY <1>3, <1>9, <2>3 DEF KidsSpan, Spans
<1>10. ASSUME NEW q \in DOMAIN nodes
       PROVE  BoxOK(nodes'[q]) /\ KidsSpan(nodes', nodes'[q])
  <2>1. BoxOK(nodes[q])
    BY DEF BoxInv, Boxes
  <2>2. CASE q = m_rootID
    BY <1>4, <1>5, <1>7, <1>9, <2>2 DEF KidsSpan
  <2>3. CASE q # m_rootID
    BY <1>7, <1>9, <2>1, <2>3 DEF KidsSpan
  <2>4. QED
    BY <2>2, <2>3
<1>11. \A k \in DOMAIN work' : Covering(nodes', work'[k])
  <2>1. \A c : ~Holds(Tail(work), c)
    BY <1>1, CondensingHeld
  <2>2. QED
    BY <1>1, <1>2, <1>6, <2>1, StackCovers
<1>12. QED
  BY <1>7, <1>10, <1>11, KidsSpanBound DEF BoxInv, Boxes

\* A page goes, and another may take over its node.
LEMMA BoxesCollapsing ==
  ASSUME TreeInv, BoxInv, CollapseRoot
  PROVE  BoxInv'
<1> DEFINE f == work[1]
           n == nodes[m_rootID]
           child == n.kids[1].id
           new == Disposals(f.toReinsert)
<1>1. work # <<>> /\ f.fn = "condenseTree" /\ f.page = m_rootID
  BY InStep, CollapseRootDoes, Zenon DEF CollapseRoot
<1>2. /\ child \in DOMAIN nodes /\ child # m_rootID /\ child \in Children(n)
      /\ DOMAIN nodes' = DOMAIN nodes \ {child} /\ nodes'[m_rootID] = nodes[child]
      /\ \A p \in DOMAIN nodes \ {m_rootID, child} : nodes'[p] = nodes[p]
      /\ Became(new)
  BY CollapseRootDoes
<1>3. \A q \in DOMAIN nodes : KidsSpan(nodes, nodes[q])
  BY <1>1, AtRootQuiet
<1>4. \A k \in DOMAIN new : Covering(nodes', new[k])
  BY RootDisposals DEF CollapseRoot
<1>5. OwnedOnce(nodes, m_rootID, f, Tail(work)) /\ m_rootID \in DOMAIN nodes
  BY <1>1, HeldByTop DEF TreeInv, Sound, TreeOK
<1> HIDE DEF new
<1>6. ASSUME NEW q \in DOMAIN nodes \ {m_rootID}
      PROVE  KidsSpan(nodes', nodes[q])
  <2> SUFFICES ASSUME nodes[q].level # 0, NEW k \in DOMAIN nodes[q].kids
               PROVE  Spans(nodes', nodes[q].kids[k].mbr, nodes[q].kids[k].id)
    BY DEF KidsSpan
  <2> DEFINE c == nodes[q].kids[k].id
  <2>1. c \in Children(nodes[q])
    BY DEF Children, KidIds
  <2>2. c \in DOMAIN nodes /\ c # m_rootID /\ c # child
    BY <1>2, <1>5, <2>1 DEF OwnedOnce
  <2>3. nodes'[c] = nodes[c]
    BY <1>2, <2>2
  <2>4. QED
    BY <1>3, <2>3 DEF KidsSpan, Spans
<1>7. ASSUME NEW q \in DOMAIN nodes'
      PROVE  BoxOK(nodes'[q]) /\ KidsSpan(nodes', nodes'[q])
  <2>1. \E p \in DOMAIN nodes \ {m_rootID} : nodes'[q] = nodes[p]
    BY <1>2
  <2>2. \A p \in DOMAIN nodes : BoxOK(nodes[p])
    BY DEF BoxInv, Boxes
  <2>3. QED
    BY <1>6, <2>1, <2>2
<1>8. \A k \in DOMAIN work' : Covering(nodes', work'[k])
  <2>1. \A c : ~Holds(Tail(work), c)
    BY <1>1, CondensingHeld
  <2>2. QED
    BY <1>1, <1>2, <1>4, <2>1, StackCovers
<1>9. QED
  BY <1>7, <1>8, KidsSpanBound DEF BoxInv, Boxes

\* A node that was cut off goes, and its entries are reinserted.
LEMMA BoxesDeletingNode ==
  ASSUME TreeInv, BoxInv, DeleteNode
  PROVE  BoxInv'
<1> DEFINE page == work[1].page
           n == nodes[page]
           yes == TRUE
           kids == n.kids
           level == n.level
           new == Impls(kids, level, yes)
<1>1. work # <<>> /\ work[1].fn = "deleteNode"
  BY InStep, Zenon DEF DeleteNode
<1>2. /\ page \in DOMAIN nodes /\ n \in Nodes /\ (level # 0 => DistinctIds(kids))
      /\ \A p \in DOMAIN nodes : page \notin Children(nodes[p])
      /\ ~Holds(Tail(work), page)
      /\ DOMAIN nodes' = DOMAIN nodes \ {page}
      /\ \A p \in DOMAIN nodes \ {page} : nodes'[p] = nodes[p]
      /\ Became(new)
  BY DeleteNodeDoes
<1>3. \A q \in DOMAIN nodes : KidsSpan(nodes, nodes[q])
  <2>1. \A q, id : ~Behind(work, q, id) /\ ~Shrinking(work, id)
    BY <1>1 DEF Behind, Shrinking
  <2>2. QED
    BY <2>1, QuietKids
<1>4. OwnedOnce(nodes, m_rootID, work[1], Tail(work))
  BY <1>1, HeldByTop DEF TreeInv
<1> HIDE DEF new
<1>5. ASSUME NEW q \in DOMAIN nodes
      PROVE  KidsSpan(nodes', nodes[q])
  <2> SUFFICES ASSUME nodes[q].level # 0, NEW k \in DOMAIN nodes[q].kids
               PROVE  Spans(nodes', nodes[q].kids[k].mbr, nodes[q].kids[k].id)
    BY DEF KidsSpan
  <2> DEFINE c == nodes[q].kids[k].id
  <2>1. c \in Children(nodes[q])
    BY DEF Children, KidIds
  <2>2. c \in DOMAIN nodes /\ c # page
    BY <1>2, <1>4, <2>1 DEF OwnedOnce
  <2>3. nodes'[c] = nodes[c]
    BY <1>2, <2>2
  <2>4. QED
    BY <1>3, <2>3 DEF KidsSpan, Spans
<1>6. \A q \in DOMAIN nodes' : BoxOK(nodes'[q]) /\ KidsSpan(nodes', nodes'[q])
  BY <1>2, <1>5 DEF BoxInv, Boxes
<1>7. \A k \in DOMAIN new : Covering(nodes', new[k])
  <2>1. kids \in Seq(Entry) /\ level \in Nat /\ yes \in BOOLEAN
    BY <1>2 DEF Nodes
  <2>2. KidsSpan(nodes', n)
    BY <1>2, <1>5
  <2>3. level # 0 => \A k \in DOMAIN kids : Spans(nodes', kids[k].mbr, kids[k].id)
    BY <2>2 DEF KidsSpan
  <2> HIDE DEF kids, level, yes
  <2>4. QED
    BY <1>2, <2>1, <2>3, ImplsCover DEF new
<1>8. \A k \in DOMAIN work' : Covering(nodes', work'[k])
  <2>1. \A c : Holds(Tail(work), c) => c \in DOMAIN nodes /\ c # page
    BY <1>2, <1>4 DEF OwnedOnce, Holds
  <2>2. \A c : Holds(Tail(work), c) => nodes'[c].mbr = nodes[c].mbr
    BY <1>2, <2>1
  <2>3. QED
    BY <1>1, <1>2, <1>7, <2>2, StackCovers
<1>9. QED
  BY <1>6, <1>8, KidsSpanBound DEF BoxInv, Boxes

------------------------------------------------------------------------------
(***************************************************************************)
(* Every step.                                                             *)
(***************************************************************************)
LEMMA BoxesBeginning ==
  ASSUME TreeInv, ClientOK, BoxInv, InsertData
  PROVE  BoxInv'
<1> DEFINE one == 1
           f == ChooseFrame(m_rootID, todo[1], 0, <<>>)
           g == Return(one)
<1>1. work = <<>> /\ nodes' = nodes /\ work' = <<f, g>>
  BY InsertDataDoes DEF ClientOK
<1>2. f.fn = "chooseSubtree" /\ f.level = 0 /\ g.fn = "return"
  BY DEF ChooseFrame, Return
<1> HIDE DEF f, g
<1>3. \A k \in DOMAIN work' : Covering(nodes', work'[k])
  <2>1. DOMAIN work' = {1, 2} /\ work'[1] = f /\ work'[2] = g
    BY <1>1
  <2>2. QED
    BY <1>2, <2>1 DEF Covering
<1>4. ASSUME NEW q \in DOMAIN nodes
      PROVE  BoxOK(nodes[q]) /\ KidsBound(nodes, work', q)
  <2>1. KidsSpan(nodes, nodes[q])
    BY <1>1, QuietKids DEF Behind, Shrinking
  <2>2. QED
    BY <2>1, KidsSpanBound DEF BoxInv, Boxes
<1>5. QED
  BY <1>1, <1>3, <1>4 DEF BoxInv, Boxes

LEMMA BoxStep ==
  ASSUME ReinsertsSome, TreeInv, ClientOK, WayInv, BoxInv, [Next]_vars
  PROVE  BoxInv'
<1>1. ASSUME UNCHANGED <<nodes, work>>
      PROVE  BoxInv'
  <2>1. nodes' = nodes /\ work' = work
    BY <1>1
  <2>2. Boxes(nodes', work')
    BY <2>1 DEF BoxInv
  <2>3. QED
    BY <2>2 DEF BoxInv
<1>2. ASSUME NEW o \in Object, DeleteNothing(o)
      PROVE  BoxInv'
  BY <1>1, <1>2 DEF DeleteNothing
<1>3. ASSUME UNCHANGED vars
      PROVE  BoxInv'
  BY <1>1, <1>3 DEF vars
<1>4. CASE Execute
  BY <1>4, BoxesGoingDown, BoxesArriving, BoxesReturning, BoxesAfterSplit, BoxesInserting, BoxesAdjusting,
     BoxesReinserting, BoxesSplitting, BoxesSplittingRoot, BoxesCondensing, BoxesAtRoot, BoxesCollapsing,
     BoxesDeletingNode, Zenon DEF Execute
<1>5. CASE Call
  BY <1>2, <1>5, BoxesBeginning, BoxesDeleting, Zenon DEF Call
<1>6. QED
  BY <1>3, <1>4, <1>5, Zenon DEF Next

LEMMA BoxesAtFirst ==
  ASSUME Init
  PROVE  BoxInv
<1> DEFINE none == <<>>
           n == Node(0, none)
<1>1. DOMAIN nodes = {m_rootID} /\ nodes[m_rootID] = n /\ work = <<>>
  BY DEF Init
<1>2. n.kids = none /\ n.level = 0 /\ n.mbr = NodeBox(none)
  BY DEF Node
<1>3. none \in Seq(Entry)
  OBVIOUS
<1> HIDE DEF n, none
<1>4. BoxOK(n)
  BY <1>2, <1>3, ComputedBoxOK
<1>5. QED
  BY <1>1, <1>2, <1>4 DEF BoxInv, Boxes, KidsBound

LEMMA BoxInvCovers ==
  ASSUME TreeInv, BoxInv
  PROVE  ParentsCover
<1> SUFFICES ASSUME work = <<>>, NEW p \in DOMAIN nodes, nodes[p].level > 0,
                    NEW e \in ToSet(nodes[p].kids), NEW x \in ToSet(nodes[e.id].kids)
             PROVE  ContainsRegion(e.mbr, x.mbr)
  BY DEF ParentsCover, Idle
<1>1. /\ FitsIn(nodes, nodes[p]) /\ nodes[p].kids \in Seq(Entry) /\ nodes[p].level \in Nat
      /\ nodes[p].level # 0
  BY NodesTyped DEF TreeInv, Sound
<1>2. PICK k \in DOMAIN nodes[p].kids : e = nodes[p].kids[k]
  BY <1>1 DEF ToSet
<1>3. e \in Entry /\ e.id \in KidIds(nodes[p].kids)
  BY <1>1, <1>2 DEF KidIds
<1>4. e.id \in DOMAIN nodes
  BY <1>1, <1>3 DEF FitsIn
<1>5. nodes[e.id].kids \in Seq(Entry) /\ nodes[e.id].mbr \in Regions
  BY <1>4, NodesTyped DEF TreeInv, Sound
<1>6. PICK i \in DOMAIN nodes[e.id].kids : x = nodes[e.id].kids[i]
  BY <1>5 DEF ToSet
<1>7. ContainsRegion(e.mbr, nodes[e.id].mbr)
  <2>1. EntryBound(nodes, work, p, e)
    BY <1>1, <1>2 DEF BoxInv, Boxes, KidsBound
  <2>2. QED
    BY <2>1 DEF EntryBound, Spans, Behind, Shrinking
<1>8. ContainsRegion(nodes[e.id].mbr, x.mbr)
  BY <1>4, <1>6 DEF BoxInv, Boxes, BoxOK
<1>9. x \in Entry /\ x.mbr \in Regions /\ e.mbr \in Regions
  <2>1. x \in Entry
    BY <1>5, <1>6
  <2>2. QED
    BY <1>3, <2>1, EntryOf
<1>10. QED
  BY <1>5, <1>7, <1>8, <1>9, ContainsTransitive

\* What findLeaf and the queries rely on to leave out subtrees: between calls
\* every entry of an index node contains whatever is below it, with tight MBRs
\* and with loose ones.
THEOREM IndexEntriesCover ==
  ASSUME ReinsertsSome
  PROVE  Spec => []ParentsCover
<1>1. Init => BoxInv
  BY BoxesAtFirst
<1>2. CallInv /\ BoxInv /\ [Next]_vars => BoxInv'
  BY BoxStep DEF CallInv
<1>3. CallInv /\ BoxInv => ParentsCover
  BY BoxInvCovers DEF CallInv
<1>4. Spec => []CallInv
  BY CallsKeepCount
<1>5. QED
  BY <1>1, <1>2, <1>3, <1>4, PTL DEF Spec

------------------------------------------------------------------------------
(***************************************************************************)
(* Minimum load.  A node that has fewer entries is being condensed or will *)
(* be deleted.  The linear and quadratic variants split so that both       *)
(* halves have enough; the R*-tree does with a fill factor that its split  *)
(* distribution and its reinsertions leave room for.                       *)
(***************************************************************************)
LeavesEnough ==
  Variant = "rstar" =>
    \A capacity \in {IndexCapacity, LeafCapacity} :
      LET least == Floor(capacity, FillFactor)
      IN  /\ least <= Floor(capacity + 1, SplitDistributionFactor) - 1
          /\ least <= capacity + 1 - Floor(capacity + 1, ReinsertFactor)

Loads == [Nat -> Nat]

\* Loads that every node but the root attains: a condensation cuts off nodes
\* with less, and neither a split nor a forced reinsertion leaves less.
Attained(load) ==
  /\ load \in Loads
  /\ \A level \in Nat :
       /\ load[level] <= MinimumLoad(level)
       /\ load[level] <= LeastShare(level)
       /\ Variant = "rstar" =>
            load[level] <= Capacity(level) + 1 - Floor(Capacity(level) + 1, ReinsertFactor)

Enough(load, n) == Len(n.kids) >= load[n.level]

CondensingPages(f) ==
  IF f.fn = "condenseTree" THEN {f.page} \cup {f.toReinsert[i] : i \in DOMAIN f.toReinsert} ELSE {}

ToDelete(stack, p) == \E k \in DOMAIN stack : stack[k].fn = "deleteNode" /\ stack[k].page = p

Excused(stack, p) ==
  \/ ToDelete(stack, p)
  \/ stack # <<>> /\ p \in CondensingPages(stack[1])

Filled(load, pages, root, stack) ==
  \A p \in DOMAIN pages \ {root} : Excused(stack, p) \/ Enough(load, pages[p])

FillInv(load) == Filled(load, nodes, m_rootID, work)

\* Nodes that wait to be deleted go on waiting.
LEMMA StillToDelete ==
  ASSUME TreeInv, work # <<>>, NEW new, Became(new), NEW p, ToDelete(work, p),
         work[1].fn = "deleteNode" => work[1].page # p
  PROVE  ToDelete(work', p)
<1>1. /\ Len(work) \in Nat /\ Len(new) \in Nat /\ DOMAIN work = 1 .. Len(work)
      /\ DOMAIN work' = 1 .. Len(new) + (Len(work) - 1)
      /\ \A k \in 1 .. Len(work) - 1 : work'[Len(new) + k] = work[k + 1]
  BY StackAfter
<1>2. PICK k \in DOMAIN work : work[k].fn = "deleteNode" /\ work[k].page = p
  BY DEF ToDelete
<1>3. k # 1
  BY <1>2
<1> DEFINE a == Len(new)
           b == Len(work)
<1>4. k - 1 \in 1 .. b - 1 /\ a + (k - 1) \in 1 .. a + (b - 1) /\ (k - 1) + 1 = k
  <2>1. a \in Nat /\ b \in Nat /\ k \in 1 .. b /\ k # 1
    BY <1>1, <1>3
  <2> HIDE DEF a, b
  <2>2. QED
    BY <2>1
<1>5. work'[a + (k - 1)] = work[k]
  BY <1>1, <1>4
<1>6. QED
  BY <1>1, <1>2, <1>4, <1>5 DEF ToDelete

\* What the running call does to pages leaves them filled, or makes way for
\* their condensation or deletion.
LEMMA FillKept ==
  ASSUME TreeInv, NEW load \in Loads, FillInv(load), work # <<>>, m_rootID' = m_rootID, NEW new, Became(new),
         \A q \in DOMAIN nodes' \ {m_rootID} :
           \/ Enough(load, nodes'[q])
           \/ Excused(work', q)
           \/ /\ q \in DOMAIN nodes /\ (Enough(load, nodes[q]) => Enough(load, nodes'[q]))
              /\ q \notin CondensingPages(work[1])
              /\ work[1].fn = "deleteNode" => work[1].page # q
  PROVE  FillInv(load)'
<1> SUFFICES ASSUME NEW q \in DOMAIN nodes' \ {m_rootID}
             PROVE  Excused(work', q) \/ Enough(load, nodes'[q])
  BY DEF FillInv, Filled
<1>1. CASE /\ q \in DOMAIN nodes /\ (Enough(load, nodes[q]) => Enough(load, nodes'[q]))
           /\ q \notin CondensingPages(work[1])
           /\ work[1].fn = "deleteNode" => work[1].page # q
  <2>1. Excused(work, q) \/ Enough(load, nodes[q])
    BY <1>1 DEF FillInv, Filled
  <2>2. CASE Excused(work, q)
    <3>1. ToDelete(work, q)
      BY <1>1, <2>2 DEF Excused
    <3>2. ToDelete(work', q)
      BY <1>1, <3>1, StillToDelete
    <3>3. QED
      BY <3>2 DEF Excused
  <2>3. QED
    BY <1>1, <2>1, <2>2
<1>2. QED
  BY <1>1

\* Insertions condense and delete nothing.
LEMMA InsertionsFill ==
  ASSUME TreeInv, NEW load \in Loads, FillInv(load), work # <<>>,
         work[1].fn \notin {"condenseTree", "deleteNode"},
         m_rootID' = m_rootID, NEW new, Became(new),
         \A q \in DOMAIN nodes' \ {m_rootID} :
           \/ Enough(load, nodes'[q])
           \/ q \in DOMAIN nodes /\ (Enough(load, nodes[q]) => Enough(load, nodes'[q]))
  PROVE  FillInv(load)'
<1>1. CondensingPages(work[1]) = {}
  BY DEF CondensingPages
<1>2. QED
  BY <1>1, FillKept

LEMMA FillWithoutPages ==
  ASSUME TreeInv, NEW load \in Loads, FillInv(load),
         Reinsert \/ Descend \/ Arrive \/ AdjustTreeAfterSplit \/ Finish
  PROVE  FillInv(load)'
<1>1. ASSUME NEW fn, Step(fn), fn \notin {"condenseTree", "deleteNode"}, nodes' = nodes, \E new : Became(new)
      PROVE  FillInv(load)'
  <2>1. work # <<>> /\ work[1].fn = fn /\ m_rootID' = m_rootID
    BY <1>1, InStep, Zenon
  <2>2. \A q \in DOMAIN nodes' \ {m_rootID} :
          q \in DOMAIN nodes /\ (Enough(load, nodes[q]) => Enough(load, nodes'[q]))
    BY <1>1, Zenon
  <2>3. QED
    BY <1>1, <2>1, <2>2, InsertionsFill
<1>2. CASE Reinsert
  BY <1>1, <1>2, ReinsertDoes, Zenon DEF Reinsert
<1>3. CASE Descend
  BY <1>1, <1>3, DescendDoes, Zenon DEF Descend
<1>4. CASE Arrive
  BY <1>1, <1>4, ArriveDoes, Zenon DEF Arrive
<1>5. CASE AdjustTreeAfterSplit
  BY <1>1, <1>5, AdjustTreeAfterSplitDoes, Zenon DEF AdjustTreeAfterSplit
<1>6. CASE Finish
  BY <1>1, <1>6, FinishDoes, Zenon DEF Finish
<1>7. QED
  BY <1>2, <1>3, <1>4, <1>5, <1>6

LEMMA GroupsEnough ==
  ASSUME NEW load \in Loads, NEW level \in Nat, NEW kids \in Seq(Entry), NEW g, NEW least \in Int,
         Distributes(kids, g, least), g[1] \in Seq(Entry), g[2] \in Seq(Entry), load[level] <= least
  PROVE  Enough(load, Node(level, g[1])) /\ Enough(load, Node(level, g[2]))
<1>1. PICK o \in Orderings(Len(kids)), p \in 1 .. Len(kids) - 1 :
        /\ g = <<FirstGroup(kids, o, p), SecondGroup(kids, o, p)>>
        /\ least <= p /\ least <= Len(kids) - p
  BY DEF Distributes
<1> DEFINE m == Len(kids)
<1>2. m \in Nat /\ p \in 1 .. m - 1
  BY <1>1
<1>3. g[1] = [h \in 1 .. p |-> kids[o[h]]] /\ g[2] = [h \in 1 .. m - p |-> kids[o[p + h]]]
  BY <1>1 DEF FirstGroup, SecondGroup
<1> HIDE DEF m
<1>4. Len(g[1]) = p /\ Len(g[2]) = m - p
  <2>1. DOMAIN g[1] = 1 .. p /\ DOMAIN g[2] = 1 .. m - p
    BY <1>3
  <2>2. p \in Nat /\ m - p \in Nat
    BY <1>2
  <2>3. QED
    BY <2>1, <2>2
<1>5. /\ Node(level, g[1]).kids = g[1] /\ Node(level, g[2]).kids = g[2]
      /\ Node(level, g[1]).level = level /\ Node(level, g[2]).level = level
  BY DEF Node
<1>6. load[level] \in Nat
  BY DEF Loads
<1>7. QED
  BY <1>1, <1>2, <1>4, <1>5, <1>6 DEF Enough, m

LEMMA MinimumLoadType ==
  ASSUME NEW level
  PROVE  MinimumLoad(level) \in Nat
<1>1. ProperFraction(FillFactor) /\ Capacity(level) \in Nat
  BY RTreeNodeAssumption, CapacityAtLeastFour
<1>2. QED
  BY <1>1, PartOf DEF MinimumLoad

LEMMA LoadType ==
  ASSUME NEW load, Attained(load), NEW level \in Nat
  PROVE  load[level] \in Nat /\ load[level] <= LeastShare(level) /\ load[level] <= MinimumLoad(level)
BY DEF Attained, Loads

\* The page that an insertion works on has as many entries as its copy.
LEMMA InsertingLength ==
  ASSUME TreeInv, Step("insertData")
  PROVE  LET f == work[1]
         IN  /\ Inserting(f) /\ work # <<>> /\ f.fn = "insertData" /\ m_rootID' = m_rootID
             /\ f.node \in Nodes /\ f.node.kids \in Seq(Entry)
             /\ Len(f.node.kids) = Len(nodes[f.page].kids) /\ nodes[f.page].level = f.node.level
<1> DEFINE f == work[1]
<1>1. work # <<>> /\ f.fn = "insertData" /\ m_rootID' = m_rootID /\ f \in Frame
  BY InStep, Zenon
<1>2. f \in InsertFrames /\ InsertOK(nodes, m_rootID, f)
  BY <1>1, InStep, FrameKinds DEF FrameOK
<1>3. f.node \in Nodes
  BY <1>2 DEF InsertFrames
<1>4. Len(f.node.kids) = Len(nodes[f.page].kids)
  BY <1>2, Zenon DEF InsertOK, SameIds
<1>5. QED
  BY <1>1, <1>2, <1>3, <1>4, InsertingFacts DEF Nodes, InsertOK

\* Insertions make the page they work on longer, and adjustments leave it as
\* long as it is.
LEMMA InsertionLengthens ==
  ASSUME TreeInv, InsertFits
  PROVE  LET page == work[1].page
         IN  \E m : /\ OnlyAt(page, m, nodes, nodes') /\ m.level = nodes[page].level
                    /\ Len(m.kids) = Len(nodes[page].kids) + 1 /\ Len(nodes[page].kids) \in Nat
<1> DEFINE f == work[1]
           m == WithEntry(f.node, f.entry)
<1>1. Step("insertData")
  BY DEF InsertFits
<1>2. /\ f.node.kids \in Seq(Entry) /\ Len(f.node.kids) = Len(nodes[f.page].kids)
      /\ nodes[f.page].level = f.node.level
  BY <1>1, InsertingLength
<1>3. m.level = f.node.level /\ m.kids = Append(f.node.kids, f.entry) /\ OnlyAt(f.page, m, nodes, nodes')
  BY InsertFitsDoes
<1> HIDE DEF m
<1>4. Len(m.kids) = Len(nodes[f.page].kids) + 1 /\ Len(nodes[f.page].kids) \in Nat
  <2> DEFINE kids == f.node.kids
             entry == f.entry
  <2>1. kids \in Seq(Entry) /\ entry \in Entry /\ m.kids = Append(kids, entry)
    BY <1>1, <1>2, <1>3, InsertingLength DEF Inserting
  <2> HIDE DEF kids, entry
  <2>2. Len(m.kids) = Len(kids) + 1 /\ Len(kids) \in Nat
    BY <2>1
  <2>3. QED
    BY <1>2, <2>2 DEF kids
<1>5. QED
  BY <1>2, <1>3, <1>4

LEMMA AdjustmentKeepsLength ==
  ASSUME TreeInv, WayInv, AdjustTree
  PROVE  LET page == work[1].page
         IN  \E m : /\ OnlyAt(page, m, nodes, nodes') /\ m.level = nodes[page].level
                    /\ Len(m.kids) = Len(nodes[page].kids)
<1> DEFINE f == work[1]
           n == nodes[f.page]
           m == WithChild(n, f, AdjustsAnyway(f))
<1>1. work # <<>> /\ f.fn = "adjustTree"
  BY InStep, Zenon DEF AdjustTree
<1>2. /\ f.page \in DOMAIN nodes /\ f.mbr \in Regions /\ n \in Nodes /\ FitsIn(nodes, n)
      /\ AdjustsAnyway(f) \in BOOLEAN /\ OnlyAt(f.page, m, nodes, nodes')
  BY AdjustTreeDoes
<1>3. m.level = n.level /\ m.kids = Updated(n.kids, f.child, f.mbr)
  <2> DEFINE go == AdjustsAnyway(f)
  <2>1. FitsIn(nodes, n) /\ f.mbr \in Regions /\ go \in BOOLEAN /\ m = WithChild(n, f, go)
    BY <1>2
  <2> HIDE DEF m, n, f, go
  <2>2. QED
    BY <2>1, WithChildOf
<1>4. f.child \in KidIds(n.kids) /\ n.kids \in Seq(Entry)
  <2>1. f.child \in Children(n)
    BY <1>1 DEF WayInv, Upward
  <2>2. QED
    BY <1>2, <2>1 DEF Children, Nodes
<1>5. DOMAIN m.kids = DOMAIN n.kids /\ m.kids \in Seq(Entry)
  BY <1>2, <1>3, <1>4, UpdatedKids
<1> HIDE DEF m
<1>6. Len(m.kids) = Len(n.kids)
  BY <1>4, <1>5
<1>7. QED
  BY <1>2, <1>3, <1>6

LEMMA FillInserting ==
  ASSUME TreeInv, NEW load \in Loads, FillInv(load), InsertFits
  PROVE  FillInv(load)'
<1> DEFINE page == work[1].page
<1>1. Step("insertData")
  BY DEF InsertFits
<1>2. work # <<>> /\ work[1].fn = "insertData" /\ m_rootID' = m_rootID /\ nodes[page].level \in Nat
  BY <1>1, InsertingLength DEF Inserting
<1>3. PICK m : /\ OnlyAt(page, m, nodes, nodes') /\ m.level = nodes[page].level
               /\ Len(m.kids) = Len(nodes[page].kids) + 1 /\ Len(nodes[page].kids) \in Nat
  BY InsertionLengthens
<1>4. Enough(load, nodes[page]) => Enough(load, m)
  <2> DEFINE a == Len(m.kids)
             b == Len(nodes[page].kids)
             c == load[nodes[page].level]
  <2>1. a = b + 1 /\ b \in Nat /\ c \in Nat
    BY <1>2, <1>3 DEF Loads
  <2>2. (Enough(load, nodes[page]) <=> b >= c) /\ (Enough(load, m) <=> a >= c)
    BY <1>3 DEF Enough
  <2> HIDE DEF a, b, c
  <2>3. QED
    BY <2>1, <2>2
<1>5. \A q \in DOMAIN nodes' : q \in DOMAIN nodes /\ (Enough(load, nodes[q]) => Enough(load, nodes'[q]))
  BY <1>3, <1>4 DEF OnlyAt
<1>6. \E new : Became(new)
  BY InsertFitsDoes
<1>7. work[1].fn \notin {"condenseTree", "deleteNode"}
  BY <1>2
<1>8. QED
  BY <1>2, <1>5, <1>6, <1>7, InsertionsFill

LEMMA FillAdjusting ==
  ASSUME TreeInv, WayInv, NEW load \in Loads, FillInv(load), AdjustTree
  PROVE  FillInv(load)'
<1> DEFINE page == work[1].page
<1>1. work # <<>> /\ work[1].fn = "adjustTree" /\ m_rootID' = m_rootID
  BY InStep, Zenon DEF AdjustTree
<1>2. PICK m : /\ OnlyAt(page, m, nodes, nodes') /\ m.level = nodes[page].level
               /\ Len(m.kids) = Len(nodes[page].kids)
  BY AdjustmentKeepsLength
<1>3. \A q \in DOMAIN nodes' : q \in DOMAIN nodes /\ (Enough(load, nodes[q]) => Enough(load, nodes'[q]))
  BY <1>2 DEF OnlyAt, Enough
<1>4. \E new : Became(new)
  BY AdjustTreeDoes
<1>5. work[1].fn \notin {"condenseTree", "deleteNode"}
  BY <1>1
<1>6. QED
  BY <1>1, <1>3, <1>4, <1>5, InsertionsFill

\* A forced reinsertion keeps enough entries in the node.
LEMMA FillReinserting ==
  ASSUME ReinsertsSome, TreeInv, NEW load, Attained(load), FillInv(load), ForcedReinsert
  PROVE  FillInv(load)'
<1> DEFINE f == work[1]
           level == f.node.level
           all == Overflowing(f.node, f.entry)
<1>0. load \in Loads
  BY DEF Attained
<1>1. Step("insertData") /\ Variant = "rstar"
  BY DEF ForcedReinsert
<1>2. work # <<>> /\ f.fn = "insertData" /\ m_rootID' = m_rootID /\ nodes[f.page].level = level
  BY <1>1, InsertingLength
<1>3. Len(all) = Capacity(level) + 1
  BY ForcedReinsertDoes
<1>4. PICK r : /\ r[1] \in Seq(Entry)
               /\ Len(r[1]) = Len(all) - Floor(Len(all), ReinsertFactor)
               /\ OnlyAt(f.page, Node(level, r[1]), nodes, nodes')
               /\ Became(AdjustParent(f.page, Node(level, r[1]).mbr, f.path, TRUE)
                           \o Impls(r[2], level, FALSE))
  BY ForcedReinsertDoes
<1> DEFINE new == AdjustParent(f.page, Node(level, r[1]).mbr, f.path, TRUE) \o Impls(r[2], level, FALSE)
           m == Node(level, r[1])
<1>5. Became(new) /\ OnlyAt(f.page, m, nodes, nodes') /\ m.kids = r[1] /\ m.level = level
  BY <1>4 DEF Node
<1> HIDE DEF new, m
<1>6. Enough(load, m)
  <2>6. level \in Nat
    BY <1>1, InsertingLength DEF Nodes
  <2>1. load[level] <= Capacity(level) + 1 - Floor(Capacity(level) + 1, ReinsertFactor)
    BY <1>1, <2>6 DEF Attained
  <2> DEFINE a == Len(m.kids)
             b == load[level]
             c == Capacity(level) + 1 - Floor(Capacity(level) + 1, ReinsertFactor)
  <2>2. b \in Nat /\ b <= c /\ a = c
    <3>1. a = Len(all) - Floor(Len(all), ReinsertFactor)
      BY <1>4, <1>5
    <3>2. a = c
      <4> DEFINE e == Capacity(level)
                 d == Floor(e + 1, ReinsertFactor)
      <4>1. e \in Nat /\ d \in Nat
        BY CapacityAtLeastFour, PartOf, RTreeNodeAssumption
      <4>2. a = (e + 1) - d /\ c = e + 1 - d
        BY <1>3, <3>1
      <4> HIDE DEF all, a, c, d, e
      <4>3. QED
        BY <4>1, <4>2
    <3>3. QED
      BY <2>1, <2>6, <3>2, LoadType, Zenon
  <2>4. a \in Nat
    BY <1>4, <1>5
  <2>3. Enough(load, m) <=> a >= b
    BY <1>5 DEF Enough
  <2> HIDE DEF a, b, c
  <2>5. QED
    BY <2>2, <2>3, <2>4
<1>7. \A q \in DOMAIN nodes' :
        \/ Enough(load, nodes'[q])
        \/ q \in DOMAIN nodes /\ (Enough(load, nodes[q]) => Enough(load, nodes'[q]))
  BY <1>5, <1>6 DEF OnlyAt
<1>8. f.fn \notin {"condenseTree", "deleteNode"}
  BY <1>2
<1>9. QED
  BY <1>0, <1>2, <1>5, <1>7, <1>8, InsertionsFill

LEMMA FillSplitting ==
  ASSUME TreeInv, NEW load, Attained(load), FillInv(load), SplitNode \/ SplitRoot
  PROVE  FillInv(load)'
<1> DEFINE f == work[1]
           level == f.node.level
           all == Overflowing(f.node, f.entry)
<1>0. load \in Loads
  BY DEF Attained
<1>1. Step("insertData")
  BY DEF SplitNode, SplitRoot
<1>2. work # <<>> /\ f.fn = "insertData" /\ m_rootID' = m_rootID
  BY <1>1, InsertingLength
<1>3. f.fn \notin {"condenseTree", "deleteNode"}
  BY <1>2
<1>4. ASSUME NEW g, Distributes(all, g, LeastShare(level)), all \in Seq(Entry),
             g[1] \in Seq(Entry), g[2] \in Seq(Entry)
      PROVE  Enough(load, Node(level, g[1])) /\ Enough(load, Node(level, g[2]))
  <2>1. level \in Nat
    BY <1>1, InsertingLength DEF Nodes
  <2>3. LeastShare(level) \in Int /\ load[level] <= LeastShare(level) /\ load \in Loads
    BY <2>1, LeastShareOfTwo, LoadType DEF Attained
  <2> HIDE DEF level, all
  <2>2. QED
    BY <1>4, <2>1, <2>3, GroupsEnough
<1>5. CASE SplitNode
  <2>1. all \in Seq(Entry)
    BY <1>5, SplitNodeDoes
  <2>2. PICK g, nn :
          /\ Distributes(all, g, LeastShare(level)) /\ g[1] \in Seq(Entry) /\ g[2] \in Seq(Entry)
          /\ TwoPages(f.page, Node(level, g[1]), nn, Node(level, g[2]), nodes, nodes')
          /\ \E new : Became(new)
    BY <1>5, SplitNodeDoes
  <2>3. Enough(load, Node(level, g[1])) /\ Enough(load, Node(level, g[2]))
    BY <1>4, <2>1, <2>2
  <2>4. \A q \in DOMAIN nodes' : Enough(load, nodes'[q]) \/ (q \in DOMAIN nodes /\ nodes'[q] = nodes[q])
    BY <2>2, <2>3 DEF TwoPages
  <2>5. QED
    BY <1>0, <1>2, <1>3, <2>2, <2>4, InsertionsFill
<1>6. CASE SplitRoot
  <2>1. all \in Seq(Entry) /\ Became(<<>>)
    BY <1>6, SplitRootDoes
  <2>2. PICK g, n, nn :
          /\ Distributes(all, g, LeastShare(level)) /\ g[1] \in Seq(Entry) /\ g[2] \in Seq(Entry)
          /\ ThreePages(m_rootID, Node(level + 1, TwoKids(n, Node(level, g[1]).mbr,
                                                          nn, Node(level, g[2]).mbr)),
                        n, Node(level, g[1]), nn, Node(level, g[2]), nodes, nodes')
    BY <1>6, SplitRootDoes
  <2>3. Enough(load, Node(level, g[1])) /\ Enough(load, Node(level, g[2]))
    BY <1>4, <2>1, <2>2
  <2>4. \A q \in DOMAIN nodes' \ {m_rootID} :
          Enough(load, nodes'[q]) \/ (q \in DOMAIN nodes /\ nodes'[q] = nodes[q])
    BY <2>2, <2>3 DEF ThreePages
  <2>5. QED
    BY <1>0, <1>2, <1>3, <2>1, <2>4, InsertionsFill
<1>7. QED
  BY <1>5, <1>6

\* The nodes that a condensation cut off, and the one it is at.
LEMMA CondensingPagesOf ==
  ASSUME NEW page, NEW path, NEW list
  PROVE  CondensingPages(CondenseFrame(page, path, list)) = {page} \cup {list[i] : i \in DOMAIN list}
BY DEF CondensingPages, CondenseFrame

LEMMA FillCondensing ==
  ASSUME TreeInv, NEW load, Attained(load), FillInv(load), CondenseTree
  PROVE  FillInv(load)'
<1> DEFINE f == work[1]
           n == nodes[f.page]
           parent == Last(f.path)
           list == IF Underfull(n) THEN Append(f.toReinsert, f.page) ELSE f.toReinsert
           g == CondenseFrame(parent, Front(f.path), list)
           new == <<g>>
<1>0. load \in Loads
  BY DEF Attained
<1>1. work # <<>> /\ f.fn = "condenseTree" /\ m_rootID' = m_rootID
  BY InStep, Zenon DEF CondenseTree
<1>2. /\ f.toReinsert \in Seq(Nat) /\ f.page \in DOMAIN nodes /\ parent \in DOMAIN nodes /\ n \in Nodes
      /\ Became(new)
      /\ \E m : OnlyAt(parent, m, nodes, nodes')
  BY CondenseTreeDoes
<1>3. f.page \in Nat
  BY <1>2, InStep, NodesTyped DEF CondenseTree
<1>4. work' # <<>> /\ work'[1] = g
  BY <1>1, <1>2, OneOnTop
<1>5. /\ parent \in CondensingPages(g)
      /\ \A i \in DOMAIN f.toReinsert : f.toReinsert[i] \in CondensingPages(g)
      /\ Underfull(n) => f.page \in CondensingPages(g)
  <2>1. CASE Underfull(n)
    <3> DEFINE old == f.toReinsert
               k == Len(old) + 1
    <3>1. old \in Seq(Nat) /\ f.page \in Nat /\ list = Append(old, f.page)
      BY <1>2, <1>3, <2>1
    <3> HIDE DEF old, list
    <3>2. /\ k \in DOMAIN list /\ list[k] = f.page
          /\ \A i \in DOMAIN old : i \in DOMAIN list /\ list[i] = old[i]
      BY <3>1
    <3>3. CondensingPages(g) = {parent} \cup {list[i] : i \in DOMAIN list}
      BY CondensingPagesOf
    <3> HIDE DEF g
    <3>4. QED
      BY <2>1, <3>2, <3>3 DEF old
  <2>2. CASE ~Underfull(n)
    <3>1. CondensingPages(g) = {parent} \cup {f.toReinsert[i] : i \in DOMAIN f.toReinsert}
      BY <2>2, CondensingPagesOf
    <3> HIDE DEF g
    <3>2. QED
      BY <2>2, <3>1
  <2>3. QED
    BY <2>1, <2>2
<1> HIDE DEF g, list
<1>6. ~Underfull(n) => Enough(load, n)
  <2> DEFINE a == Len(n.kids)
             b == MinimumLoad(n.level)
             c == load[n.level]
  <2>1. a \in Nat /\ b \in Nat /\ c \in Nat /\ c <= b
    BY <1>2, MinimumLoadType, LoadType DEF Nodes
  <2>2. (Underfull(n) <=> a < b) /\ (Enough(load, n) <=> a >= c)
    BY DEF Underfull, Enough
  <2> HIDE DEF a, b, c
  <2>3. QED
    BY <2>1, <2>2
<1>7. ASSUME NEW q \in DOMAIN nodes' \ {m_rootID}
      PROVE  \/ Enough(load, nodes'[q])
             \/ Excused(work', q)
             \/ /\ q \in DOMAIN nodes /\ (Enough(load, nodes[q]) => Enough(load, nodes'[q]))
                /\ q \notin CondensingPages(work[1])
                /\ work[1].fn = "deleteNode" => work[1].page # q
  <2>1. q \in CondensingPages(g) => Excused(work', q)
    BY <1>4 DEF Excused
  <2>2. q \in DOMAIN nodes /\ (q # parent => nodes'[q] = nodes[q])
    BY <1>2 DEF OnlyAt
  <2>3. q \in CondensingPages(work[1]) => q = f.page \/ \E i \in DOMAIN f.toReinsert : q = f.toReinsert[i]
    BY <1>1 DEF CondensingPages
  <2>4. q \in CondensingPages(work[1]) => Excused(work', q) \/ Enough(load, nodes'[q])
    BY <1>5, <1>6, <2>1, <2>2, <2>3, Zenon
  <2>5. q = parent => Excused(work', q)
    BY <1>5, <2>1
  <2>6. work[1].fn # "deleteNode"
    BY <1>1
  <2>7. QED
    BY <2>2, <2>4, <2>5, <2>6, Zenon
<1> HIDE DEF new
<1>8. QED
  BY <1>0, <1>1, <1>2, <1>7, FillKept

\* At the root the nodes that were cut off are left to be deleted.
LEMMA FillAtRoot ==
  ASSUME TreeInv, NEW load \in Loads, FillInv(load), CollapseRoot \/ CondenseRoot
  PROVE  FillInv(load)'
<1> DEFINE f == work[1]
           list == f.toReinsert
           new == Disposals(list)
<1>1. Step("condenseTree") /\ f.path = <<>>
  BY Zenon DEF CollapseRoot, CondenseRoot, AtRoot
<1>2. work # <<>> /\ f.fn = "condenseTree" /\ m_rootID' = m_rootID
  BY <1>1, InStep, Zenon
<1>3. f.page = m_rootID /\ list \in Seq(Nat) /\ \A i, j \in DOMAIN list : list[i] = list[j] => i = j
  BY <1>1, AtTheRoot
<1>4. Became(new)
  BY CollapseRootDoes, CondenseRootDoes, Zenon
<1>5. \A q \in DOMAIN nodes' \ {m_rootID} : q \in DOMAIN nodes /\ nodes'[q] = nodes[q]
  <2>1. CASE CollapseRoot
    <3> DEFINE child == nodes[m_rootID].kids[1].id
    <3>1. /\ DOMAIN nodes' = DOMAIN nodes \ {child}
          /\ \A p \in DOMAIN nodes \ {m_rootID, child} : nodes'[p] = nodes[p]
      BY <2>1, CollapseRootDoes
    <3> HIDE DEF child
    <3>2. QED
      BY <3>1
  <2>2. CASE CondenseRoot
    <3>1. PICK m : OnlyAt(m_rootID, m, nodes, nodes')
      BY <2>2, CondenseRootDoes
    <3>2. QED
      BY <3>1 DEF OnlyAt
  <2>3. QED
    BY <2>1, <2>2
<1>6. \A q : (\E i \in DOMAIN list : q = list[i]) => ToDelete(work', q)
  <2> TAKE q
  <2> HAVE \E i \in DOMAIN list : q = list[i]
  <2>1. Holds(new, q)
    BY <1>3, DisposalsOf
  <2>2. PICK k \in DOMAIN new : q \in HeldPages(new[k])
    BY <2>1 DEF Holds
  <2>3. new[k].fn = "deleteNode"
    BY <1>3, DisposalsOf
  <2>4. new[k].page = q
    BY <2>2, <2>3 DEF HeldPages
  <2> HIDE DEF new
  <2>5. k \in DOMAIN work' /\ work'[k] = new[k]
    <3>1. /\ Len(work) \in Nat /\ Len(work) >= 1 /\ Len(new) \in Nat /\ DOMAIN new = 1 .. Len(new)
          /\ DOMAIN work' = 1 .. Len(new) + (Len(work) - 1)
          /\ \A i \in 1 .. Len(new) : work'[i] = new[i]
      BY <1>2, <1>4, StackAfter
    <3> DEFINE a == Len(new)
               b == Len(work)
    <3>2. a \in Nat /\ b \in Nat /\ b >= 1 /\ k \in 1 .. a
      BY <3>1
    <3>3. k \in 1 .. a + (b - 1)
      <4> HIDE DEF a, b
      <4>1. QED
        BY <3>2
    <3>4. QED
      BY <3>1, <3>3
  <2>6. QED
    BY <2>3, <2>4, <2>5 DEF ToDelete
<1>7. ASSUME NEW q \in DOMAIN nodes' \ {m_rootID}
      PROVE  \/ Enough(load, nodes'[q])
             \/ Excused(work', q)
             \/ /\ q \in DOMAIN nodes /\ (Enough(load, nodes[q]) => Enough(load, nodes'[q]))
                /\ q \notin CondensingPages(work[1])
                /\ work[1].fn = "deleteNode" => work[1].page # q
  <2>1. q \in CondensingPages(work[1]) => \E i \in DOMAIN list : q = list[i]
    BY <1>2, <1>3 DEF CondensingPages
  <2>2. work[1].fn # "deleteNode"
    BY <1>2
  <2>3. QED
    BY <1>5, <1>6, <2>1, <2>2, Zenon DEF Excused
<1> HIDE DEF new
<1>8. QED
  BY <1>2, <1>4, <1>7, FillKept

LEMMA FillDeletingNode ==
  ASSUME TreeInv, NEW load \in Loads, FillInv(load), DeleteNode
  PROVE  FillInv(load)'
<1> DEFINE page == work[1].page
           new == Impls(nodes[page].kids, nodes[page].level, TRUE)
<1>1. work # <<>> /\ work[1].fn = "deleteNode" /\ m_rootID' = m_rootID
  BY InStep, Zenon DEF DeleteNode
<1>2. /\ DOMAIN nodes' = DOMAIN nodes \ {page}
      /\ \A p \in DOMAIN nodes \ {page} : nodes'[p] = nodes[p]
      /\ Became(new)
  BY DeleteNodeDoes
<1>3. CondensingPages(work[1]) = {}
  BY <1>1 DEF CondensingPages
<1> HIDE DEF new
<1>4. QED
  BY <1>1, <1>2, <1>3, FillKept

LEMMA FillOfCalls ==
  ASSUME TreeInv, ClientOK, NEW load \in Loads, FillInv(load), Call
  PROVE  FillInv(load)'
<1>1. work = <<>>
  BY DEF Call, InsertData, DeleteData, DeleteNothing
<1>2. \A p \in DOMAIN nodes \ {m_rootID} : Enough(load, nodes[p])
  BY <1>1 DEF FillInv, Filled, Excused, ToDelete
<1>3. ASSUME nodes' = nodes, m_rootID' = m_rootID
      PROVE  FillInv(load)'
  BY <1>2, <1>3 DEF FillInv, Filled
<1>4. CASE InsertData
  BY <1>3, <1>4, Zenon DEF InsertData
<1>5. ASSUME NEW o \in Object, DeleteData(o)
      PROVE  FillInv(load)'
  <2>1. PICK path \in Path, page \in DOMAIN nodes :
          /\ m_rootID' = m_rootID
          /\ \E m : OnlyAt(page, m, nodes, nodes')
          /\ work' = <<CondenseFrame(page, path, <<>>), Return(-1)>>
    BY <1>5, DeleteDataDoes
  <2>2. work' # <<>> /\ work'[1] = CondenseFrame(page, path, <<>>)
    BY <2>1
  <2>3. page \in CondensingPages(work'[1])
    BY <2>2, CondensingPagesOf
  <2>4. Excused(work', page)
    BY <2>2, <2>3 DEF Excused
  <2>5. QED
    BY <1>2, <2>1, <2>4 DEF FillInv, Filled, OnlyAt
<1>6. ASSUME NEW o \in Object, DeleteNothing(o)
      PROVE  FillInv(load)'
  BY <1>3, <1>6, Zenon DEF DeleteNothing
<1>7. QED
  BY <1>4, <1>5, <1>6, Zenon DEF Call

LEMMA FillStep ==
  ASSUME ReinsertsSome, TreeInv, ClientOK, WayInv, NEW load, Attained(load), FillInv(load), [Next]_vars
  PROVE  FillInv(load)'
<1>0. load \in Loads
  BY DEF Attained
<1>1. CASE Call
  BY <1>0, <1>1, FillOfCalls
<1>2. CASE Reinsert \/ Descend \/ Arrive \/ AdjustTreeAfterSplit \/ Finish
  BY <1>0, <1>2, FillWithoutPages
<1>3. CASE InsertFits
  BY <1>0, <1>3, FillInserting
<1>4. CASE AdjustTree
  BY <1>0, <1>4, FillAdjusting
<1>5. CASE ForcedReinsert
  BY <1>5, FillReinserting
<1>6. CASE SplitNode \/ SplitRoot
  BY <1>6, FillSplitting
<1>7. CASE CondenseTree
  BY <1>7, FillCondensing
<1>8. CASE CollapseRoot \/ CondenseRoot
  BY <1>0, <1>8, FillAtRoot
<1>9. CASE DeleteNode
  BY <1>0, <1>9, FillDeletingNode
<1>10. CASE UNCHANGED vars
  BY <1>10 DEF vars, FillInv, Filled
<1>11. QED
  BY <1>1, <1>2, <1>3, <1>4, <1>5, <1>6, <1>7, <1>8, <1>9, <1>10, Zenon DEF Next, Execute

LEMMA FillAtFirst ==
  ASSUME Init, NEW load
  PROVE  FillInv(load)
<1>1. DOMAIN nodes = {m_rootID}
  BY DEF Init
<1>2. QED
  BY <1>1 DEF FillInv, Filled

\* The fill factor's load.
FillLoad == [level \in Nat |-> MinimumLoad(level)]

LEMMA FillLoadAttained ==
  ASSUME LeavesEnough
  PROVE  Attained(FillLoad)
<1>1. FillLoad \in Loads
  BY MinimumLoadType DEF FillLoad, Loads
<1>2. ASSUME NEW level \in Nat
      PROVE  /\ FillLoad[level] <= MinimumLoad(level)
             /\ FillLoad[level] <= LeastShare(level)
             /\ Variant = "rstar" =>
                  FillLoad[level] <= Capacity(level) + 1 - Floor(Capacity(level) + 1, ReinsertFactor)
  <2>1. FillLoad[level] = MinimumLoad(level) /\ MinimumLoad(level) \in Nat
    BY MinimumLoadType DEF FillLoad
  <2>2. Variant = "rstar" =>
          MinimumLoad(level) <= Capacity(level) + 1 - Floor(Capacity(level) + 1, ReinsertFactor)
    BY DEF LeavesEnough, MinimumLoad, Capacity
  <2>3. MinimumLoad(level) <= LeastShare(level)
    <3>1. CASE Variant = "rstar"
      BY <3>1 DEF LeavesEnough, MinimumLoad, LeastShare, Capacity
    <3>2. CASE Variant # "rstar"
      BY <3>2, MinimumLoadType DEF LeastShare
    <3>3. QED
      BY <3>1, <3>2
  <2>4. MinimumLoad(level) <= MinimumLoad(level)
    BY <2>1
  <2>5. QED
    BY <2>1, <2>2, <2>3, <2>4, Zenon
<1>3. QED
  BY <1>1, <1>2, Zenon DEF Attained

LEMMA FillInvFills ==
  ASSUME TreeInv, FillInv(FillLoad)
  PROVE  NodesFilled
<1> SUFFICES ASSUME Idle, NEW p \in DOMAIN nodes \ {m_rootID}
             PROVE  Len(nodes[p].kids) >= MinimumLoad(nodes[p].level)
  BY DEF NodesFilled
<1>1. ~Excused(work, p)
  BY DEF Idle, Excused, ToDelete
<1>2. nodes[p].level \in Nat
  BY NodesTyped DEF TreeInv, Sound
<1>3. QED
  BY <1>1, <1>2 DEF FillInv, Filled, Enough, FillLoad

\* The fill factor is the least load of any node but the root between calls,
\* with split shares that leave room for it, as the linear and quadratic
\* variants' always do.
THEOREM NodesStayFilled ==
  ASSUME ReinsertsSome, LeavesEnough
  PROVE  Spec => []NodesFilled
<1>1. Init => FillInv(FillLoad)
  BY FillAtFirst
<1>2. CallInv /\ FillInv(FillLoad) /\ [Next]_vars => FillInv(FillLoad)'
  <2> SUFFICES ASSUME CallInv, FillInv(FillLoad), [Next]_vars PROVE FillInv(FillLoad)'
    OBVIOUS
  <2>1. Attained(FillLoad)
    BY FillLoadAttained
  <2>2. QED
    BY <2>1, FillStep DEF CallInv
<1>3. CallInv /\ FillInv(FillLoad) => NodesFilled
  BY FillInvFills DEF CallInv
<1>4. Spec => []CallInv
  BY CallsKeepCount
<1>5. QED
  BY <1>1, <1>2, <1>3, <1>4, PTL DEF Spec

\* What calls rely on, with tight MBRs and with loose ones: entries cover what
\* is below them, nodes keep their minimum load, and objects are counted.
THEOREM LooseIndexStaysSound ==
  ASSUME ReinsertsSome, LeavesEnough
  PROVE  Spec => []LooseIndexIsSound
<1>1. ParentsCover /\ NodesFilled /\ DataCounted => LooseIndexIsSound
  BY DEF LooseIndexIsSound
<1>2. QED
  BY <1>1, IndexEntriesCover, NodesStayFilled, DataIsCounted, PTL


------------------------------------------------------------------------------
(***************************************************************************)
(* What the client sees.  findLeaf finds an object wherever it is: every   *)
(* page is below the root, and every MBR and every entry on the way to it  *)
(* contains the object's.                                                  *)
(***************************************************************************)
LEMMA ParentWhenIdle ==
  ASSUME TreeInv, work = <<>>, NEW p \in DOMAIN nodes \ {m_rootID}
  PROVE  \E q \in DOMAIN nodes : /\ p \in Children(nodes[q]) /\ nodes[q].level # 0
                                 /\ nodes[p].level = nodes[q].level - 1
<1>1. OneOwner(nodes, m_rootID, work) /\ TreeOK(nodes, m_rootID)
  BY OneOwnerEach DEF TreeInv, Sound, StackOK, TreeOK
<1>2. ~Holds(work, p)
  BY DEF Holds
<1>3. PICK q \in DOMAIN nodes : p \in Children(nodes[q])
  BY <1>1, <1>2 DEF OneOwner
<1>4. QED
  BY <1>1, <1>3 DEF TreeOK, FitsIn, Children

LEMMA QuietWhenIdle ==
  ASSUME TreeInv, BoxInv, work = <<>>, NEW q \in DOMAIN nodes
  PROVE  KidsSpan(nodes, nodes[q]) /\ BoxOK(nodes[q])
<1>1. \A id : ~Behind(work, q, id) /\ ~Shrinking(work, id)
  BY DEF Behind, Shrinking
<1>2. QED
  BY <1>1, QuietKids DEF BoxInv, Boxes

\* A way to a page through entries that contain the object's region.
WayTo(o, m, p) == \E q \in WaysFor(o)[m] : q \in Path /\ q # <<>> /\ Last(q) = p

LEMMA WaysLeadThere ==
  ASSUME TreeInv, BoxInv, work = <<>>, NEW o \in Object,
         NEW p \in DOMAIN nodes, NEW m \in 0 .. nodes[m_rootID].level,
         nodes[p].level = nodes[m_rootID].level - m, ContainsRegion(nodes[p].mbr, o.mbr)
  PROVE  WayTo(o, m, p)
<1> DEFINE L == nodes[m_rootID].level
           There(k, q) == nodes[q].level = L - k /\ ContainsRegion(nodes[q].mbr, o.mbr)
           S == {k \in 0 .. L : \A q \in DOMAIN nodes : There(k, q) => WayTo(o, k, q)}
<1>1. TreeOK(nodes, m_rootID) /\ DOMAIN nodes \subseteq Nat
  BY DEF TreeInv, Sound, TreeOK
<1>2. L \in Nat /\ m_rootID \in DOMAIN nodes /\ \A q \in DOMAIN nodes : nodes[q].level \in 0 .. L
  BY <1>1, NodesTyped DEF TreeOK
<1>3. /\ WaysFor(o)[0] = {<<m_rootID>>}
      /\ \A k \in 1 .. L : WaysFor(o)[k] = Longer(WaysFor(o)[k - 1], o)
  BY <1>1, WaysBuilt
<1>4. 0 \in S
  <2>1. ASSUME NEW q \in DOMAIN nodes, There(0, q)
        PROVE  q = m_rootID
    <3> SUFFICES ASSUME q # m_rootID
                 PROVE  FALSE
      OBVIOUS
    <3>1. PICK r \in DOMAIN nodes : nodes[r].level # 0 /\ nodes[q].level = nodes[r].level - 1
      BY ParentWhenIdle
    <3>2. QED
      BY <1>2, <2>1, <3>1
  <2>2. WayTo(o, 0, m_rootID)
    <3> DEFINE way == <<m_rootID>>
    <3>1. m_rootID \in Nat
      BY <1>1, <1>2
    <3>2. way \in Path /\ way # <<>> /\ Last(way) = m_rootID
      BY <3>1 DEF Path, Last
    <3>3. QED
      BY <1>3, <3>2 DEF WayTo
  <2>3. QED
    BY <1>2, <2>1, <2>2
<1>5. ASSUME NEW k \in 0 .. L - 1, k \in S
      PROVE  k + 1 \in S
  <2>1. k + 1 \in 1 .. L /\ (k + 1) - 1 = k /\ k + 1 \in 0 .. L
    BY <1>2
  <2>2. ASSUME NEW q \in DOMAIN nodes, There(k + 1, q)
        PROVE  WayTo(o, k + 1, q)
    <3>1. q # m_rootID
      BY <1>2, <2>2
    <3>2. PICK r \in DOMAIN nodes :
            q \in Children(nodes[r]) /\ nodes[r].level # 0 /\ nodes[q].level = nodes[r].level - 1
      BY <3>1, ParentWhenIdle
    <3>3. nodes[r].level = L - k
      BY <1>2, <2>2, <3>2
    <3>4. PICK i \in DOMAIN nodes[r].kids : nodes[r].kids[i].id = q
      BY <3>2 DEF Children, KidIds
    <3> DEFINE e == nodes[r].kids[i]
    <3>5. ContainsRegion(e.mbr, nodes[q].mbr) /\ ContainsRegion(nodes[r].mbr, e.mbr)
      <4>1. Spans(nodes, e.mbr, e.id)
        BY <3>2, QuietWhenIdle DEF KidsSpan
      <4>2. QED
        BY <3>4, <4>1, QuietWhenIdle DEF Spans, BoxOK
    <3>6. /\ e \in Entry /\ e.mbr \in Regions /\ nodes[q].mbr \in Regions /\ nodes[r].mbr \in Regions
          /\ o.mbr \in Regions
      <4>1. nodes[r].kids \in Seq(Entry) /\ nodes[q].mbr \in Regions /\ nodes[r].mbr \in Regions
        BY <1>1, NodesTyped
      <4>2. e \in Entry
        BY <4>1
      <4>3. o \in Entry
        BY RTreeAssumption
      <4>4. QED
        BY <4>1, <4>2, <4>3, EntryOf
    <3>7. ContainsRegion(e.mbr, o.mbr) /\ ContainsRegion(nodes[r].mbr, o.mbr)
      <4>1. ContainsRegion(e.mbr, o.mbr)
        BY <2>2, <3>5, <3>6, ContainsTransitive
      <4>2. QED
        BY <3>5, <3>6, <4>1, ContainsTransitive
    <3>8. PICK way \in WaysFor(o)[k] : way \in Path /\ way # <<>> /\ Last(way) = r
      BY <1>5, <3>3, <3>7 DEF WayTo
    <3>9. e \in Entering(way, o)
      BY <3>7, <3>8 DEF Entering, ToSet
    <3>10. Append(way, q) \in WaysFor(o)[k + 1]
      <4>1. WaysFor(o)[k + 1] = Longer(WaysFor(o)[k], o)
        BY <1>3, <2>1
      <4>2. Append(way, e.id) \in Longer(WaysFor(o)[k], o)
        BY <3>8, <3>9 DEF Longer
      <4>3. QED
        BY <3>4, <4>1, <4>2
    <3>11. Append(way, q) \in Path /\ Append(way, q) # <<>> /\ Last(Append(way, q)) = q
      <4>1. q \in Nat
        BY <1>1
      <4>2. Append(way, q) # <<>>
        BY <3>8, <4>1 DEF Path
      <4>3. QED
        BY <3>8, <4>1, <4>2, PathAppended
    <3>12. QED
      BY <3>10, <3>11 DEF WayTo
  <2>3. QED
    BY <2>1, <2>2
<1>6. \A k \in 0 .. L : k \in S
  <2> HIDE DEF S, L
  <2>1. QED
    BY <1>2, <1>4, <1>5, UpTo
<1>7. m \in S /\ There(m, p)
  BY <1>6
<1>8. QED
  BY <1>7

LEMMA FindsEveryObject ==
  ASSUME TreeInv, BoxInv, work = <<>>, NEW o \in Object, LeafPaths(o) = {}
  PROVE  Tally({o}) = 0
<1> DEFINE L == nodes[m_rootID].level
           D == {o}
<1>1. TreeOK(nodes, m_rootID)
  BY DEF TreeInv, Sound
<1>2. L \in Nat /\ \A q \in DOMAIN nodes : nodes[q].level \in Nat
  BY <1>1, NodesTyped DEF TreeOK
<1>3. ASSUME NEW x \in LeafPlaces(nodes, D)
      PROVE  FALSE
  <2>1. PICK p \in DOMAIN nodes : \E i \in DOMAIN nodes[p].kids : nodes[p].level = 0 /\ nodes[p].kids[i] \in D
    BY <1>3, LeafPlacesOf
  <2>2. PICK i \in DOMAIN nodes[p].kids : nodes[p].level = 0 /\ nodes[p].kids[i] = o
    BY <2>1
  <2>3. ContainsRegion(nodes[p].mbr, o.mbr)
    BY <2>2, QuietWhenIdle DEF BoxOK
  <2>4. L \in 0 .. L /\ nodes[p].level = L - L
    BY <1>2, <2>2
  <2>5. WayTo(o, L, p)
    BY <2>3, <2>4, WaysLeadThere
  <2>6. PICK way \in WaysFor(o)[L] : Last(way) = p
    BY <2>5 DEF WayTo
  <2>7. o \in ToSet(nodes[Last(way)].kids)
    BY <2>2, <2>6 DEF ToSet
  <2>8. way \in LeafPaths(o)
    BY <1>1, <2>6, <2>7, WaysBuilt
  <2>9. QED
    BY <2>8
<1>4. LeafPlaces(nodes, D) = {}
  BY <1>3
<1> HIDE DEF D
<1>5. LeafCount(nodes, D) = 0
  BY <1>4, FS_EmptySet DEF LeafCount
<1>6. HandCount(work, D) = 0
  BY HandCountNone
<1>7. QED
  BY <1>5, <1>6 DEF Tally, D

(***************************************************************************)
(* A bound, as SpatialIndex has it: no client inserts an object more than  *)
(* twice.                                                                  *)
(***************************************************************************)
AtMostTwice ==
  \A order \in Orders : \A o \in Object : Cardinality({i \in DOMAIN order : order[i] = o}) <= 2

Copies(o) == Tally({o})
Due(o) == Count(todo, {o})

Held == [o \in Object |-> Copies(o)]

CopiesInv == \A o \in Object : Copies(o) + Due(o) <= 2

LEMMA CountOfFirst ==
  ASSUME NEW list \in Seq(Object), list # <<>>, NEW D
  PROVE  Count(list, D) = One(list[1], D) + Count(Tail(list), D)
<1> DEFINE a == Append(<<>>, list[1])
           b == Tail(list)
           none == <<>>
<1>1. list[1] \in Object /\ b \in Seq(Object) /\ none \in Seq(Object)
  OBVIOUS
<1>2. a \in Seq(Object) /\ Len(a) = 1 /\ a[1] = list[1]
  BY <1>1
<1>3. Len(list) = 1 + Len(b) /\ Len(b) \in Nat /\ \A i \in 1 .. Len(b) : list[1 + i] = b[i]
  OBVIOUS
<1>4. Count(a, D) = Count(none, D) + One(list[1], D)
  BY <1>1, CountAppended
<1>5. Count(none, D) = 0
  <2>1. Places(none, D) = {}
    BY DEF Places
  <2>2. QED
    BY <2>1, FS_EmptySet DEF Count
<1>6. InTwo(list, a, b)
  <2> HIDE DEF a, b
  <2>1. \A i \in 1 .. Len(a) : list[i] = a[i]
    BY <1>2
  <2>2. QED
    BY <1>2, <1>3, <2>1 DEF InTwo
<1>7. Count(list, D) = Count(a, D) + Count(b, D)
  <2> HIDE DEF a, b
  <2>1. QED
    BY <1>1, <1>2, <1>6, CountParted
<1>8. One(list[1], D) \in Nat
  BY DEF One
<1> HIDE DEF a, b, none
<1>9. QED
  BY <1>4, <1>5, <1>7, <1>8 DEF b

\* A call under way leaves what is held alone.
LEMMA HeldStays ==
  ASSUME ReinsertsSome, TreeInv, WayInv, TreeInv', Execute \/ UNCHANGED vars
  PROVE  UNCHANGED client /\ Held' = Held /\ \A o \in Object : Copies(o)' = Copies(o)
<1>1. CASE Execute
  <2>1. \A o \in Object : Copies(o)' = Copies(o)
    BY <1>1, TallyStaysTheSame, Zenon DEF Copies
  <2>2. UNCHANGED client
    BY <1>1, ClientWaits
  <2>3. QED
    BY <2>1, <2>2, Zenon DEF Held
<1>2. CASE UNCHANGED vars
  <2>1. UNCHANGED <<nodes, work, client>>
    BY <1>2 DEF vars
  <2>2. \A o \in Object : Copies(o)' = Copies(o)
    BY <2>1, Zenon DEF Copies, Tally
  <2>3. QED
    BY <2>1, <2>2, Zenon DEF Held
<1>3. QED
  BY <1>1, <1>2

\* What an insertion, a deletion and a deletion that finds nothing do.
HeldInserts(o) ==
  /\ answer' = <<"inserted", o>>
  /\ Held[o] < 2
  /\ Held' = [Held EXCEPT ![o] = @ + 1]

HeldDeletes(o) ==
  /\ answer' = <<"deleted", o>>
  /\ Held[o] > 0
  /\ Held' = [Held EXCEPT ![o] = @ - 1]

HeldLacks(o) ==
  /\ answer' = <<"not found", o>>
  /\ Held[o] = 0
  /\ Held' = Held

LEMMA HeldAt ==
  ASSUME NEW o \in Object, NEW v, Copies(o)' = v, \A x \in Object : x # o => Copies(x)' = Copies(x)
  PROVE  Held' = [Held EXCEPT ![o] = v]
<1>1. Held = [x \in Object |-> Copies(x)] /\ Held' = [x \in Object |-> Copies(x)']
  BY Zenon DEF Held
<1>2. QED
  BY <1>1

LEMMA OneOf ==
  ASSUME NEW o
  PROVE  One(o, {o}) = 1 /\ \A x : x # o => One(o, {x}) = 0
BY DEF One

LEMMA DueType ==
  ASSUME ClientOK, NEW o
  PROVE  Due(o) \in Nat
BY CountType DEF ClientOK, Due

\* A copy that is still to be inserted is one of those there may be.
LEMMA HeldOfInsertData ==
  ASSUME TreeInv, ClientOK, ClientOK', CopiesInv, InsertData
  PROVE  CopiesInv' /\ \E o \in Object : HeldInserts(o)
<1>2. PICK o \in Object : o = todo[1]
  BY DEF ClientOK, InsertData
<1>1. todo \in Seq(Object) /\ todo # <<>> /\ answer' = <<"inserted", o>> /\ todo' = Tail(todo)
  BY <1>2 DEF ClientOK, InsertData
<1>3. \A x : Copies(x) \in Nat /\ Copies(x)' = Copies(x) + One(o, {x})
  BY <1>1, <1>2, TallyInsertData, TallyType, Zenon DEF Copies
<1>4. \A x : Due(x) = One(o, {x}) + Due(x)'
  BY <1>1, <1>2, CountOfFirst, Zenon DEF Due
<1>5. \A x : Due(x)' \in Nat
  <2>1. todo' \in Seq(Object)
    BY DEF ClientOK
  <2>2. QED
    BY <2>1, CountType, Zenon DEF Due
<1>6. Copies(o) \in Nat /\ Copies(o)' = Copies(o) + 1 /\ Due(o) = 1 + Due(o)' /\ Due(o)' \in Nat
  <2>1. Copies(o)' = Copies(o) + One(o, {o}) /\ Due(o) = One(o, {o}) + Due(o)' /\ One(o, {o}) = 1
    BY <1>3, <1>4, OneOf, Zenon
  <2>2. QED
    BY <1>3, <1>5, <2>1
<1>7. ASSUME NEW x, x # o
      PROVE  Copies(x) \in Nat /\ Copies(x)' = Copies(x) /\ Due(x) = Due(x)' /\ Due(x)' \in Nat
  <2>1. Copies(x)' = Copies(x) + One(o, {x}) /\ Due(x) = One(o, {x}) + Due(x)' /\ One(o, {x}) = 0
    BY <1>3, <1>4, <1>7, OneOf, Zenon
  <2>2. QED
    BY <1>3, <1>5, <2>1
<1>8. \A x \in Object : Copies(x) + Due(x) <= 2
  BY Zenon DEF CopiesInv
<1>9. CopiesInv'
  <2>1. ASSUME NEW x \in Object
        PROVE  Copies(x)' + Due(x)' <= 2
    <3>1. CASE x = o
      BY <1>6, <1>8, <2>1, <3>1
    <3>2. CASE x # o
      BY <1>7, <1>8, <2>1, <3>2
    <3>3. QED
      BY <3>1, <3>2
  <2>2. QED
    BY <2>1, Zenon DEF CopiesInv
<1>10. Held[o] < 2
  BY <1>2, <1>6, <1>8 DEF Held
<1>11. Held' = [Held EXCEPT ![o] = @ + 1]
  <2>1. \A x \in Object : x # o => Copies(x)' = Copies(x)
    BY <1>2, <1>7, Zenon
  <2>2. Copies(o)' = Copies(o) + 1
    BY <1>6
  <2>3. Held[o] = Copies(o)
    BY Zenon DEF Held
  <2>4. Copies(o)' = Held[o] + 1
    BY <1>6, <2>3
  <2>5. QED
    BY <2>1, <2>4, HeldAt, Zenon
<1>12. HeldInserts(o)
  BY <1>1, <1>10, <1>11, Zenon DEF HeldInserts
<1>13. QED
  BY <1>2, <1>9, <1>12

LEMMA HeldOfDeleteData ==
  ASSUME TreeInv, TreeInv', ClientOK, CopiesInv, NEW o \in Object, DeleteData(o)
  PROVE  CopiesInv' /\ HeldDeletes(o)
<1>1. answer' = <<"deleted", o>> /\ todo' = todo
  BY DEF DeleteData
<1>2. \A x : Copies(x)' \in Nat /\ Copies(x) = Copies(x)' + One(o, {x})
  BY TallyDeleteData, Zenon DEF Copies
<1>3. \A x : Due(x)' = Due(x) /\ Due(x) \in Nat
  <2>1. \A x : Due(x) \in Nat
    BY DueType
  <2>2. QED
    BY <1>1, <2>1, Zenon DEF Due
<1>4. Copies(o)' \in Nat /\ Copies(o) = Copies(o)' + 1
  <2>1. Copies(o) = Copies(o)' + One(o, {o}) /\ One(o, {o}) = 1
    BY <1>2, OneOf, Zenon
  <2>2. QED
    BY <1>2, <2>1
<1>5. ASSUME NEW x, x # o
      PROVE  Copies(x)' \in Nat /\ Copies(x) = Copies(x)'
  <2>1. Copies(x) = Copies(x)' + One(o, {x}) /\ One(o, {x}) = 0
    BY <1>2, <1>5, OneOf, Zenon
  <2>2. QED
    BY <1>2, <2>1
<1>6. \A x \in Object : Copies(x) + Due(x) <= 2
  BY Zenon DEF CopiesInv
<1>7. CopiesInv'
  <2>1. ASSUME NEW x \in Object
        PROVE  Copies(x)' + Due(x)' <= 2
    <3>1. CASE x = o
      BY <1>3, <1>4, <1>6, <2>1, <3>1
    <3>2. CASE x # o
      BY <1>3, <1>5, <1>6, <2>1, <3>2
    <3>3. QED
      BY <3>1, <3>2
  <2>2. QED
    BY <2>1, Zenon DEF CopiesInv
<1>8. Held[o] > 0
  BY <1>4 DEF Held
<1>9. Held' = [Held EXCEPT ![o] = @ - 1]
  <2>1. \A x \in Object : x # o => Copies(x)' = Copies(x)
    BY <1>5, Zenon
  <2>2. Copies(o)' = Copies(o) - 1
    BY <1>4
  <2>3. Held[o] = Copies(o)
    BY Zenon DEF Held
  <2>4. Copies(o)' = Held[o] - 1
    BY <1>4, <2>3
  <2>5. QED
    BY <2>1, <2>4, HeldAt, Zenon
<1>10. QED
  BY <1>1, <1>7, <1>8, <1>9, Zenon DEF HeldDeletes

LEMMA HeldOfDeleteNothing ==
  ASSUME TreeInv, BoxInv, CopiesInv, NEW o \in Object, DeleteNothing(o)
  PROVE  CopiesInv' /\ HeldLacks(o)
<1>1. /\ work = <<>> /\ LeafPaths(o) = {} /\ answer' = <<"not found", o>>
      /\ UNCHANGED <<nodes, work, todo>>
  BY DEF DeleteNothing
<1>2. Held[o] = 0
  BY <1>1, FindsEveryObject DEF Held, Copies
<1>3. Held' = Held
  BY <1>1, Zenon DEF Held, Copies, Tally
<1>4. CopiesInv'
  BY <1>1, Zenon DEF CopiesInv, Copies, Due, Tally
<1>5. QED
  BY <1>1, <1>2, <1>3, <1>4, Zenon DEF HeldLacks

HeldStep ==
  \/ Held' = Held /\ answer' = answer
  \/ \E o \in Object : HeldInserts(o) \/ HeldDeletes(o) \/ HeldLacks(o)

LEMMA CopiesStep ==
  ASSUME ReinsertsSome, CallInv, CallInv', BoxInv, CopiesInv, [Next]_vars
  PROVE  CopiesInv' /\ HeldStep
<1>1. TreeInv /\ TreeInv' /\ WayInv /\ ClientOK /\ ClientOK'
  BY DEF CallInv
<1>2. CASE Execute \/ UNCHANGED vars
  <2>1. UNCHANGED client /\ Held' = Held /\ \A o \in Object : Copies(o)' = Copies(o)
    BY <1>1, <1>2, HeldStays
  <2>2. todo' = todo /\ answer' = answer
    BY <2>1 DEF client
  <2>3. CopiesInv'
    BY <2>1, <2>2, Zenon DEF CopiesInv, Due
  <2>4. QED
    BY <2>1, <2>2, <2>3, Zenon DEF HeldStep
<1>3. CASE InsertData
  BY <1>1, <1>3, HeldOfInsertData, Zenon DEF HeldStep
<1>4. CASE \E o \in Object : DeleteData(o)
  BY <1>1, <1>4, HeldOfDeleteData, Zenon DEF HeldStep
<1>5. CASE \E o \in Object : DeleteNothing(o)
  BY <1>1, <1>5, HeldOfDeleteNothing, Zenon DEF HeldStep
<1>6. QED
  BY <1>2, <1>3, <1>4, <1>5, Zenon DEF Next, Call

LEMMA CopiesAtFirst ==
  ASSUME AtMostTwice, Init
  PROVE  CopiesInv /\ Held = [o \in Object |-> 0] /\ answer = <<"none">>
<1>1. todo \in Orders /\ answer = <<"none">>
  BY DEF Init
<1>2. \A o : Copies(o) = 0
  BY LeavesAtFirst, Zenon DEF Copies
<1>3. ASSUME NEW o \in Object
      PROVE  Copies(o) + Due(o) <= 2
  <2>1. Cardinality({i \in DOMAIN todo : todo[i] = o}) <= 2
    BY <1>1 DEF AtMostTwice
  <2>2. {i \in DOMAIN todo : todo[i] = o} = Places(todo, {o})
    BY DEF Places
  <2>3. Due(o) <= 2
    BY <2>1, <2>2 DEF Count, Due
  <2>4. Due(o) \in Nat
    BY <1>1, CountType, RTreeAssumption DEF Due
  <2>5. Copies(o) = 0
    BY <1>2, Zenon
  <2>6. QED
    BY <2>3, <2>4, <2>5
<1>4. CopiesInv
  BY <1>3 DEF CopiesInv
<1>5. QED
  BY <1>1, <1>2, <1>4 DEF Held

(***************************************************************************)
(* The tree implements SpatialIndex: whatever splits, forced reinsertions  *)
(* and condensations do, clients see objects come with insertData and go   *)
(* with deleteData, one copy at a time, and deleteData finds any that is   *)
(* there.                                                                  *)
(***************************************************************************)
HeldNow == [o \in Object |-> Occurrences(0, LAMBDA e : e = o)]

LEMMA HeldIs ==
  ASSUME TreeInv
  PROVE  HeldNow = Held
<1>1. \A o \in Object : Occurrences(0, LAMBDA e : e = o) = Copies(o)
  BY OccurrencesOf, Zenon DEF Copies
<1>2. QED
  BY <1>1, Zenon DEF Held, HeldNow

ContractStep ==
  \/ HeldNow' = HeldNow /\ answer' = answer
  \/ \E o \in Object :
       \/ answer' = <<"inserted", o>> /\ HeldNow[o] < 2 /\ HeldNow' = [HeldNow EXCEPT ![o] = @ + 1]
       \/ answer' = <<"deleted", o>> /\ HeldNow[o] > 0 /\ HeldNow' = [HeldNow EXCEPT ![o] = @ - 1]
       \/ answer' = <<"not found", o>> /\ HeldNow[o] = 0 /\ HeldNow' = HeldNow

LEMMA ContractSteps ==
  ASSUME HeldNow = Held, HeldNow' = Held', HeldStep
  PROVE  ContractStep
BY Zenon DEF ContractStep, HeldStep, HeldInserts, HeldDeletes, HeldLacks

LEMMA ContractNext ==
  ASSUME ContractStep
  PROVE  [Contract!Next]_(Contract!vars)
BY Zenon DEF ContractStep, HeldNow, Contract!Next, Contract!vars, Contract!InsertData, Contract!DeleteData,
   Contract!DeleteNothing, Contract!Inserted, Contract!Deleted, Contract!NotFound

IndexInv == CallInv /\ BoxInv /\ CopiesInv

LEMMA IndexStep ==
  ASSUME ReinsertsSome, IndexInv, [Next]_vars
  PROVE  IndexInv' /\ HeldStep
<1>1. CallInv'
  BY CallStep DEF IndexInv
<1>2. BoxInv'
  BY BoxStep DEF IndexInv, CallInv
<1>3. CopiesInv' /\ HeldStep
  BY <1>1, CopiesStep DEF IndexInv
<1>4. QED
  BY <1>1, <1>2, <1>3, Zenon DEF IndexInv

Agrees == HeldNow = Held

THEOREM TreeIsASpatialIndex ==
  ASSUME ReinsertsSome, AtMostTwice
  PROVE  Spec => ImplementsSpatialIndex
<1>1. Init => IndexInv
  <2>1. Init => CallInv
    BY InitSound, InitClient, WayAtFirst, DataAtFirst DEF CallInv
  <2>2. QED
    BY <2>1, BoxesAtFirst, CopiesAtFirst DEF IndexInv
<1>2. IndexInv /\ [Next]_vars => IndexInv' /\ HeldStep
  BY IndexStep
<1>3. IndexInv => Agrees
  BY HeldIs DEF IndexInv, CallInv, Agrees
<1>4. Agrees /\ Agrees' /\ HeldStep => [Contract!Next]_(Contract!vars)
  BY ContractSteps, ContractNext, Zenon DEF Agrees
<1>5. Init => Contract!Init
  <2>1. ASSUME Init
        PROVE  HeldNow = [o \in Object |-> 0] /\ answer = <<"none">>
    BY <1>1, <1>3, <2>1, CopiesAtFirst DEF Agrees
  <2>2. QED
    BY <2>1, Zenon DEF HeldNow, Contract!Init, Contract!NoAnswer
<1>6. QED
  BY <1>1, <1>2, <1>3, <1>4, <1>5, PTL DEF Spec, ImplementsSpatialIndex, Contract!Spec

------------------------------------------------------------------------------
(***************************************************************************)
(* isIndexValid walks every way down from the root: between calls one to   *)
(* every page.                                                             *)
(***************************************************************************)
AllWays     == Paths(LAMBDA e : TRUE)
Anywhere(q) == {x \in ToSet(nodes[Last(q)].kids) : TRUE}
Further(Q)  == UNION {{Append(q, e.id) : e \in Anywhere(q)} : q \in Q}

\* A way of k steps.
Way(q, k) ==
  /\ q \in Path /\ q # <<>> /\ Len(q) = k + 1
  /\ Last(q) \in DOMAIN nodes /\ nodes[Last(q)].level = nodes[m_rootID].level - k

LEMMA AllWaysBuilt ==
  ASSUME TreeOK(nodes, m_rootID)
  PROVE  LET L == nodes[m_rootID].level
         IN  /\ AllWays[0] = {<<m_rootID>>}
             /\ \A k \in 1 .. L : AllWays[k] = Further(AllWays[k - 1])
             /\ Walk = UNION {AllWays[k] : k \in 0 .. L}
<1> DEFINE L == nodes[m_rootID].level
           further(Q) == Further(Q)
           Fits(f, n) == f = [k \in 0 .. n |-> IF k = 0 THEN {<<m_rootID>>} ELSE further(f[k - 1])]
           path == CHOOSE f : Fits(f, L)
<1>1. /\ L \in Nat /\ m_rootID \in DOMAIN nodes /\ m_rootID \in Nat
  BY NodesTyped DEF TreeOK
<1>2. AllWays = path
  BY DEF AllWays, Paths, Further, Anywhere
<1>3. \E f : Fits(f, L)
  <2> HIDE DEF further, L
  <2> DEFINE S == {n \in 0 .. L : \E f : Fits(f, n)}
  <2>1. 0 \in S
    <3>1. Fits([k \in 0 .. 0 |-> {<<m_rootID>>}], 0)
      OBVIOUS
    <3>2. 0 \in 0 .. L
      BY <1>1
    <3> HIDE DEF Fits
    <3>3. QED
      BY <3>1, <3>2
  <2>2. ASSUME NEW n \in 0 .. L - 1, n \in S
        PROVE  n + 1 \in S
    <3>1. PICK f : Fits(f, n)
      BY <2>2
    <3> DEFINE g == [k \in 0 .. n + 1 |-> IF k = n + 1 THEN further(f[n]) ELSE f[k]]
    <3>2. \A k \in 0 .. n : g[k] = f[k]
      BY <1>1
    <3>3. ASSUME NEW k \in 0 .. n + 1
          PROVE  g[k] = IF k = 0 THEN {<<m_rootID>>} ELSE further(g[k - 1])
      <4>1. CASE k = n + 1
        <5>1. k # 0 /\ k - 1 = n /\ n \in 0 .. n
          BY <1>1, <4>1
        <5>2. QED
          BY <3>2, <4>1, <5>1
      <4>2. CASE k = 0
        BY <1>1, <3>1, <4>2
      <4>3. CASE k \in 1 .. n
        <5>1. k \in 0 .. n /\ k - 1 \in 0 .. n /\ k # 0
          BY <1>1, <4>3
        <5>2. f[k] = further(f[k - 1])
          BY <3>1, <5>1
        <5>3. QED
          BY <3>2, <5>1, <5>2
      <4>4. QED
        BY <1>1, <4>1, <4>2, <4>3
    <3>4. g = [k \in 0 .. n + 1 |-> g[k]]
      OBVIOUS
    <3> HIDE DEF g
    <3>5. Fits(g, n + 1)
      BY <3>3, <3>4
    <3>6. n + 1 \in 0 .. L
      BY <1>1
    <3> HIDE DEF Fits
    <3>7. QED
      BY <3>5, <3>6
  <2> HIDE DEF S
  <2>3. L \in S
    <3>1. \A k \in 0 .. L : k \in S
      BY <1>1, <2>1, <2>2, UpTo
    <3>2. QED
      BY <1>1, <3>1
  <2>4. QED
    BY <2>3 DEF S
<1>4. Fits(path, L)
  <2> HIDE DEF Fits
  <2>1. QED
    BY <1>3
<1>5. path[0] = {<<m_rootID>>} /\ \A k \in 1 .. L : path[k] = further(path[k - 1])
  <2> HIDE DEF further, L, path
  <2>1. \A k \in 0 .. L : path[k] = IF k = 0 THEN {<<m_rootID>>} ELSE further(path[k - 1])
    BY <1>4, Zenon
  <2>2. 0 \in 0 .. L /\ \A k \in 1 .. L : k \in 0 .. L /\ k # 0
    BY <1>1
  <2>3. QED
    BY <2>1, <2>2, Zenon
<1>6. Walk = UNION {AllWays[k] : k \in 0 .. L}
  BY DEF Walk, AllWays
<1> HIDE DEF path
<1>7. QED
  BY <1>2, <1>5, <1>6

LEMMA OneFurther ==
  ASSUME TreeInv, NEW k \in 1 .. nodes[m_rootID].level, NEW q, Way(q, k - 1)
  PROVE  /\ \A e \in Anywhere(q) : e.id \in Children(nodes[Last(q)])
         /\ \A c \in Children(nodes[Last(q)]) :
              /\ \E e \in Anywhere(q) : e.id = c
              /\ Way(Append(q, c), k) /\ Last(Append(q, c)) = c
<1> DEFINE n == nodes[Last(q)]
           L == nodes[m_rootID].level
<1>1. /\ q \in Path /\ q # <<>> /\ Len(q) = k /\ Last(q) \in DOMAIN nodes /\ n.level = L - (k - 1)
  BY DEF Way
<1>2. TreeOK(nodes, m_rootID) /\ m_rootID \in DOMAIN nodes
  BY DEF TreeInv, Sound, TreeOK
<1>3. /\ L \in Nat /\ n.level \in Nat /\ n.kids \in Seq(Entry) /\ FitsIn(nodes, n)
      /\ \A p \in DOMAIN nodes : p \in Nat
  BY <1>1, <1>2, NodesTyped
<1>4. n.level # 0 /\ n.level - 1 = L - k
  BY <1>1, <1>3
<1>5. Children(n) = {n.kids[i].id : i \in DOMAIN n.kids}
  BY <1>4 DEF Children, KidIds
<1>6. \A c \in Children(n) : c \in DOMAIN nodes /\ nodes[c].level = L - k
  BY <1>3, <1>4 DEF FitsIn, Children
<1>7. Anywhere(q) = {n.kids[i] : i \in DOMAIN n.kids}
  BY DEF Anywhere, ToSet
<1>8. \A e \in Anywhere(q) : e.id \in Children(n)
  BY <1>5, <1>7
<1>9. \A c \in Children(n) : \E e \in Anywhere(q) : e.id = c
  BY <1>5, <1>7
<1> HIDE DEF n, L
<1>10. ASSUME NEW c \in Children(n)
       PROVE  Way(Append(q, c), k) /\ Last(Append(q, c)) = c
  <2> DEFINE way == Append(q, c)
  <2>1. c \in Nat /\ c \in DOMAIN nodes /\ nodes[c].level = L - k
    BY <1>3, <1>6
  <2>2. Last(way) = c /\ way \in Path /\ Len(way) = k + 1
    BY <1>1, <2>1, PathAppended
  <2>3. way # <<>>
    BY <1>1, <2>2 DEF Path
  <2> HIDE DEF way
  <2>4. QED
    BY <2>1, <2>2, <2>3 DEF Way, L, way
<1>11. QED
  BY <1>8, <1>9, <1>10 DEF n

LEMMA WaysGoDown ==
  ASSUME TreeInv
  PROVE  \A k \in 0 .. nodes[m_rootID].level : \A q \in AllWays[k] : Way(q, k)
<1> DEFINE L == nodes[m_rootID].level
           S == {k \in 0 .. L : \A q \in AllWays[k] : Way(q, k)}
           way == <<m_rootID>>
<1>1. TreeOK(nodes, m_rootID) /\ m_rootID \in DOMAIN nodes /\ m_rootID \in Nat /\ L \in Nat
  BY NodesTyped DEF TreeInv, Sound, TreeOK
<1>2. AllWays[0] = {way} /\ \A k \in 1 .. L : AllWays[k] = Further(AllWays[k - 1])
  BY <1>1, AllWaysBuilt
<1>3. way \in Path /\ way # <<>> /\ Last(way) = m_rootID /\ Len(way) = 0 + 1
  BY <1>1 DEF Path, Last
<1> HIDE DEF way
<1>4. 0 \in S
  <2>1. nodes[m_rootID].level = nodes[m_rootID].level - 0
    BY <1>1
  <2>2. Way(way, 0)
    BY <1>1, <1>3, <2>1 DEF Way
  <2>3. QED
    BY <1>1, <1>2, <2>2
<1>5. ASSUME NEW k \in 0 .. L - 1, k \in S
      PROVE  k + 1 \in S
  <2>1. k + 1 \in 1 .. L /\ (k + 1) - 1 = k /\ k + 1 \in 0 .. L
    BY <1>1
  <2>2. ASSUME NEW q \in AllWays[k + 1]
        PROVE  Way(q, k + 1)
    <3>1. q \in Further(AllWays[k])
      BY <1>2, <2>1, <2>2
    <3>2. PICK r \in AllWays[k] : \E e \in Anywhere(r) : q = Append(r, e.id)
      BY <3>1 DEF Further
    <3>3. PICK e \in Anywhere(r) : q = Append(r, e.id)
      BY <3>2
    <3>4. Way(r, k)
      BY <1>5
    <3>5. QED
      BY <2>1, <3>3, <3>4, OneFurther
  <2>3. QED
    BY <2>1, <2>2
<1> HIDE DEF S
<1>6. \A k \in 0 .. L : k \in S
  BY <1>1, <1>4, <1>5, UpTo
<1>7. QED
  BY <1>6 DEF S

\* The step before the last.
LEMMA StepBack ==
  ASSUME TreeInv, NEW k \in 1 .. nodes[m_rootID].level, NEW q \in AllWays[k]
  PROVE  \E r \in AllWays[k - 1] :
           /\ q = Append(r, Last(q)) /\ Last(q) \in Children(nodes[Last(r)]) /\ Way(r, k - 1)
<1>1. TreeOK(nodes, m_rootID) /\ nodes[m_rootID].level \in Nat
  BY NodesTyped DEF TreeInv, Sound, TreeOK
<1>2. AllWays[k] = Further(AllWays[k - 1]) /\ k - 1 \in 0 .. nodes[m_rootID].level
  BY <1>1, AllWaysBuilt
<1>3. PICK r \in AllWays[k - 1] : \E e \in Anywhere(r) : q = Append(r, e.id)
  BY <1>2 DEF Further
<1>4. PICK e \in Anywhere(r) : q = Append(r, e.id)
  BY <1>3
<1>5. Way(r, k - 1)
  BY <1>2, WaysGoDown
<1>6. e.id \in Children(nodes[Last(r)]) /\ Last(q) = e.id
  BY <1>4, <1>5, OneFurther
<1>7. QED
  BY <1>4, <1>5, <1>6

LEMMA WaysReachAll ==
  ASSUME TreeInv, work = <<>>
  PROVE  \A k \in 0 .. nodes[m_rootID].level :
           \A p \in AtLevel(nodes, nodes[m_rootID].level - k) : \E q \in AllWays[k] : Last(q) = p
<1> DEFINE L == nodes[m_rootID].level
           Reached(k, p) == \E q \in AllWays[k] : Last(q) = p
           S == {k \in 0 .. L : \A p \in AtLevel(nodes, L - k) : Reached(k, p)}
<1>1. /\ TreeOK(nodes, m_rootID) /\ m_rootID \in DOMAIN nodes /\ L \in Nat
      /\ \A p \in DOMAIN nodes : nodes[p].level \in 0 .. L
  BY NodesTyped DEF TreeInv, Sound, TreeOK
<1>2. AllWays[0] = {<<m_rootID>>} /\ \A k \in 1 .. L : AllWays[k] = Further(AllWays[k - 1])
  BY <1>1, AllWaysBuilt
<1>3. ASSUME NEW k \in 0 .. L, NEW p \in AtLevel(nodes, L - k), p # m_rootID
      PROVE  \E r \in AtLevel(nodes, L - (k - 1)) : p \in Children(nodes[r]) /\ k \in 1 .. L
  <2>1. p \in DOMAIN nodes /\ nodes[p].level = L - k
    BY DEF AtLevel
  <2>2. PICK r \in DOMAIN nodes :
          p \in Children(nodes[r]) /\ nodes[r].level # 0 /\ nodes[p].level = nodes[r].level - 1
    BY <1>3, <2>1, ParentWhenIdle
  <2>3. nodes[r].level \in 0 .. L
    BY <1>1
  <2> HIDE DEF L
  <2>4. nodes[r].level = L - (k - 1) /\ k \in 1 .. L
    BY <1>1, <2>1, <2>2, <2>3
  <2>5. QED
    BY <2>2, <2>4 DEF AtLevel
<1>4. 0 \in S
  <2>1. ASSUME NEW p \in AtLevel(nodes, L - 0)
        PROVE  Reached(0, p)
    <3>1. p = m_rootID
      <4>1. 0 \in 0 .. L /\ L - 0 = L /\ 0 \notin 1 .. L
        BY <1>1
      <4>2. QED
        BY <1>3, <4>1
    <3>2. Last(<<m_rootID>>) = m_rootID
      BY DEF Last
    <3>3. QED
      BY <1>2, <3>1, <3>2
  <2>2. QED
    BY <1>1, <2>1
<1>5. ASSUME NEW k \in 0 .. L - 1, k \in S
      PROVE  k + 1 \in S
  <2>1. k + 1 \in 1 .. L /\ (k + 1) - 1 = k /\ k + 1 \in 0 .. L /\ k \in 0 .. L
    BY <1>1
  <2>2. ASSUME NEW p \in AtLevel(nodes, L - (k + 1))
        PROVE  Reached(k + 1, p)
    <3>1. p # m_rootID
      <4>1. nodes[p].level = L - (k + 1)
        BY DEF AtLevel
      <4>2. L - (k + 1) # L
        BY <1>1
      <4>3. QED
        BY <4>1, <4>2
    <3>2. PICK r \in AtLevel(nodes, L - k) : p \in Children(nodes[r])
      <4>1. \E r \in AtLevel(nodes, L - ((k + 1) - 1)) : p \in Children(nodes[r])
        BY <1>3, <2>1, <3>1, Zenon
      <4>2. QED
        BY <2>1, <4>1
    <3>3. PICK q \in AllWays[k] : Last(q) = r
      BY <1>5, <3>2
    <3>4. Way(q, k)
      BY <2>1, WaysGoDown
    <3>5. PICK e \in Anywhere(q) : e.id = p
      BY <2>1, <3>2, <3>3, <3>4, OneFurther
    <3>6. Append(q, p) \in AllWays[k + 1] /\ Last(Append(q, p)) = p
      <4>1. Append(q, p) \in Further(AllWays[k])
        BY <3>5 DEF Further
      <4>2. QED
        BY <1>2, <2>1, <3>2, <3>3, <3>4, <4>1, OneFurther
    <3>7. QED
      BY <3>6
  <2>3. QED
    BY <2>1, <2>2
<1> HIDE DEF S
<1>6. \A k \in 0 .. L : k \in S
  BY <1>1, <1>4, <1>5, UpTo
<1>7. QED
  BY <1>6 DEF S

LEMMA OneWayEach ==
  ASSUME TreeInv
  PROVE  \A k \in 0 .. nodes[m_rootID].level : \A q, r \in AllWays[k] : Last(q) = Last(r) => q = r
<1> DEFINE L == nodes[m_rootID].level
           S == {k \in 0 .. L : \A q, r \in AllWays[k] : Last(q) = Last(r) => q = r}
<1>1. TreeOK(nodes, m_rootID) /\ L \in Nat /\ OneOwner(nodes, m_rootID, work)
  BY NodesTyped, OneOwnerEach DEF TreeInv, Sound, StackOK, TreeOK
<1>2. 0 \in S
  BY <1>1, AllWaysBuilt
<1>3. ASSUME NEW k \in 0 .. L - 1, k \in S
      PROVE  k + 1 \in S
  <2>1. k + 1 \in 1 .. L /\ (k + 1) - 1 = k /\ k + 1 \in 0 .. L
    BY <1>1
  <2>2. ASSUME NEW q \in AllWays[k + 1], NEW r \in AllWays[k + 1], Last(q) = Last(r)
        PROVE  q = r
    <3>1. PICK a \in AllWays[k] :
            q = Append(a, Last(q)) /\ Last(q) \in Children(nodes[Last(a)]) /\ Way(a, k)
      BY <2>1, StepBack
    <3>2. PICK b \in AllWays[k] :
            r = Append(b, Last(r)) /\ Last(r) \in Children(nodes[Last(b)]) /\ Way(b, k)
      BY <2>1, StepBack
    <3>3. Last(a) = Last(b)
      BY <1>1, <2>2, <3>1, <3>2 DEF OneOwner, Way
    <3>4. a = b
      BY <1>3, <3>3
    <3>5. QED
      BY <2>2, <3>1, <3>2, <3>4
  <2>3. QED
    BY <2>1, <2>2
<1> HIDE DEF S
<1>4. \A k \in 0 .. L : k \in S
  BY <1>1, <1>2, <1>3, UpTo
<1>5. QED
  BY <1>4 DEF S


LEMMA WalkAtLevel ==
  ASSUME TreeInv, work = <<>>, NEW l \in 0 .. nodes[m_rootID].level
  PROVE  Cardinality({q \in Walk : nodes[Last(q)].level = l}) = SizeAt(nodes, l)
<1> DEFINE L == nodes[m_rootID].level
           k == L - l
           A == AtLevel(nodes, l)
           B == {q \in Walk : nodes[Last(q)].level = l}
           f == [q \in B |-> Last(q)]
<1>1. TreeOK(nodes, m_rootID) /\ L \in Nat
  BY NodesTyped DEF TreeInv, Sound, TreeOK
<1>2. k \in 0 .. L /\ L - k = l /\ l \in Nat
  BY <1>1
<1>3. IsFiniteSet(A)
  BY <1>1, LevelsFinite
<1>4. B \subseteq AllWays[k]
  <2>1. ASSUME NEW q \in B
        PROVE  q \in AllWays[k]
    <3>1. PICK j \in 0 .. L : q \in AllWays[j]
      BY <1>1, AllWaysBuilt
    <3>2. nodes[Last(q)].level = L - j
      BY <3>1, WaysGoDown DEF Way
    <3>3. j = k
      BY <1>1, <1>2, <2>1, <3>2
    <3>4. QED
      BY <3>1, <3>3
  <2>2. QED
    BY <2>1
<1>5. \A q \in AllWays[k] : q \in B /\ Last(q) \in A
  <2>1. ASSUME NEW q \in AllWays[k]
        PROVE  q \in B /\ Last(q) \in A
    <3>1. q \in Walk
      BY <1>1, <1>2, AllWaysBuilt
    <3>2. Last(q) \in DOMAIN nodes /\ nodes[Last(q)].level = L - k
      BY <1>2, WaysGoDown DEF Way
    <3>3. QED
      BY <1>2, <3>1, <3>2 DEF AtLevel
  <2>2. QED
    BY <2>1
<1>6. \A q, r \in AllWays[k] : Last(q) = Last(r) => q = r
  BY <1>2, OneWayEach
<1>7. \A p \in A : \E q \in AllWays[k] : Last(q) = p
  BY <1>2, WaysReachAll
<1> HIDE DEF A, B, k, L
<1>8. f \in [B -> A] /\ \A q, r \in B : f[q] = f[r] => q = r
  BY <1>4, <1>5, <1>6
<1>9. \A p \in A : \E q \in B : f[q] = p
  BY <1>5, <1>7
<1> HIDE DEF f
<1>10. f \in Finite!Injection(B, A)
  BY <1>8 DEF Finite!Injection, Finite!IsInjective
<1>11. f \in Finite!Surjection(B, A)
  BY <1>8, <1>9 DEF Finite!Surjection
<1>12. Finite!IsFiniteSet(A)
  BY <1>3, Zenon DEF IsFiniteSet, Finite!IsFiniteSet
<1>13. Finite!Cardinality(B) = Finite!Cardinality(A)
  BY <1>10, <1>11, <1>12, Finite!FS_Injection
<1>14. Cardinality(B) = Cardinality(A)
  BY <1>13, Zenon DEF Cardinality, Finite!Cardinality
<1>15. QED
  BY <1>14 DEF A, B, SizeAt

\* What Sum computes, step by step.
SomeOf(s) == CHOOSE x \in s : TRUE

Summing(g, f) ==
  g = [s \in SUBSET DOMAIN f |-> IF s = {} THEN 0 ELSE f[SomeOf(s)] + g[s \ {SomeOf(s)}]]

LEMMA SumUnfolds ==
  ASSUME NEW f
  PROVE  Sum(f) = (CHOOSE g : Summing(g, f))[DOMAIN f]
BY DEF Sum, Maps!FoldFunction, Maps!FoldFunctionOnSet, Maps!MapThenFoldSet, Summing, SomeOf

LEMMA SumSteps ==
  ASSUME NEW f, IsFiniteSet(DOMAIN f), NEW g, Summing(g, f), NEW h, Summing(h, f)
  PROVE  g[DOMAIN f] = h[DOMAIN f]
<1> DEFINE D == DOMAIN f
           Bad == {s \in SUBSET D : g[s] # h[s]}
<1>1. \A s \in SUBSET D :
        /\ g[s] = IF s = {} THEN 0 ELSE f[SomeOf(s)] + g[s \ {SomeOf(s)}]
        /\ h[s] = IF s = {} THEN 0 ELSE f[SomeOf(s)] + h[s \ {SomeOf(s)}]
  BY DEF Summing
<1>2. \A s \in SUBSET D : IsFiniteSet(s) /\ Cardinality(s) \in Nat
  BY FS_Subset, FS_CardinalityType
<1> DEFINE sizes == {Cardinality(s) : s \in Bad}
<1>3. sizes \in SUBSET Nat
  BY <1>2
<1>4. SUFFICES ASSUME Bad # {}
               PROVE  FALSE
  OBVIOUS
<1>5. sizes # {}
  BY <1>4
<1>6. PICK m \in sizes : \A x \in sizes : m <= x
  <2> HIDE DEF sizes
  <2>1. QED
    BY <1>3, <1>5, LeastNumber
<1>7. PICK s \in Bad : \A t \in Bad : Cardinality(s) <= Cardinality(t)
  BY <1>6
<1>8. s \in SUBSET D /\ s # {} /\ g[s] # h[s]
  BY <1>1
<1> DEFINE x == SomeOf(s)
           t == s \ {x}
<1>9. x \in s
  BY <1>8 DEF SomeOf
<1>10. t \in SUBSET D /\ Cardinality(t) = Cardinality(s) - 1
  BY <1>2, <1>8, <1>9, FS_RemoveElement
<1>11. g[s] = f[x] + g[t] /\ h[s] = f[x] + h[t]
  BY <1>1, <1>8
<1> HIDE DEF t
<1>12. ~(Cardinality(s) <= Cardinality(t))
  BY <1>2, <1>8, <1>10
<1>13. g[t] = h[t]
  BY <1>7, <1>10, <1>12
<1>14. QED
  BY <1>8, <1>11, <1>13

\* The sum of the numbers of elements of each class is the number of all.
LEMMA SumOfClasses ==
  ASSUME NEW P, IsFiniteSet(P), NEW n \in Nat, NEW class \in [P -> 1 .. n],
         NEW f, f = [l \in 1 .. n |-> Cardinality({p \in P : class[p] = l})]
  PROVE  Sum(f) = Cardinality(P)
<1> DEFINE D == 1 .. n
           In(s) == {p \in P : class[p] \in s}
           h == [s \in SUBSET D |-> Cardinality(In(s))]
<1>1. DOMAIN f = D /\ \A l \in D : f[l] = Cardinality({p \in P : class[p] = l})
  OBVIOUS
<1>2. \A s : IsFiniteSet(In(s)) /\ Cardinality(In(s)) \in Nat
  BY FS_Subset, FS_CardinalityType
<1>3. ASSUME NEW s \in SUBSET D, s # {}
      PROVE  Cardinality(In(s)) = f[SomeOf(s)] + Cardinality(In(s \ {SomeOf(s)}))
  <2> DEFINE x == SomeOf(s)
             one == {p \in P : class[p] = x}
             others == In(s \ {x})
  <2>1. x \in s
    BY <1>3 DEF SomeOf
  <2>2. In(s) = one \cup others /\ one \cap others = {}
    BY <2>1
  <2>3. IsFiniteSet(one) /\ IsFiniteSet(others) /\ Cardinality(one) \in Nat /\ Cardinality(others) \in Nat
    BY <1>2, FS_Subset, FS_CardinalityType
  <2>4. f[x] = Cardinality(one)
    BY <1>1, <2>1
  <2> HIDE DEF one, others, x
  <2>5. Cardinality(one \cup others) = Cardinality(one) + Cardinality(others)
    <3>1. Cardinality(one \cap others) = 0
      BY <2>2, FS_EmptySet
    <3>2. Cardinality(one \cup others) = Cardinality(one) + Cardinality(others) - Cardinality(one \cap others)
      BY <2>3, FS_Union
    <3>3. QED
      BY <2>3, <3>1, <3>2
  <2>6. QED
    BY <2>2, <2>4, <2>5 DEF others, x
<1>4. Cardinality(In({})) = 0
  <2>1. In({}) = {}
    OBVIOUS
  <2>2. QED
    BY <2>1, FS_EmptySet
<1>5. Cardinality(In(D)) = Cardinality(P)
  <2>1. In(D) = P
    OBVIOUS
  <2>2. QED
    BY <2>1
<1> HIDE DEF In
<1>6. \A s \in SUBSET D : h[s] = IF s = {} THEN 0 ELSE f[SomeOf(s)] + h[s \ {SomeOf(s)}]
  <2>1. ASSUME NEW s \in SUBSET D
        PROVE  h[s] = IF s = {} THEN 0 ELSE f[SomeOf(s)] + h[s \ {SomeOf(s)}]
    <3>1. s \ {SomeOf(s)} \in SUBSET D
      OBVIOUS
    <3>2. h[s] = Cardinality(In(s)) /\ h[s \ {SomeOf(s)}] = Cardinality(In(s \ {SomeOf(s)}))
      BY <3>1
    <3>3. QED
      BY <1>3, <1>4, <3>2
  <2>2. QED
    BY <2>1
<1>7. h[D] = Cardinality(P)
  BY <1>5
<1>8. h = [s \in SUBSET D |-> h[s]]
  OBVIOUS
<1> HIDE DEF h
<1>9. Summing(h, f)
  BY <1>1, <1>6, <1>8 DEF Summing
<1>10. IsFiniteSet(DOMAIN f)
  BY <1>1, NumbersUpTo
<1>11. Sum(f) = h[D]
  <2> DEFINE g == CHOOSE g : Summing(g, f)
  <2>1. Summing(g, f)
    BY <1>9
  <2>2. Sum(f) = g[DOMAIN f]
    BY SumUnfolds
  <2> HIDE DEF g
  <2>3. QED
    BY <1>1, <1>9, <1>10, <2>1, <2>2, SumSteps
<1>12. QED
  BY <1>7, <1>11

LEMMA ValidWhenIdle ==
  ASSUME TreeInv, BoxInv, TightMBRs, work = <<>>, NEW exact, exact, CountInv(exact)
  PROVE  IsIndexValid
<1> DEFINE root == nodes[m_rootID]
           L == root.level
           height == m_stats.u32TreeHeight
           counts == m_stats.nodesInLevel
<1>1. /\ TreeOK(nodes, m_rootID) /\ m_rootID \in DOMAIN nodes /\ L \in Nat /\ IsFiniteSet(DOMAIN nodes)
      /\ \A p \in DOMAIN nodes : nodes[p].level \in 0 .. L
  BY NodesTyped DEF TreeInv, Sound, TreeOK
<1>2. /\ m_stats.u32Nodes = Cardinality(DOMAIN nodes) /\ height = L + 1
      /\ \A l \in 0 .. L : counts[l + 1] = SizeAt(nodes, l)
  BY DEF CountInv, Counted, Tallies
<1>3. ASSUME NEW q \in Walk
      PROVE  nodes[Last(q)].mbr = NodeBox(nodes[Last(q)].kids) /\ nodes[Last(q)].mbr = ParentMBR(q)
  <2>1. PICK k \in 0 .. L : q \in AllWays[k]
    BY <1>1, AllWaysBuilt
  <2>2. Way(q, k)
    BY <2>1, WaysGoDown
  <2>3. nodes[Last(q)].mbr = NodeBox(nodes[Last(q)].kids)
    BY <2>2, QuietWhenIdle DEF Way, BoxOK
  <2>4. CASE k = 0
    <3>1. q = <<m_rootID>>
      BY <1>1, <2>1, <2>4, AllWaysBuilt
    <3>2. Len(q) = 1 /\ Last(q) = m_rootID
      BY <3>1 DEF Last
    <3>3. QED
      BY <2>3, <3>2 DEF ParentMBR
  <2>5. CASE k # 0
    <3>1. k \in 1 .. L
      BY <1>1, <2>5
    <3>2. PICK r \in AllWays[k - 1] :
            q = Append(r, Last(q)) /\ Last(q) \in Children(nodes[Last(r)]) /\ Way(r, k - 1)
      BY <2>1, <3>1, StepBack
    <3> DEFINE p == Last(r)
               siblings == nodes[p].kids
               c == Last(q)
    <3>3. p \in DOMAIN nodes /\ siblings \in Seq(Entry) /\ FitsIn(nodes, nodes[p])
      BY <1>1, <3>2, NodesTyped DEF Way
    <3>4. Len(q) # 1 /\ q[Len(q) - 1] = p
      <4>1. r \in Seq(Nat) /\ Len(r) = k /\ Len(q) = k + 1 /\ r # <<>>
        BY <2>2, <3>1, <3>2 DEF Way, Path
      <4>2. c \in DOMAIN nodes /\ c \in Nat
        BY <1>1, <2>2, NodesTyped DEF Way
      <4>3. p = r[k]
        BY <4>1 DEF Last
      <4> HIDE DEF c, p
      <4>4. Append(r, c)[k] = r[k]
        BY <3>1, <4>1, <4>2
      <4>5. Len(q) # 1 /\ Len(q) - 1 = k
        BY <3>1, <4>1
      <4>6. QED
        BY <3>2, <4>3, <4>4, <4>5 DEF c, p
    <3>5. nodes[p].level # 0
      BY <3>2 DEF Children
    <3>6. PICK i \in DOMAIN siblings : siblings[i].id = c
      BY <3>2, <3>5 DEF Children, KidIds
    <3> DEFINE at == PositionOf(siblings, c)
    <3>7. at \in DOMAIN siblings /\ siblings[at].id = c
      BY <3>3, <3>6, PositionFound
    <3>8. siblings[at].mbr = nodes[c].mbr
      <4> HIDE DEF at
      <4>1. Spans(nodes, siblings[at].mbr, siblings[at].id)
        BY <3>3, <3>5, <3>7, QuietWhenIdle DEF KidsSpan
      <4>2. QED
        BY <3>7, <4>1 DEF Spans
    <3>9. ParentMBR(q) = siblings[at].mbr
      BY <3>4 DEF ParentMBR
    <3>10. QED
      BY <2>3, <3>8, <3>9
  <2>6. QED
    BY <2>4, <2>5
<1>4. WalkIsValid
  <2>1. root.level = height - 1
    BY <1>1, <1>2
  <2>2. QED
    BY <1>3, <2>1 DEF WalkIsValid
<1>5. \A l \in 1 .. height : counts[l] = SizeAt(nodes, l - 1) /\ l - 1 \in 0 .. L
  <2>1. \A l \in 1 .. height : l - 1 \in 0 .. L /\ (l - 1) + 1 = l
    BY <1>1, <1>2
  <2>2. QED
    BY <1>2, <2>1
<1>6. \A l \in 1 .. height : counts[l] = Cardinality({q \in Walk : nodes[Last(q)].level = l - 1})
  BY <1>5, WalkAtLevel
<1>7. m_stats.u32Nodes = Sum([l \in 1 .. height |-> counts[l]])
  <2> DEFINE P == DOMAIN nodes
             class == [p \in P |-> nodes[p].level + 1]
             f == [l \in 1 .. height |-> counts[l]]
  <2>1. class \in [P -> 1 .. height] /\ height \in Nat
    BY <1>1, <1>2
  <2>2. \A l \in 1 .. height : {p \in P : class[p] = l} = AtLevel(nodes, l - 1)
    BY <1>1, <1>2 DEF AtLevel
  <2>3. f = [l \in 1 .. height |-> Cardinality({p \in P : class[p] = l})]
    <3> HIDE DEF class
    <3>1. \A l \in 1 .. height : counts[l] = Cardinality({p \in P : class[p] = l})
      BY <1>5, <2>2 DEF SizeAt
    <3>2. QED
      BY <3>1
  <2>4. IsFiniteSet(P)
    BY <1>1
  <2> HIDE DEF class, f
  <2>5. Sum(f) = Cardinality(P)
    BY <2>1, <2>3, <2>4, SumOfClasses
  <2>6. QED
    BY <1>2, <2>5 DEF f
<1>8. CountersAgree
  BY <1>6, <1>7 DEF CountersAgree
<1>9. QED
  BY <1>4, <1>8 DEF IsIndexValid


------------------------------------------------------------------------------
(***************************************************************************)
(* The root.  If nodes keep at least two children in their splits,         *)
(* reinsertions and condensations, then a root has two as well, except     *)
(* while a condensation that cut one off is about to collapse it: a root   *)
(* that collapses has lost a sibling of the child that takes its place,    *)
(* and the two levels that CollapseRoot leaves are counted exactly.        *)
(***************************************************************************)
IndexNodesBranch ==
  /\ Floor(IndexCapacity, FillFactor) >= 2
  /\ Variant = "rstar" =>
       /\ Floor(IndexCapacity + 1, SplitDistributionFactor) - 1 >= 2
       /\ IndexCapacity + 1 - Floor(IndexCapacity + 1, ReinsertFactor) >= 2

TwoKidsLoad == [level \in Nat |-> IF level = 0 THEN 0 ELSE 2]

AtRootWithout(stack) ==
  stack # <<>> /\ stack[1].fn = "condenseTree" /\ AtRoot(stack[1]) /\ LostSibling(stack[1])

RootInv ==
  nodes[m_rootID].level # 0 =>
    \/ Len(nodes[m_rootID].kids) >= 2
    \/ Len(nodes[m_rootID].kids) >= 1 /\ AtRootWithout(work)

LEMMA TwoKidsAttained ==
  ASSUME IndexNodesBranch
  PROVE  Attained(TwoKidsLoad)
<1>1. TwoKidsLoad \in Loads
  BY DEF TwoKidsLoad, Loads
<1>2. ASSUME NEW level \in Nat
      PROVE  /\ TwoKidsLoad[level] <= MinimumLoad(level)
             /\ TwoKidsLoad[level] <= LeastShare(level)
             /\ Variant = "rstar" =>
                  TwoKidsLoad[level] <= Capacity(level) + 1 - Floor(Capacity(level) + 1, ReinsertFactor)
  <2> DEFINE c == Capacity(level)
             d == Floor(c + 1, ReinsertFactor)
  <2>1. c \in Nat
    BY CapacityAtLeastFour
  <2>2. d \in Nat /\ d <= c + 1
    <3>1. c + 1 \in Nat /\ ProperFraction(ReinsertFactor)
      BY <2>1, RTreeNodeAssumption
    <3> HIDE DEF c
    <3>2. QED
      BY <3>1, PartOf
  <2>3. MinimumLoad(level) \in Nat /\ LeastShare(level) \in Nat
    BY MinimumLoadType, LeastShareOfTwo
  <2>4. CASE level = 0
    <3>1. TwoKidsLoad[level] = 0
      BY <2>4 DEF TwoKidsLoad
    <3>2. 0 <= c + 1 - d
      <4> HIDE DEF c, d
      <4>1. QED
        BY <2>1, <2>2
    <3>3. QED
      BY <2>3, <3>1, <3>2
  <2>5. CASE level # 0
    <3>1. TwoKidsLoad[level] = 2
      BY <2>5 DEF TwoKidsLoad
    <3>2. c = IndexCapacity
      BY <2>5 DEF Capacity
    <3>3. 2 <= MinimumLoad(level)
      BY <2>3, <3>2 DEF IndexNodesBranch, MinimumLoad
    <3>4. 2 <= LeastShare(level)
      BY <2>3, <3>2, <3>3 DEF IndexNodesBranch, LeastShare
    <3>5. Variant = "rstar" => 2 <= c + 1 - d
      BY <2>1, <2>2, <3>2 DEF IndexNodesBranch
    <3>6. QED
      BY <3>1, <3>3, <3>4, <3>5
  <2>6. QED
    BY <2>4, <2>5
<1>3. QED
  BY <1>1, <1>2 DEF Attained

\* A root that is not being collapsed keeps its children, or gets more.
LEMMA RootKept ==
  ASSUME TreeInv, RootInv, work = <<>> \/ work[1].fn # "condenseTree" \/ ~AtRoot(work[1]),
         m_rootID' = m_rootID, nodes'[m_rootID].level = nodes[m_rootID].level,
         Len(nodes'[m_rootID].kids) \in Nat,
         Len(nodes'[m_rootID].kids) >= Len(nodes[m_rootID].kids)
  PROVE  RootInv'
<1> DEFINE a == Len(nodes[m_rootID].kids)
           b == Len(nodes'[m_rootID].kids)
<1>1. a \in Nat
  BY NodesTyped DEF TreeInv, Sound, TreeOK
<1>2. ~AtRootWithout(work)
  BY DEF AtRootWithout
<1>3. nodes[m_rootID].level # 0 => a >= 2
  BY <1>2 DEF RootInv
<1>4. b \in Nat /\ b >= a
  OBVIOUS
<1> HIDE DEF a, b
<1>5. a >= 2 => b >= 2
  BY <1>1, <1>4
<1>6. QED
  BY <1>3, <1>5 DEF RootInv, b

LEMMA RootLength ==
  ASSUME TreeInv
  PROVE  m_rootID \in DOMAIN nodes /\ Len(nodes[m_rootID].kids) \in Nat /\ nodes[m_rootID].level \in Nat
BY NodesTyped DEF TreeInv, Sound, TreeOK

LEMMA RootUntouched ==
  ASSUME TreeInv, RootInv, work = <<>> \/ work[1].fn # "condenseTree" \/ ~AtRoot(work[1]),
         m_rootID' = m_rootID, nodes'[m_rootID] = nodes[m_rootID]
  PROVE  RootInv'
BY RootLength, RootKept

\* What an insertion works on below the root is not the root.
LEMMA BelowTheRoot ==
  ASSUME TreeInv, NEW path \in Path, NEW page, Route(nodes, m_rootID, path, page)
  PROVE  path = <<>> <=> page = m_rootID
<1>1. nodes[page].level = nodes[m_rootID].level - Len(path) /\ Len(path) \in Nat
  BY DEF Route, Path
<1>2. nodes[m_rootID].level \in Nat
  BY RootLength
<1>3. path = <<>> => page = m_rootID
  BY DEF Route
<1>4. page = m_rootID => Len(path) = 0
  BY <1>1, <1>2
<1>5. QED
  BY <1>3, <1>4 DEF Path

LEMMA RootInserting ==
  ASSUME ReinsertsSome, TreeInv, WayInv, RootInv,
         InsertFits \/ AdjustTree \/ ForcedReinsert \/ SplitNode \/ SplitRoot
  PROVE  RootInv'
<1> DEFINE f == work[1]
<1>1. work # <<>> /\ m_rootID' = m_rootID /\ f.fn \in {"insertData", "adjustTree"}
  BY InStep, Zenon DEF InsertFits, AdjustTree, ForcedReinsert, SplitNode, SplitRoot
<1>2. f.fn # "condenseTree"
  BY <1>1
<1>3. m_rootID \in DOMAIN nodes /\ Len(nodes[m_rootID].kids) \in Nat
  BY RootLength
<1>4. CASE InsertFits
  <2>1. PICK m : /\ OnlyAt(f.page, m, nodes, nodes') /\ m.level = nodes[f.page].level
                 /\ Len(m.kids) = Len(nodes[f.page].kids) + 1 /\ Len(nodes[f.page].kids) \in Nat
    BY <1>4, InsertionLengthens
  <2>2. CASE f.page = m_rootID
    <3>1. nodes'[m_rootID] = m
      BY <2>1, <2>2 DEF OnlyAt
    <3>2. Len(m.kids) \in Nat /\ Len(m.kids) >= Len(nodes[m_rootID].kids)
      BY <2>1, <2>2
    <3>3. QED
      BY <1>1, <1>2, <2>1, <2>2, <3>1, <3>2, RootKept
  <2>3. CASE f.page # m_rootID
    BY <1>1, <1>2, <1>3, <2>1, <2>3, RootUntouched DEF OnlyAt
  <2>4. QED
    BY <2>2, <2>3
<1>5. CASE AdjustTree
  <2>1. PICK m : /\ OnlyAt(f.page, m, nodes, nodes') /\ m.level = nodes[f.page].level
                 /\ Len(m.kids) = Len(nodes[f.page].kids)
    BY <1>5, AdjustmentKeepsLength
  <2>2. CASE f.page = m_rootID
    <3>1. nodes'[m_rootID] = m
      BY <2>1, <2>2 DEF OnlyAt
    <3>2. Len(m.kids) \in Nat /\ Len(m.kids) >= Len(nodes[m_rootID].kids)
      BY <1>3, <2>1, <2>2
    <3>3. QED
      BY <1>1, <1>2, <2>1, <2>2, <3>1, <3>2, RootKept
  <2>3. CASE f.page # m_rootID
    BY <1>1, <1>2, <1>3, <2>1, <2>3, RootUntouched DEF OnlyAt
  <2>4. QED
    BY <2>2, <2>3
<1>6. CASE ForcedReinsert
  <2>1. Inserting(f) /\ f.path # <<>> /\ \E m : OnlyAt(f.page, m, nodes, nodes')
    BY <1>6, ForcedReinsertDoes
  <2>2. f.page # m_rootID
    BY <2>1, BelowTheRoot DEF Inserting
  <2>3. nodes'[m_rootID] = nodes[m_rootID]
    BY <1>3, <2>1, <2>2 DEF OnlyAt
  <2>4. QED
    BY <1>1, <1>2, <2>3, RootUntouched
<1>7. CASE SplitNode
  <2>1. Inserting(f) /\ f.path # <<>> /\ \E m, nn, mm : TwoPages(f.page, m, nn, mm, nodes, nodes')
    BY <1>7, SplitNodeDoes
  <2>2. f.page # m_rootID
    BY <2>1, BelowTheRoot DEF Inserting
  <2>3. nodes'[m_rootID] = nodes[m_rootID]
    BY <1>3, <2>1, <2>2 DEF TwoPages
  <2>4. QED
    BY <1>1, <1>2, <2>3, RootUntouched
<1>8. CASE SplitRoot
  <2> DEFINE level == f.node.level
  <2>1. PICK g, n, nn :
          /\ g[1] \in Seq(Entry) /\ g[2] \in Seq(Entry) /\ n \in Nat /\ nn \in Nat /\ n # nn
          /\ ThreePages(m_rootID, Node(level + 1, TwoKids(n, Node(level, g[1]).mbr,
                                                          nn, Node(level, g[2]).mbr)),
                        n, Node(level, g[1]), nn, Node(level, g[2]), nodes, nodes')
    BY <1>8, SplitRootDoes
  <2> DEFINE b1 == Node(level, g[1]).mbr
             b2 == Node(level, g[2]).mbr
             kids == TwoKids(n, b1, nn, b2)
  <2>2. b1 \in Regions /\ b2 \in Regions
    BY <2>1, NodeBoxCovers DEF Node
  <2>3. nodes'[m_rootID].kids = kids
    BY <2>1 DEF ThreePages, Node
  <2> HIDE DEF b1, b2
  <2>4. Len(kids) = 2
    BY <2>1, <2>2, TwoKidsOf
  <2>5. Len(nodes'[m_rootID].kids) >= 2
    BY <2>3, <2>4
  <2>6. QED
    BY <1>1, <2>5 DEF RootInv
<1>9. QED
  BY <1>4, <1>5, <1>6, <1>7, <1>8

LEMMA RootCondensing ==
  ASSUME TreeInv, RootInv, CondenseTree
  PROVE  RootInv'
<1> DEFINE f == work[1]
           n == nodes[f.page]
           parent == Last(f.path)
           p == nodes[parent]
           at == PositionOf(p.kids, f.page)
           short == DeleteEntry(p, at)
           same == Adjusted(p, Updated(p.kids, f.page, n.mbr), TightMBRs)
           list == Append(f.toReinsert, f.page)
           g == CondenseFrame(parent, Front(f.path), IF Underfull(n) THEN list ELSE f.toReinsert)
<1>1. work # <<>> /\ f.fn = "condenseTree" /\ m_rootID' = m_rootID
  BY InStep, Zenon DEF CondenseTree
<1>2. /\ f.path \in Path /\ f.path # <<>> /\ f.toReinsert \in Seq(Nat)
      /\ f.page \in DOMAIN nodes /\ parent \in DOMAIN nodes /\ p.level = n.level + 1
      /\ at \in DOMAIN p.kids /\ p.kids[at].id = f.page /\ n \in Nodes /\ p \in Nodes
      /\ Route(nodes, m_rootID, Front(f.path), parent)
      /\ OnlyAt(parent, IF Underfull(n) THEN short ELSE same, nodes, nodes')
      /\ Became(<<g>>)
  BY CondenseTreeDoes
<1>3. ~AtRoot(f)
  BY <1>2 DEF AtRoot
<1>4. m_rootID \in DOMAIN nodes /\ Len(nodes[m_rootID].kids) \in Nat
  BY RootLength
<1>5. CASE parent # m_rootID
  <2>1. nodes'[m_rootID] = nodes[m_rootID]
    BY <1>2, <1>4, <1>5 DEF OnlyAt
  <2>2. QED
    BY <1>1, <1>3, <2>1, RootUntouched
<1>6. CASE parent = m_rootID /\ ~Underfull(n)
  <2>1. nodes'[m_rootID] = same
    BY <1>2, <1>6 DEF OnlyAt
  <2>2. same.level = p.level /\ same.kids = Updated(p.kids, f.page, n.mbr)
    BY <1>2 DEF Adjusted, Nodes
  <2>3. p.kids \in Seq(Entry) /\ f.page \in KidIds(p.kids) /\ n.mbr \in Regions
    BY <1>2 DEF Nodes, KidIds
  <2>4. DOMAIN same.kids = DOMAIN p.kids /\ same.kids \in Seq(Entry)
    BY <2>2, <2>3, UpdatedKids
  <2> HIDE DEF same
  <2>5. Len(same.kids) = Len(p.kids) /\ Len(p.kids) \in Nat
    BY <2>3, <2>4
  <2>6. QED
    BY <1>1, <1>3, <1>6, <2>1, <2>2, <2>5, RootKept
<1>7. CASE parent = m_rootID /\ Underfull(n)
  <2>1. nodes'[m_rootID] = short
    BY <1>2, <1>7 DEF OnlyAt
  <2>2. Len(short.kids) = Len(p.kids) - 1 /\ short.level = p.level
    <3> DEFINE kids == WithoutEntry(p.kids, at)
    <3>1. p.kids \in Seq(Entry)
      BY <1>2 DEF Nodes
    <3>2. OneLess(p.kids, at, kids)
      BY <1>2, <3>1, OneOut
    <3>3. short.kids = kids /\ short.level = p.level
      BY <1>2 DEF DeleteEntry, WithoutEntry, Nodes
    <3>4. QED
      BY <3>2, <3>3 DEF OneLess
  <2>3. p.level # 0
    BY <1>2 DEF Nodes
  <2>4. Len(p.kids) >= 2 /\ Len(p.kids) \in Nat
    BY <1>3, <1>4, <1>7, <2>3 DEF RootInv, AtRootWithout
  <2>5. Len(short.kids) >= 1
    BY <2>2, <2>4
  <2>6. work' # <<>> /\ work'[1] = g
    <3> HIDE DEF g
    <3>1. QED
      BY <1>1, <1>2, OneOnTop
  <2>7. g.fn = "condenseTree" /\ g.path = Front(f.path) /\ g.toReinsert = list
    BY <1>7 DEF CondenseFrame
  <2>8. AtRoot(g)
    <3>1. Front(f.path) \in Path
      BY <1>2, FrontOf DEF Path
    <3>2. Front(f.path) = <<>>
      BY <1>2, <1>7, <3>1, BelowTheRoot
    <3>3. QED
      BY <2>7, <3>2 DEF AtRoot
  <2>9. nodes'[f.page] = n /\ n.level = short.level - 1
    <3>1. f.page # parent /\ n.level = p.level - 1
      BY <1>2 DEF Nodes
    <3>2. nodes'[f.page] = n
      BY <1>2, <3>1 DEF OnlyAt
    <3>3. QED
      BY <2>2, <3>1, <3>2
  <2>10. \E i \in DOMAIN list : list[i] = f.page
    <3>1. f.page \in Nat
      BY <1>2, <1>4, NodesTyped DEF TreeInv, Sound
    <3> DEFINE old == f.toReinsert
               page == f.page
    <3>2. old \in Seq(Nat) /\ page \in Nat /\ list = Append(old, page)
      BY <1>2, <3>1
    <3> HIDE DEF old, page, list
    <3>3. Len(old) + 1 \in DOMAIN list /\ list[Len(old) + 1] = page
      BY <3>2
    <3>4. QED
      BY <3>3 DEF page
  <2> HIDE DEF g, list, short
  <2>11. \E i \in DOMAIN g.toReinsert : nodes'[g.toReinsert[i]].level = nodes'[m_rootID'].level - 1
    BY <1>1, <2>1, <2>7, <2>9, <2>10
  <2>12. AtRootWithout(work)'
    <3> DEFINE w == work'
    <3>1. w # <<>> /\ w[1].fn = "condenseTree" /\ w[1].path = <<>>
      BY <2>6, <2>7, <2>8 DEF AtRoot
    <3>2. \E i \in DOMAIN w[1].toReinsert : nodes'[w[1].toReinsert[i]].level = nodes'[m_rootID'].level - 1
      BY <2>6, <2>11
    <3>3. QED
      BY <3>1, <3>2, Zenon DEF AtRootWithout, LostSibling, AtRoot
  <2>13. QED
    BY <1>1, <2>1, <2>5, <2>12 DEF RootInv
<1>8. QED
  BY <1>5, <1>6, <1>7

\* The child that takes the root's place is below it, and in no call's hands.
LEMMA RootCollapsing ==
  ASSUME TreeInv, FillInv(TwoKidsLoad), RootInv, CollapseRoot
  PROVE  LostSibling(work[1]) /\ RootInv'
<1> DEFINE f == work[1]
           n == nodes[m_rootID]
           child == n.kids[1].id
<1>1. work # <<>> /\ m_rootID' = m_rootID
  BY InStep, Zenon DEF CollapseRoot
<1>2. /\ f.fn = "condenseTree" /\ f.page = m_rootID /\ n.level # 0 /\ Len(n.kids) = 1
      /\ child \in DOMAIN nodes /\ child # m_rootID /\ child \in Children(n)
      /\ nodes'[m_rootID] = nodes[child]
  BY CollapseRootDoes
<1>3. LostSibling(f)
  BY <1>2 DEF RootInv, AtRootWithout
<1>4. OneOwner(nodes, m_rootID, work) /\ m_rootID \in DOMAIN nodes
  BY OneOwnerEach DEF TreeInv, Sound, StackOK, TreeOK
<1> HIDE DEF child
<1>5. ~Holds(work, child)
  BY <1>2, <1>4 DEF OneOwner
<1>6. ~Excused(work, child)
  <2>1. ~ToDelete(work, child)
    <3> SUFFICES ASSUME NEW k \in DOMAIN work, work[k].fn = "deleteNode", work[k].page = child
                 PROVE  FALSE
      BY DEF ToDelete
    <3>1. child \in HeldPages(work[k])
      BY DEF HeldPages
    <3>2. QED
      BY <1>5, <3>1 DEF Holds
  <2>2. child \notin CondensingPages(f)
    <3>1. HeldPages(f) = {f.toReinsert[i] : i \in DOMAIN f.toReinsert}
      BY <1>2 DEF HeldPages
    <3>2. 1 \in DOMAIN work
      BY <1>1 DEF TreeInv, Sound, StackOK
    <3>3. child \notin HeldPages(f)
      BY <1>5, <3>2 DEF Holds
    <3>4. QED
      BY <1>2, <3>1, <3>3 DEF CondensingPages
  <2>3. QED
    BY <2>1, <2>2 DEF Excused
<1>7. Enough(TwoKidsLoad, nodes[child])
  BY <1>2, <1>6 DEF FillInv, Filled
<1>8. nodes[child].level \in Nat
  BY <1>2, NodesTyped DEF TreeInv, Sound
<1>9. nodes[child].level # 0 => Len(nodes[child].kids) >= 2
  BY <1>7, <1>8 DEF Enough, TwoKidsLoad
<1>10. RootInv'
  BY <1>1, <1>2, <1>9 DEF RootInv
<1>11. QED
  BY <1>3, <1>10

LEMMA RootCondensed ==
  ASSUME TreeInv, RootInv, CondenseRoot
  PROVE  RootInv'
<1> DEFINE n == nodes[m_rootID]
           m == Adjusted(n, n.kids, TightMBRs)
<1>1. m_rootID' = m_rootID
  BY InStep, Zenon DEF CondenseRoot
<1>2. ~OneChildLeft(n) /\ n \in Nodes /\ OnlyAt(m_rootID, m, nodes, nodes')
  BY CondenseRootDoes DEF FitsIn
<1>3. m.kids = n.kids /\ m.level = n.level
  BY <1>2 DEF Adjusted, Nodes
<1>4. nodes'[m_rootID] = m
  BY <1>2 DEF OnlyAt
<1>5. Len(n.kids) \in Nat
  BY RootLength
<1>6. n.level # 0 => Len(n.kids) >= 2
  <2> DEFINE a == Len(n.kids)
  <2>1. a \in Nat /\ (n.level # 0 => (a >= 2 \/ a >= 1) /\ a # 1)
    BY <1>2, <1>5 DEF RootInv, OneChildLeft
  <2> HIDE DEF a
  <2>2. n.level # 0 => a >= 2
    BY <2>1
  <2>3. QED
    BY <2>2 DEF a
<1> HIDE DEF m
<1>7. QED
  BY <1>1, <1>3, <1>4, <1>6 DEF RootInv

LEMMA RootDeletingNode ==
  ASSUME TreeInv, RootInv, DeleteNode
  PROVE  RootInv'
<1>1. work # <<>> /\ m_rootID' = m_rootID /\ m_rootID \in DOMAIN nodes
  BY RootLength, InStep, Zenon DEF DeleteNode
<1>2. /\ work[1].fn = "deleteNode" /\ work[1].page # m_rootID
      /\ \A p \in DOMAIN nodes \ {work[1].page} : nodes'[p] = nodes[p]
  BY DeleteNodeDoes
<1>3. work[1].fn # "condenseTree" /\ nodes'[m_rootID] = nodes[m_rootID]
  BY <1>1, <1>2
<1>4. QED
  BY <1>1, <1>3, RootUntouched

LEMMA RootWithoutPages ==
  ASSUME TreeInv, RootInv, Reinsert \/ Descend \/ Arrive \/ AdjustTreeAfterSplit \/ Finish
  PROVE  RootInv'
<1>1. ASSUME NEW fn, Step(fn), fn # "condenseTree", nodes' = nodes
      PROVE  RootInv'
  <2>1. work[1].fn = fn /\ m_rootID' = m_rootID
    BY <1>1, InStep, Zenon
  <2>2. work[1].fn # "condenseTree" /\ nodes'[m_rootID] = nodes[m_rootID]
    BY <1>1, <2>1
  <2>3. QED
    BY <2>1, <2>2, RootUntouched
<1>2. CASE Reinsert
  BY <1>1, <1>2, ReinsertDoes, Zenon DEF Reinsert
<1>3. CASE Descend
  BY <1>1, <1>3, DescendDoes, Zenon DEF Descend
<1>4. CASE Arrive
  BY <1>1, <1>4, ArriveDoes, Zenon DEF Arrive
<1>5. CASE AdjustTreeAfterSplit
  BY <1>1, <1>5, AdjustTreeAfterSplitDoes, Zenon DEF AdjustTreeAfterSplit
<1>6. CASE Finish
  BY <1>1, <1>6, FinishDoes, Zenon DEF Finish
<1>7. QED
  BY <1>2, <1>3, <1>4, <1>5, <1>6

LEMMA RootOfCalls ==
  ASSUME TreeInv, ClientOK, RootInv, Call
  PROVE  RootInv'
<1>1. work = <<>> /\ m_rootID \in DOMAIN nodes
  BY RootLength DEF Call, InsertData, DeleteData, DeleteNothing
<1>2. ASSUME nodes' = nodes, m_rootID' = m_rootID
      PROVE  RootInv'
  BY <1>1, <1>2, RootUntouched
<1>3. CASE InsertData
  BY <1>2, <1>3, Zenon DEF InsertData
<1>4. ASSUME NEW o \in Object, DeleteData(o)
      PROVE  RootInv'
  <2>1. m_rootID' = m_rootID
    BY <1>4, DeleteDataDoes
  <2>2. \E page \in DOMAIN nodes : \E child \in DOMAIN nodes[page].kids :
          /\ nodes[page].level = 0 /\ nodes[page] \in Nodes
          /\ OnlyAt(page, DeleteEntry(nodes[page], child), nodes, nodes')
    BY <1>4, DeleteDataDoes
  <2>3. PICK page \in DOMAIN nodes : \E child \in DOMAIN nodes[page].kids :
          /\ nodes[page].level = 0 /\ nodes[page] \in Nodes
          /\ OnlyAt(page, DeleteEntry(nodes[page], child), nodes, nodes')
    BY <2>2
  <2>4. PICK child \in DOMAIN nodes[page].kids :
          /\ nodes[page].level = 0 /\ nodes[page] \in Nodes
          /\ OnlyAt(page, DeleteEntry(nodes[page], child), nodes, nodes')
    BY <2>3
  <2>5. CASE page = m_rootID
    <3>1. nodes'[m_rootID].level = 0
      BY <2>4, <2>5 DEF OnlyAt, DeleteEntry, Nodes
    <3>2. QED
      BY <2>1, <3>1 DEF RootInv
  <2>6. CASE page # m_rootID
    BY <1>1, <2>1, <2>4, <2>6, RootUntouched DEF OnlyAt
  <2>7. QED
    BY <2>5, <2>6
<1>5. ASSUME NEW o \in Object, DeleteNothing(o)
      PROVE  RootInv'
  BY <1>2, <1>5, Zenon DEF DeleteNothing
<1>6. QED
  BY <1>3, <1>4, <1>5, Zenon DEF Call

LEMMA RootStep ==
  ASSUME ReinsertsSome, TreeInv, ClientOK, WayInv, FillInv(TwoKidsLoad), RootInv, [Next]_vars
  PROVE  RootInv' /\ (CollapseRoot => LostSibling(work[1]))
<1>1. CollapseRoot => LostSibling(work[1]) /\ RootInv'
  BY RootCollapsing
<1>2. RootInv'
  <2>1. CASE InsertFits \/ AdjustTree \/ ForcedReinsert \/ SplitNode \/ SplitRoot
    BY <2>1, RootInserting
  <2>2. CASE CondenseTree
    BY <2>2, RootCondensing
  <2>3. CASE CondenseRoot
    BY <2>3, RootCondensed
  <2>4. CASE DeleteNode
    BY <2>4, RootDeletingNode
  <2>5. CASE Reinsert \/ Descend \/ Arrive \/ AdjustTreeAfterSplit \/ Finish
    BY <2>5, RootWithoutPages
  <2>6. CASE Call
    BY <2>6, RootOfCalls
  <2>7. CASE UNCHANGED vars
    BY <2>7 DEF vars, RootInv, AtRootWithout, LostSibling
  <2>8. QED
    BY <1>1, <2>1, <2>2, <2>3, <2>4, <2>5, <2>6, <2>7, Zenon DEF Next, Execute
<1>3. QED
  BY <1>1, <1>2

(***************************************************************************)
(* isIndexValid answers true after any sequence of calls, of an index with *)
(* tight MBRs whose index nodes branch: the walk finds every node's MBR as *)
(* its parent has it, and the counters agree with it.                      *)
(***************************************************************************)
THEOREM IndexStaysValid ==
  ASSUME ReinsertsSome, IndexNodesBranch, TightMBRs
  PROVE  Spec => []IndexIsValid
<1> DEFINE yes == TRUE
           Both == FillInv(TwoKidsLoad) /\ RootInv
           Counts == CountInv(yes) /\ WaitInv
<1>1. yes \in BOOLEAN /\ yes
  OBVIOUS
<1> HIDE DEF yes
<1>2. Attained(TwoKidsLoad)
  BY TwoKidsAttained
<1>3. Init => BoxInv /\ Both /\ Counts
  <2> SUFFICES ASSUME Init PROVE BoxInv /\ Both /\ Counts
    OBVIOUS
  <2>1. nodes[m_rootID].level = 0
    BY DEF Init, Node
  <2>2. RootInv
    BY <2>1 DEF RootInv
  <2>3. FillInv(TwoKidsLoad)
    BY FillAtFirst
  <2>4. QED
    BY <1>1, <2>2, <2>3, BoxesAtFirst, CountsAtFirst
<1>4. CallInv /\ BoxInv /\ Both /\ Counts /\ [Next]_vars => (BoxInv /\ Both /\ Counts)'
  <2> SUFFICES ASSUME CallInv, BoxInv, Both, Counts, [Next]_vars PROVE (BoxInv /\ Both /\ Counts)'
    OBVIOUS
  <2>1. TreeInv /\ ClientOK /\ WayInv
    BY DEF CallInv
  <2>2. BoxInv'
    BY <2>1, BoxStep
  <2>3. FillInv(TwoKidsLoad)'
    BY <1>2, <2>1, FillStep
  <2>4. RootInv' /\ (CollapseRoot => LostSibling(work[1]))
    BY <2>1, RootStep
  <2>5. CountInv(yes)' /\ WaitInv'
    BY <1>1, <2>4, CountStep
  <2>6. QED
    BY <2>2, <2>3, <2>4, <2>5
<1>5. CallInv /\ BoxInv /\ Counts => IndexIsValid
  BY <1>1, ValidWhenIdle DEF CallInv, IndexIsValid, Idle
<1> HIDE DEF Both, Counts
<1>6. QED
  BY <1>3, <1>4, <1>5, CallsKeepCount, PTL DEF Spec

==============================================================================
