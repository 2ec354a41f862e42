---------------------------- MODULE TPRTreeNode ----------------------------
(***************************************************************************)
(* The pure part of tprtree/Node.cc and tprtree/Index.cc: the box of a     *)
(* node at the tree's current time, how a child is chosen for a new entry, *)
(* and how the entries of a full node are distributed over two.  An entry  *)
(* is a record [id, mbr], mbr a moving region.                             *)
(*                                                                         *)
(* qsort is the C library's: as glibc's merge sort does, it leaves equal   *)
(* elements in the order it finds them in.                                 *)
(***************************************************************************)
EXTENDS MovingRegion
LOCAL INSTANCE TLC
LOCAL INSTANCE FiniteSets
LOCAL INSTANCE FiniteSetsExt
LOCAL INSTANCE Functions
LOCAL INSTANCE SequencesExt

CONSTANTS
  IndexCapacity,             \* m_indexCapacity
  LeafCapacity,              \* m_leafCapacity
  FillFactor,                \* m_fillFactor, as a fraction <<numerator, denominator>>
  SplitDistributionFactor,   \* m_splitDistributionFactor, a fraction
  NearMinimumOverlapFactor,  \* m_nearMinimumOverlapFactor
  Horizon                    \* m_horizon

Floor(n, fraction) == (n * fraction[1]) \div fraction[2]

Capacity(level) == IF level = 0 THEN LeafCapacity ELSE IndexCapacity

MinimumLoad(level) == Floor(Capacity(level), FillFactor)

\* What initNew accepts, and a split distribution that leaves rstarSplit at
\* least one entry for the second group.
ASSUME TPRTreeNodeAssumption ==
  /\ IndexCapacity \in Nat /\ IndexCapacity >= 4
  /\ LeafCapacity \in Nat /\ LeafCapacity >= 4
  /\ FillFactor[1] < FillFactor[2]
  /\ NearMinimumOverlapFactor \in 1 .. IndexCapacity
  /\ Horizon \in Nat \ {0}
  /\ \A level \in {0, 1} :
       LET spf == Floor(Capacity(level) + 1, SplitDistributionFactor)
       IN  1 <= spf /\ 2 * spf <= Capacity(level) + 2

MBRs(kids) == {kids[k].mbr : k \in DOMAIN kids}

\* A node's region recomputed from its entries at the current time.
NodeBox(kids, now) == IF kids = <<>> THEN InfiniteMovingRegion ELSE MovingBox(MBRs(kids), now)

\* The rest of insertEntry's: a box that starts now grows by one more region.
Widened(box, now, r) ==
  IF ContainsRegionAfterTime(box, now, r)
    THEN box
    ELSE [MovingBox({box, r}, now) EXCEPT !.end = box.end]

\* ivT: from the current time to the horizon.
Ahead(now) == <<Moment(now), Moment(now + Horizon)>>

\* qsort of the positions in an order.
Sorted(order, Smaller(_, _)) ==
  LET at == SortSeq([k \in DOMAIN order |-> k],
                    LAMBDA i, j : \/ Smaller(order[i], order[j])
                                  \/ ~Smaller(order[j], order[i]) /\ i < j)
  IN  [k \in DOMAIN order |-> order[at[k]]]

\* A comparison of several numbers, the later ones deciding between equals,
\* and a loop that keeps the first of the best.
Before(s, t) == \E i \in DOMAIN s : s[i] < t[i] /\ \A j \in 1 .. i - 1 : s[j] = t[j]

Least(keys) == CHOOSE s \in keys : \A t \in keys \ {s} : Before(s, t)

------------------------------------------------------------------------------
(***************************************************************************)
(* Index::findLeastEnlargement and Index::findLeastOverlap: the position   *)
(* of the child chosen for a region r.                                     *)
(***************************************************************************)
AreaAhead(r, now) == AreaInTime(r, Ahead(now))

\* Every child as it is and combined with r, and what that costs.
Grown(kids, now, r) ==
  {[at |-> c, before |-> kids[c].mbr, after |-> CombinedRegionAfterTime(kids[c].mbr, now, r)] :
     c \in DOMAIN kids}

Costs(kids, now, r) ==
  {[at |-> x.at, before |-> x.before, after |-> x.after, area |-> AreaAhead(x.before, now),
    enlargement |-> AreaAhead(x.after, now) - AreaAhead(x.before, now)] : x \in Grown(kids, now, r)}

LeastEnlarged(costs) == Least({<<x.enlargement, x.area, x.at>> : x \in costs})

FindLeastEnlargement(kids, now, r) == LeastEnlarged(Costs(kids, now, r))[3]

\* By how much the overlap of child x.at with its siblings grows; a sibling that
\* the combined region does not overlap is left out.
OverlapGrowth(kids, x, now) ==
  LET overlap(y, s) == IntersectingAreaInTime(y, Ahead(now), kids[s].mbr)
  IN  MapThenSumSet(LAMBDA s : IF overlap(x.after, s) = 0 THEN 0
                                 ELSE overlap(x.after, s) - overlap(x.before, s),
                    DOMAIN kids \ {x.at})

\* The costs in the order they are looked at: by enlargement, if there are too
\* many to look at all.
Examined(costs) ==
  LET inOrder == SetToSortSeq(costs, LAMBDA x, y : x.at < y.at)
  IN  IF Cardinality(costs) > NearMinimumOverlapFactor
        THEN SubSeq(Sorted(inOrder, LAMBDA x, y : x.enlargement < y.enlargement),
                    1, NearMinimumOverlapFactor)
        ELSE inOrder

LeastOverlapping(kids, examined, now) ==
  Least({<<OverlapGrowth(kids, examined[k], now), examined[k].enlargement, examined[k].area, k,
           examined[k].at>> : k \in DOMAIN examined})

FindLeastOverlap(kids, now, r) ==
  LET costs == Costs(kids, now, r)
      least == LeastEnlarged(costs)
  IN  IF least[1] = 0 THEN least[3] ELSE LeastOverlapping(kids, Examined(costs), now)[5]

\* The choice of Index::chooseSubtree at a node of the given level.
ChosenChild(level, kids, now, r) ==
  IF level = 1 THEN FindLeastOverlap(kids, now, r) ELSE FindLeastEnlargement(kids, now, r)

------------------------------------------------------------------------------
(***************************************************************************)
(* Node::rstarSplit.  The entries are sorted by each of the four bounds in *)
(* each dimension; a distribution puts the first l of an order in the      *)
(* first group.                                                            *)
(***************************************************************************)
Bound == {"low", "high", "vlow", "vhigh"}

SortedBy(kids, order, bound, d) ==
  Sorted(order, LAMBDA i, j : kids[i].mbr[bound][d] < kids[j].mbr[bound][d])

\* The order of a bound's array after it was sorted by each dimension up to d.
Order(kids, bound, d) ==
  LET after[k \in 0 .. d] == IF k = 0 THEN [i \in DOMAIN kids |-> i]
                                      ELSE SortedBy(kids, after[k - 1], bound, k)
  IN  after[d]

Cuts(kids) ==
  LET nodeSPF == Floor(Len(kids), SplitDistributionFactor)
      splitDistribution == Len(kids) - 2 * nodeSPF + 2
  IN  nodeSPF .. nodeSPF - 1 + splitDistribution

\* The positions that an order puts in the first and in the second group.
Group(order, l, first) ==
  {order[k] : k \in {k \in DOMAIN order : first <=> k <= l}}

\* The box of some of the entries; a single one keeps its own start.
GroupBox(kids, now, S) ==
  IF Cardinality(S) = 1
    THEN kids[CHOOSE k \in S : TRUE].mbr
    ELSE MovingBox({kids[k].mbr : k \in S}, now)

Margin(kids, now, order) ==
  MapThenSumSet(LAMBDA g : ProjectedSurfaceAreaInTime(g.box, Ahead(now)),
    {[cut |-> l, first |-> first, box |-> GroupBox(kids, now, Group(order, l, first))] :
       l \in Cuts(kids), first \in BOOLEAN})

Margins(kids, now) ==
  {[axis |-> d, order |-> b, margin |-> Margin(kids, now, Order(kids, b, d))] : d \in Dim, b \in Bound}

\* The axis goes to a dimension with less margin than the ones before.  By
\* which bound to sort is noted, each time, only if one bound alone has least.
SplitAxis(margins) ==
  LET least(d) == {m \in margins : m.axis = d /\ \A o \in margins : o.axis = d => m.margin <= o.margin}
      better == {d \in Dim : \A m \in least(d), o \in margins : o.axis < d => m.margin < o.margin}
      noted == {d \in better : Cardinality(least(d)) = 1}
  IN  [axis |-> Max(better),
       order |-> IF noted = {} THEN "none" ELSE (CHOOSE m \in least(Max(noted)) : TRUE).order]

\* dataLow, sorted by the low sides in the last dimension, is sorted again if
\* a bound was noted.
SplitOrder(kids, now) ==
  LET dataLow == Order(kids, "low", Dimension)
      best == SplitAxis(Margins(kids, now))
  IN  IF best.order = "none" THEN dataLow ELSE SortedBy(kids, dataLow, best.order, best.axis)

\* The size of the first group: of least overlap, then of least area.
SplitPoint(kids, now, order) ==
  Least({<<IntersectingAreaInTime(g.box1, Ahead(now), g.box2),
           AreaAhead(g.box1, now) + AreaAhead(g.box2, now), g.cut>> :
         g \in {[cut |-> l, box1 |-> GroupBox(kids, now, Group(order, l, TRUE)),
                 box2 |-> GroupBox(kids, now, Group(order, l, FALSE))] : l \in Cuts(kids)}})[3]

SplitAt(kids, now, order) ==
  LET l1 == SplitPoint(kids, now, order)
  IN  <<[k \in 1 .. l1 |-> kids[order[k]]],
        [k \in 1 .. Len(kids) - l1 |-> kids[order[l1 + k]]]>>

\* Index::split and Leaf::split: the two lists that a node's entries, the new
\* one last, are distributed into.
Split(kids, now) == SplitAt(kids, now, SplitOrder(kids, now))

=============================================================================
