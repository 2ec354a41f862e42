------------------------------ MODULE RTreeNode ------------------------------
(***************************************************************************)
(* The pure part of rtree/Node.cc and rtree/Index.cc: how a child is       *)
(* chosen for a new entry, how the entries of a full node are distributed  *)
(* over two, and which of them are taken out for reinsertion.  An entry is *)
(* a record [id, mbr]; what a leaf entry carries besides is left out.      *)
(*                                                                         *)
(* qsort leaves the order of equal elements open, so an operator that      *)
(* sorts returns the set of all the results it may lead to.                *)
(***************************************************************************)
EXTENDS FiniteSets, Sequences, Region

CONSTANTS
  Variant,                   \* m_treeVariant
  IndexCapacity,             \* m_indexCapacity
  LeafCapacity,              \* m_leafCapacity
  FillFactor,                \* m_fillFactor, as a fraction <<numerator, denominator>>
  SplitDistributionFactor,   \* m_splitDistributionFactor, a fraction
  ReinsertFactor,            \* m_reinsertFactor, a fraction
  NearMinimumOverlapFactor   \* m_nearMinimumOverlapFactor

Floor(n, fraction) == (n * fraction[1]) \div fraction[2]

ProperFraction(f) == f[1] \in Nat \ {0} /\ f[2] \in Nat /\ f[1] < f[2]

\* What initNew accepts (with a fill factor given to the linear and quadratic
\* variants, which must not exceed a half), and a split distribution that
\* leaves rstarSplit at least one entry for the second group.
ASSUME RTreeNodeAssumption ==
  /\ Variant \in {"linear", "quadratic", "rstar"}
  /\ IndexCapacity \in Nat /\ IndexCapacity >= 4
  /\ LeafCapacity \in Nat /\ LeafCapacity >= 4
  /\ ProperFraction(FillFactor)
  /\ Variant # "rstar" => 2 * FillFactor[1] <= FillFactor[2]
  /\ ProperFraction(SplitDistributionFactor)
  /\ ProperFraction(ReinsertFactor)
  /\ NearMinimumOverlapFactor \in 1 .. IndexCapacity
  /\ Variant = "rstar" =>
       \A capacity \in {IndexCapacity, LeafCapacity} :
         LET spf == Floor(capacity + 1, SplitDistributionFactor)
         IN  2 <= spf /\ 2 * spf <= capacity + 2

Capacity(level) == IF level = 0 THEN LeafCapacity ELSE IndexCapacity

MinimumLoad(level) == Floor(Capacity(level), FillFactor)

MBRs(kids)     == {kids[k].mbr : k \in DOMAIN kids}
NodeBox(kids)  == BoundingBox(MBRs(kids))
Pick(kids, is) == [k \in DOMAIN is |-> kids[is[k]]]

\* A loop that keeps the first of the best, by several numbers of which the
\* later ones, the position last, decide between equals: what it may end with,
\* which is nothing if there was nothing to choose from.
Before(s, t) == \E i \in DOMAIN s : s[i] < t[i] /\ \A j \in 1 .. i - 1 : s[j] = t[j]

Best(key) == {x \in DOMAIN key : \A y \in DOMAIN key \ {x} : Before(key[x], key[y])}

\* The positions of a sequence of numbers, one of the least that are left
\* after the other.
SortedOrders(key) ==
  LET left(o)  == DOMAIN key \ {o[k] : k \in DOMAIN o}
      least(o) == {i \in left(o) : \A j \in left(o) : key[i] <= key[j]}
      orders[n \in 0 .. Len(key)] ==
        IF n = 0 THEN {<<>>} ELSE UNION {{Append(o, i) : i \in least(o)} : o \in orders[n - 1]}
  IN  orders[Len(key)]

------------------------------------------------------------------------------
(***************************************************************************)
(* Index::findLeastEnlargement and Index::findLeastOverlap: the positions  *)
(* of the children that may be chosen for a region r.                      *)
(***************************************************************************)
FindLeastEnlargement(kids, r) ==
  Best([c \in DOMAIN kids |-> <<Enlargement(kids[c].mbr, r), Area(kids[c].mbr), c>>])

\* By how much the overlap of child c with its siblings grows.
OverlapGrowth(kids, c, r) ==
  Sum([s \in DOMAIN kids \ {c} |->
         IntersectingArea(CombinedRegion(kids[c].mbr, r), kids[s].mbr)
           - IntersectingArea(kids[c].mbr, kids[s].mbr)])

\* The orders in which the children are examined.
NearMinimumOrders(kids, r) ==
  IF Len(kids) > NearMinimumOverlapFactor
    THEN SortedOrders([c \in DOMAIN kids |-> Enlargement(kids[c].mbr, r)])
    ELSE {[c \in DOMAIN kids |-> c]}

LeastOverlapIn(kids, r, order) ==
  LET examined == {k \in DOMAIN kids : k <= NearMinimumOverlapFactor}
      least == Best([k \in examined |->
                       <<OverlapGrowth(kids, order[k], r),
                         Enlargement(kids[order[k]].mbr, r), Area(kids[order[k]].mbr), k>>])
  IN  {order[k] : k \in least}

FindLeastOverlap(kids, r) ==
  LET least == FindLeastEnlargement(kids, r)
  IN  IF \E c \in least : Enlargement(kids[c].mbr, r) = 0
        THEN least
        ELSE UNION {LeastOverlapIn(kids, r, order) : order \in NearMinimumOrders(kids, r)}

\* The choice of Index::chooseSubtree at a node of the given level.
ChosenChildren(level, kids, r) ==
  IF Variant = "rstar" /\ level = 1
    THEN FindLeastOverlap(kids, r)
    ELSE FindLeastEnlargement(kids, r)

------------------------------------------------------------------------------
(***************************************************************************)
(* Node::pickSeeds, for the linear and for the quadratic variant: the      *)
(* pairs of positions it may end with.                                     *)
(***************************************************************************)
LinearSeeds(kids) ==
  LET low(c, d)  == kids[c].mbr.low[d]
      high(c, d) == kids[c].mbr.high[d]
      leastUpper(d)    == Best([c \in DOMAIN kids |-> <<high(c, d), c>>])
      greatestLower(d) == Best([c \in DOMAIN kids |-> <<-low(c, d), c>>])
      candidates == UNION {{d} \X leastUpper(d) \X greatestLower(d) : d \in Dim}
      gap(p)   == low(p[3], p[1]) - high(p[2], p[1])
      width(p) == LET w == Width(NodeBox(kids), p[1]) IN IF w <= 0 THEN 1 ELSE w
      furthestApart == {p \in candidates : \A q \in candidates :
                          LET mine == gap(p) * width(q)  other == gap(q) * width(p)
                          IN  IF q[1] < p[1] THEN mine > other ELSE mine >= other}
      seeds(p) == IF p[2] # p[3] THEN <<p[2], p[3]>>
                                 ELSE <<p[2], IF p[3] = 1 THEN 2 ELSE p[3] - 1>>
  IN  {seeds(p) : p \in furthestApart}

\* The pair that wastes most area when put together.
QuadraticSeeds(kids) ==
  LET pairs == {p \in (DOMAIN kids) \X (DOMAIN kids) : p[1] < p[2]}
      inefficiency(p) == Area(CombinedRegion(kids[p[1]].mbr, kids[p[2]].mbr))
                           - Area(kids[p[1]].mbr) - Area(kids[p[2]].mbr)
  IN  Best([p \in pairs |-> <<-inefficiency(p), p[1], p[2]>>])

PickSeeds(kids) == IF Variant = "quadratic" THEN QuadraticSeeds(kids) ELSE LinearSeeds(kids)

(***************************************************************************)
(* Node::rtreeSplit: the entries that are left (the mask) join one of the  *)
(* two groups, one by one.  Once a group needs all of them to reach        *)
(* minimumLoad it goes on to do so at every step, and gets them in order.  *)
(***************************************************************************)
Grouping == [g1 : Seq(Nat), g2 : Seq(Nat), rest : SUBSET Nat]

Needs(g, minimumLoad, rest) == minimumLoad - Len(g) = Cardinality(rest)

\* The positions of rest of which one is assigned next.
Candidates(kids, minimumLoad, s) ==
  LET cost(g, i) == Enlargement(NodeBox(Pick(kids, g)), kids[i].mbr)
      magnitude(x) == IF x < 0 THEN -x ELSE x
      inOrder == Needs(s.g1, minimumLoad, s.rest) \/ Needs(s.g2, minimumLoad, s.rest)
  IN  IF Variant = "quadratic" /\ ~inOrder
        THEN Best([i \in s.rest |-> <<-magnitude(cost(s.g1, i) - cost(s.g2, i)), i>>])
        ELSE {i \in s.rest : \A j \in s.rest : i <= j}

JoinsSecond(kids, minimumLoad, s, i) ==
  LET box(g)  == NodeBox(Pick(kids, g))
      cost(g) == <<Enlargement(box(g), kids[i].mbr), Area(box(g)), Len(g)>>
  IN  /\ ~Needs(s.g1, minimumLoad, s.rest)
      /\ Needs(s.g2, minimumLoad, s.rest) \/ Before(cost(s.g2), cost(s.g1))

AssignNext(kids, minimumLoad, s) ==
  {IF JoinsSecond(kids, minimumLoad, s, i)
     THEN [s EXCEPT !.g2 = Append(@, i), !.rest = @ \ {i}]
     ELSE [s EXCEPT !.g1 = Append(@, i), !.rest = @ \ {i}] : i \in Candidates(kids, minimumLoad, s)}

RtreeSplits(kids, minimumLoad) ==
  LET starts == {[g1 |-> <<seeds[1]>>, g2 |-> <<seeds[2]>>,
                  rest |-> DOMAIN kids \ {seeds[1], seeds[2]}] : seeds \in PickSeeds(kids)}
      groupings[k \in 0 .. Len(kids) - 2] ==
        IF k = 0 THEN starts
                 ELSE UNION {AssignNext(kids, minimumLoad, s) : s \in groupings[k - 1]}
  IN  {<<Pick(kids, s.g1), Pick(kids, s.g2)>> : s \in groupings[Len(kids) - 2]}

------------------------------------------------------------------------------
(***************************************************************************)
(* Node::rstarSplit.  A distribution puts the first l entries of an order  *)
(* in the first group; splitDistribution of them are examined, from        *)
(* nodeSPF entries on.                                                     *)
(***************************************************************************)
Cuts(kids) ==
  LET nodeSPF == Floor(Len(kids), SplitDistributionFactor)
      splitDistribution == Len(kids) - 2 * nodeSPF + 2
  IN  nodeSPF .. nodeSPF - 1 + splitDistribution

FirstGroup(kids, order, l)  == [k \in 1 .. l |-> kids[order[k]]]
SecondGroup(kids, order, l) == [k \in 1 .. Len(kids) - l |-> kids[order[l + k]]]

MarginSum(kids, order) ==
  Sum([l \in Cuts(kids) |-> Margin(NodeBox(FirstGroup(kids, order, l)))
                              + Margin(NodeBox(SecondGroup(kids, order, l)))])

LowOrders(kids, d)  == SortedOrders([k \in DOMAIN kids |-> kids[k].mbr.low[d]])
HighOrders(kids, d) == SortedOrders([k \in DOMAIN kids |-> kids[k].mbr.high[d]])

\* The margin sums that the orders by each dimension may lead to.
MarginsByDimension(kids, orders) ==
  {m \in [Dim -> {MarginSum(kids, o) : o \in UNION {orders[d] : d \in Dim}}] :
     \A d \in Dim : \E o \in orders[d] : m[d] = MarginSum(kids, o)}

\* The orders of the first axis of least margin, by the side that has it.
SplitOrders(kids, marginl, marginh) ==
  LET least(d) == IF marginl[d] < marginh[d] THEN marginl[d] ELSE marginh[d]
  IN  UNION {IF marginl[axis] < marginh[axis] THEN LowOrders(kids, axis)
                                              ELSE HighOrders(kids, axis) :
               axis \in Best([d \in Dim |-> <<least(d), d>>])}

SplitAt(kids, order) ==
  LET box1(l) == NodeBox(FirstGroup(kids, order, l))
      box2(l) == NodeBox(SecondGroup(kids, order, l))
      best == Best([l \in Cuts(kids) |-> <<IntersectingArea(box1(l), box2(l)),
                                           Area(box1(l)) + Area(box2(l)), l>>])
  IN  {<<FirstGroup(kids, order, l1), SecondGroup(kids, order, l1)>> : l1 \in best}

RstarSplits(kids) ==
  LET margins == MarginsByDimension(kids, [d \in Dim |-> LowOrders(kids, d)])
                   \X MarginsByDimension(kids, [d \in Dim |-> HighOrders(kids, d)])
      orders  == UNION {SplitOrders(kids, m[1], m[2]) : m \in margins}
  IN  UNION {SplitAt(kids, order) : order \in orders}

\* Index::split and Leaf::split: the pairs of entry lists that a node's
\* entries, the new one last, may be distributed into.
Splits(level, kids) ==
  IF Variant = "rstar" THEN RstarSplits(kids) ELSE RtreeSplits(kids, MinimumLoad(level))

------------------------------------------------------------------------------
(***************************************************************************)
(* Node::reinsertData: the entries by distance from the center of the      *)
(* node, which keeps the nearest.  The pairs <<keep, reinsert>>.           *)
(***************************************************************************)
Reinsertions(kids, mbr) ==
  LET cReinsert == Floor(Len(kids), ReinsertFactor)
      cKeep     == Len(kids) - cReinsert
  IN  {<<FirstGroup(kids, order, cKeep), SecondGroup(kids, order, cKeep)>> :
         order \in SortedOrders([k \in DOMAIN kids |-> CenterDistance(mbr, kids[k].mbr)])}

==============================================================================
