------------------------------- MODULE Region -------------------------------
(***************************************************************************)
(* Axis-parallel regions, the MBRs of an R-tree.  Coordinates are integers *)
(* here, on which the code's double arithmetic is exact as long as they    *)
(* stay small; Infinity stands for the largest double.                     *)
(***************************************************************************)
EXTENDS Integers
LOCAL INSTANCE FiniteSetsExt
Maps == INSTANCE Functions

CONSTANTS
  Dimension,  \* m_dimension
  Infinity    \* std::numeric_limits<double>::max()

ASSUME RegionAssumption ==
  /\ Dimension \in Nat \ {0}
  /\ Infinity \in Nat \ {0}

Dim == 1 .. Dimension

Sum(f)     == Maps!FoldFunction(LAMBDA x, y : x + y, 0, f)
Product(f) == Maps!FoldFunction(LAMBDA x, y : x * y, 1, f)

\* makeInfinite: the region that leaves every region it is combined with alone.
InfiniteRegion == [low |-> [d \in Dim |-> Infinity], high |-> [d \in Dim |-> -Infinity]]

\* Mutant of ContainsRegion: a shared side does not count.
StrictlyContainsRegion(r, s) ==
  \A d \in Dim : r.low[d] < s.low[d] /\ s.high[d] < r.high[d]

ContainsRegion(r, s) ==
  \A d \in Dim : r.low[d] <= s.low[d] /\ s.high[d] <= r.high[d]

IntersectsRegion(r, s) ==
  \A d \in Dim : r.low[d] <= s.high[d] /\ s.low[d] <= r.high[d]

\* Do the two share a side of the axis they lie on, whatever the other axes say?
TouchesRegion(r, s) ==
  \E d \in Dim : r.low[d] = s.low[d] \/ r.high[d] = s.high[d]

\* The region that the loops over a node's entries compute: of no entry at
\* all, it is the infinite region.
BoundingBox(regions) ==
  [low  |-> [d \in Dim |-> Min({r.low[d] : r \in regions} \cup {Infinity})],
   high |-> [d \in Dim |-> Max({r.high[d] : r \in regions} \cup {-Infinity})]]

CombinedRegion(r, s) == BoundingBox({r, s})

Width(r, d) == r.high[d] - r.low[d]

Area(r) == Product([d \in Dim |-> Width(r, d)])

Margin(r) == 2 ^ (Dimension - 1) * Sum([d \in Dim |-> Width(r, d)])

IntersectingArea(r, s) ==
  IF ~IntersectsRegion(r, s)
    THEN 0
    ELSE Product([d \in Dim |-> Min({r.high[d], s.high[d]}) - Max({r.low[d], s.low[d]})])

\* Regions that do not intersect have the region in common that is nowhere.
IntersectingRegion(r, s) ==
  IF IntersectsRegion(r, s)
    THEN [low  |-> [d \in Dim |-> Max({r.low[d], s.low[d]})],
          high |-> [d \in Dim |-> Min({r.high[d], s.high[d]})]]
    ELSE InfiniteRegion

\* The squared distance of two regions, or of a region and a point.
MinimumDistance(r, s) ==
  LET gap(d) == Max({0, r.low[d] - s.high[d], s.low[d] - r.high[d]})
  IN  Sum([d \in Dim |-> gap(d) * gap(d)])

Enlargement(r, s) == Area(CombinedRegion(r, s)) - Area(r)

\* Four times the squared distance of the centers: centers are halves.
CenterDistance(r, s) ==
  Sum([d \in Dim |-> ((r.low[d] + r.high[d]) - (s.low[d] + s.high[d])) ^ 2])

=============================================================================
