---------------------------- MODULE MovingRegion ----------------------------
(***************************************************************************)
(* Regions whose sides move at constant speed from a start to an end time: *)
(* what the TPR-tree asks of spatialindex/MovingRegion.cc.  Coordinates,   *)
(* velocities, starts and ends are integers.  Moments in between are       *)
(* counted in fractions of a unit of time, Scale to the unit: enough of    *)
(* them for every two sides to meet at such a moment.  Lengths at a moment *)
(* are scaled alike, and areas over time by a fixed factor.  The few units *)
(* of rounding by which the code widens boxes are left out.                *)
(*                                                                         *)
(* As the code asks for, no region shrinks.                                *)
(***************************************************************************)
EXTENDS Integers, Sequences
LOCAL INSTANCE FiniteSets
LOCAL INSTANCE FiniteSetsExt
LOCAL INSTANCE Functions
LOCAL INSTANCE SequencesExt

CONSTANTS
  Dimension,  \* m_dimension
  Forever,    \* std::numeric_limits<double>::max()
  Scale       \* moments to a unit of time: every difference of speeds divides it

ASSUME MovingRegionAssumption ==
  /\ Dimension \in 1 .. 2
  /\ Forever \in Nat \ {0}
  /\ Scale \in Nat \ {0}

Dim == 1 .. Dimension

Moment(time) == Scale * time

Later(t, u)   == IF t < u THEN u ELSE t
Earlier(t, u) == IF u < t THEN u ELSE t

\* makeInfinite: the region a node without entries has.
InfiniteMovingRegion ==
  [low  |-> [d \in Dim |-> Forever], high  |-> [d \in Dim |-> -Forever],
   vlow |-> [d \in Dim |-> Forever], vhigh |-> [d \in Dim |-> -Forever],
   start |-> -Forever, end |-> Forever]

\* getExtrapolatedLow and getExtrapolatedHigh at a moment.
LowAt(r, d, t)  == Scale * r.low[d] + r.vlow[d] * (t - Moment(r.start))
HighAt(r, d, t) == Scale * r.high[d] + r.vhigh[d] * (t - Moment(r.start))

\* getLow and getHigh: the region stands still outside its lifetime.
Clamped(r, t)    == Later(Moment(r.start), Earlier(Moment(r.end), t))
GetLow(r, d, t)  == LowAt(r, d, Clamped(r, t))
GetHigh(r, d, t) == HighAt(r, d, Clamped(r, t))

\* When sides that are at x and y at moment 0, with velocities vx and vy, meet.
Meet(x, y, vx, vy) == IF vy > vx THEN (x - y) \div (vy - vx) ELSE (y - x) \div (vx - vy)
LowsMeet(r, s, d)  == Meet(LowAt(r, d, 0), LowAt(s, d, 0), r.vlow[d], s.vlow[d])
HighsMeet(r, s, d) == Meet(HighAt(r, d, 0), HighAt(s, d, 0), r.vhigh[d], s.vhigh[d])
HighMeetsLow(r, s, d) == Meet(HighAt(r, d, 0), LowAt(s, d, 0), r.vhigh[d], s.vlow[d])

------------------------------------------------------------------------------
(***************************************************************************)
(* At one moment: containsRegionAtTime and intersectsRegionAtTime.         *)
(***************************************************************************)
Alive(r, t) == Moment(r.start) <= t /\ t < Moment(r.end)

ContainsRegionAtTime(r, t, s) ==
  /\ Alive(r, t) /\ Alive(s, t)
  /\ \A d \in Dim : LowAt(r, d, t) <= LowAt(s, d, t) /\ HighAt(s, d, t) <= HighAt(r, d, t)

IntersectsRegionAtTime(r, t, s) ==
  /\ Alive(r, t) /\ Alive(s, t)
  /\ \A d \in Dim : LowAt(r, d, t) <= HighAt(s, d, t) /\ LowAt(s, d, t) <= HighAt(r, d, t)

------------------------------------------------------------------------------
(***************************************************************************)
(* Over a period, a pair of moments: containsRegionInTime and              *)
(* intersectsRegionInTime.                                                 *)
(***************************************************************************)
Lifetime(r) == <<Moment(r.start), Moment(r.end)>>

ContainsRegionInTime(r, period, s) ==
  LET tmin == Later(period[1], Moment(s.start))
      tmax == Earlier(period[2], Moment(s.end))
      escapes(x, faster) == (tmin < x /\ x < tmax) \/ (x = tmin /\ faster)
  IN  /\ tmin < tmax
      /\ Moment(r.start) <= tmin
      /\ tmax <= Moment(r.end)
      /\ \A d \in Dim :
           /\ HighAt(s, d, tmin) <= HighAt(r, d, tmin)
           /\ LowAt(r, d, tmin) <= LowAt(s, d, tmin)
           /\ s.vhigh[d] # r.vhigh[d] => ~escapes(HighsMeet(r, s, d), s.vhigh[d] > r.vhigh[d])
           /\ s.vlow[d] # r.vlow[d] => ~escapes(LowsMeet(r, s, d), s.vlow[d] < r.vlow[d])

ContainsRegionAfterTime(r, time, s) ==
  ContainsRegionInTime(r, <<Moment(time), Moment(s.end)>>, s)

Above(r, s, d, t) == HighAt(r, d, t) < LowAt(s, d, t)
Below(r, s, d, t) == HighAt(s, d, t) < LowAt(r, d, t)

\* s is on one side of r in dimension d from tmin on, and at tmax at most touches.
Apart(r, s, d, tmin, tmax) ==
  \/ Above(r, s, d, tmin) /\ HighAt(r, d, tmax) <= LowAt(s, d, tmax)
  \/ Below(r, s, d, tmin) /\ HighAt(s, d, tmax) <= LowAt(r, d, tmax)

\* When s enters or leaves r in dimension d, if it is outside at t.
Narrowed(r, s, d, t) ==
  IF Above(r, s, d, t) THEN HighMeetsLow(r, s, d)
  ELSE IF Below(r, s, d, t) THEN HighMeetsLow(s, r, d)
  ELSE t

\* Mutant of IntersectsRegionInTime: each dimension on its own.
IntersectsInEachDimension(r, period, s) ==
  {iv \in {<<Later(period[1], Later(Moment(r.start), Moment(s.start))),
             Earlier(period[2], Earlier(Moment(r.end), Moment(s.end)))>>} :
     iv[1] < iv[2] /\ \A d \in Dim : ~Apart(r, s, d, iv[1], iv[2])}

\* The part of the period in which the two intersect, if there is one.
IntersectsRegionInTime(r, period, s) ==
  LET both == <<Later(period[1], Later(Moment(r.start), Moment(s.start))),
                Earlier(period[2], Earlier(Moment(r.end), Moment(s.end)))>>
      narrow(ivs, d) == {<<Narrowed(r, s, d, iv[1]), Narrowed(r, s, d, iv[2])>> :
                           iv \in {iv \in ivs : ~Apart(r, s, d, iv[1], iv[2])}}
  IN  IF ContainsRegionInTime(r, period, s) \/ ContainsRegionInTime(s, period, r)
        THEN {period}
        ELSE FoldLeft(narrow, {iv \in {both} : iv[1] < iv[2]}, [d \in Dim |-> d])

------------------------------------------------------------------------------
(***************************************************************************)
(* combineRegionAfterTime.                                                 *)
(***************************************************************************)
\* The box at a time of regions that started at or before it.
LowNow(r, d, time)  == r.low[d] + r.vlow[d] * (time - r.start)
HighNow(r, d, time) == r.high[d] + r.vhigh[d] * (time - r.start)

MovingBox(rs, time) ==
  [low   |-> [d \in Dim |-> Min({LowNow(r, d, time) : r \in rs})],
   high  |-> [d \in Dim |-> Max({HighNow(r, d, time) : r \in rs})],
   vlow  |-> [d \in Dim |-> Min({r.vlow[d] : r \in rs})],
   vhigh |-> [d \in Dim |-> Max({r.vhigh[d] : r \in rs})],
   start |-> time, end |-> Max({r.end : r \in rs})]

CombinedRegionAfterTime(r, time, s) ==
  LET box == MovingBox({r, s}, time)
  IN  IF time >= box.end THEN [box EXCEPT !.end = Forever] ELSE box

\* What the tree must keep a box, for everything below it: at a time it
\* contains it, and its sides are no slower outwards.
Bounds(r, s, time) ==
  \A d \in Dim :
    /\ LowNow(r, d, time) <= LowNow(s, d, time)
    /\ HighNow(s, d, time) <= HighNow(r, d, time)
    /\ r.vlow[d] <= s.vlow[d]
    /\ s.vhigh[d] <= r.vhigh[d]

------------------------------------------------------------------------------
(***************************************************************************)
(* getAreaInTime and getProjectedSurfaceAreaInTime: integrals over time of *)
(* a width, or of the product of two, times six (and the powers of Scale). *)
(***************************************************************************)
\* Of a width x that grows by v, and of two, over dt moments.
IntegralOfOne(x, v, dt) == 6 * x * dt + 3 * v * dt * dt

IntegralOfTwo(x, v, y, w, dt) ==
  6 * x * y * dt + 3 * (x * w + y * v) * dt * dt + 2 * v * w * dt * dt * dt

Width(r, d, t) == HighAt(r, d, t) - LowAt(r, d, t)
Growth(r, d)   == r.vhigh[d] - r.vlow[d]

\* The part of a period that a region lives in.
WithinLife(r, period) ==
  <<Later(period[1], Moment(r.start)), Earlier(period[2], Moment(r.end))>>

AreaInTime(r, period) ==
  LET iv == WithinLife(r, period)
      dt == iv[2] - iv[1]
  IN  IF dt <= 0 THEN 0
      ELSE IF Dimension = 1
        THEN IntegralOfOne(Width(r, 1, iv[1]), Growth(r, 1), dt)
        ELSE IntegralOfTwo(Width(r, 1, iv[1]), Growth(r, 1), Width(r, 2, iv[1]), Growth(r, 2), dt)

ProjectedSurfaceAreaInTime(r, period) ==
  LET iv == WithinLife(r, period)
      dt == iv[2] - iv[1]
  IN  IF dt <= 0 \/ Dimension = 1 THEN 0
      ELSE MapThenSumSet(LAMBDA d : IntegralOfOne(Width(r, d, iv[1]), Growth(r, d), dt), Dim)

(***************************************************************************)
(* getIntersectingAreaInTime.  The intersection begins with the inner of   *)
(* the two sides in every dimension, and takes the other region's side     *)
(* where the two cross; its area is summed piece by piece.  The region     *)
(* keeps the start time of r also for the sides that come from s.          *)
(***************************************************************************)
\* Which of the two has the inner side at a moment.
LowSide(r, s, d, t)  == IF GetLow(s, d, t) < GetLow(r, d, t) THEN r ELSE s
HighSide(r, s, d, t) == IF GetHigh(r, d, t) < GetHigh(s, d, t) THEN r ELSE s

Other(r, s, x) == IF x = r THEN s ELSE r

\* Do the sides cross between tmin and tmax?
LowCrosses(r, s, d, tmin, tmax) ==
  LET x == LowSide(r, s, d, tmin) IN GetLow(x, d, tmax) < GetLow(Other(r, s, x), d, tmax)

HighCrosses(r, s, d, tmin, tmax) ==
  LET x == HighSide(r, s, d, tmin) IN GetHigh(Other(r, s, x), d, tmax) < GetHigh(x, d, tmax)

\* The intersection as it is from t on, a moment of the period iv.
Piece(r, s, iv, t) ==
  LET low == [d \in Dim |->
        LET x == LowSide(r, s, d, iv[1]) IN
          IF LowCrosses(r, s, d, iv[1], iv[2]) /\ LowsMeet(r, s, d) <= t THEN Other(r, s, x) ELSE x]
      high == [d \in Dim |->
        LET x == HighSide(r, s, d, iv[1]) IN
          IF HighCrosses(r, s, d, iv[1], iv[2]) /\ HighsMeet(r, s, d) <= t THEN Other(r, s, x) ELSE x]
  IN  [r EXCEPT !.low  = [d \in Dim |-> low[d].low[d]],   !.vlow  = [d \in Dim |-> low[d].vlow[d]],
                !.high = [d \in Dim |-> high[d].high[d]], !.vhigh = [d \in Dim |-> high[d].vhigh[d]]]

\* The period cut at the moments at which sides cross.
CrossPoints(r, s, iv) ==
  {LowsMeet(r, s, d) : d \in {d \in Dim : LowCrosses(r, s, d, iv[1], iv[2])}}
    \cup {HighsMeet(r, s, d) : d \in {d \in Dim : HighCrosses(r, s, d, iv[1], iv[2])}}

Cut(iv, points) ==
  LET ends == points \cup {iv[1], iv[2]}
  IN  {p \in ends \X ends : p[1] < p[2] /\ ~\E t \in ends : p[1] < t /\ t < p[2]}

\* What the intersection is made of during a period, with the period of each part.
Pieces(r, s, iv) ==
  IF ContainsRegionInTime(r, iv, s) THEN {[region |-> s, period |-> iv]}
  ELSE IF ContainsRegionInTime(s, iv, r) THEN {[region |-> r, period |-> iv]}
  ELSE {[region |-> Piece(r, s, iv, p[1]), period |-> p] : p \in Cut(iv, CrossPoints(r, s, iv))}

IntersectingAreaInTime(r, period, s) ==
  LET meetings == IntersectsRegionInTime(r, WithinLife(r, WithinLife(s, period)), s)
      pieces   == UNION {Pieces(r, s, iv) : iv \in {iv \in meetings : iv[1] < iv[2]}}
  IN  MapThenSumSet(LAMBDA x : AreaInTime(x.region, x.period), pieces)

=============================================================================
