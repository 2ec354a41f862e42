------------------------- MODULE MovingRegionProofs -------------------------
(***************************************************************************)
(* Proofs about MovingRegion: what makes the boxes of a TPR-tree right     *)
(* after they were written, for any coordinates, velocities and times.     *)
(***************************************************************************)
EXTENDS MovingRegion, TLAPS
LOCAL INSTANCE FiniteSetsExt

Motions == [low : [Dim -> Int], high : [Dim -> Int], vlow : [Dim -> Int], vhigh : [Dim -> Int],
            start : Int, end : Int]

------------------------------------------------------------------------------
(***************************************************************************)
(* Arithmetic, of which the solver needs to be told the products.          *)
(***************************************************************************)
LEMMA ProductKeepsOrder ==
  ASSUME NEW v \in Int, NEW w \in Int, v <= w, NEW dt \in Nat
  PROVE  v * dt <= w * dt
OBVIOUS

LEMMA Distributes ==
  ASSUME NEW v \in Int, NEW a \in Int, NEW b \in Int
  PROVE  v * (a + b) = v * a + v * b
OBVIOUS

\* A side later on: where it was, and the way it has gone.
LEMMA SidesMove ==
  ASSUME NEW r \in Motions, NEW d \in Dim, NEW time \in Int, NEW dt \in Int
  PROVE  /\ LowNow(r, d, time) \in Int /\ HighNow(r, d, time) \in Int
         /\ LowNow(r, d, time + dt) = LowNow(r, d, time) + r.vlow[d] * dt
         /\ HighNow(r, d, time + dt) = HighNow(r, d, time) + r.vhigh[d] * dt
<1>1. /\ r.low[d] \in Int /\ r.high[d] \in Int
      /\ r.vlow[d] \in Int /\ r.vhigh[d] \in Int /\ r.start \in Int
  BY DEF Motions
<1>2. PICK age \in Int : age = time - r.start /\ (time + dt) - r.start = age + dt
  BY <1>1
<1>3. /\ r.vlow[d] * (age + dt) = r.vlow[d] * age + r.vlow[d] * dt
      /\ r.vhigh[d] * (age + dt) = r.vhigh[d] * age + r.vhigh[d] * dt
  BY <1>1, Distributes
<1>4. r.vlow[d] * age \in Int /\ r.vhigh[d] * age \in Int
      /\ r.vlow[d] * dt \in Int /\ r.vhigh[d] * dt \in Int
  BY <1>1
<1>5. QED
  BY <1>1, <1>2, <1>3, <1>4 DEF LowNow, HighNow

------------------------------------------------------------------------------
(***************************************************************************)
(* A box that bounds a region at the time it is written bounds it at every *)
(* later time.  The tree never looks at a box again while time passes: it  *)
(* is this that BoxesBoundTheFuture of TPRTree relies on when it looks at  *)
(* the current time only.                                                  *)
(***************************************************************************)
THEOREM BoundsLast ==
  ASSUME NEW r \in Motions, NEW s \in Motions, NEW time \in Int, NEW later \in Int,
         time <= later, Bounds(r, s, time)
  PROVE  Bounds(r, s, later)
<1>1. PICK dt \in Nat : later = time + dt
  <2>1. later - time \in Nat /\ later = time + (later - time)
    OBVIOUS
  <2>2. QED
    BY <2>1
<1>a. dt \in Int
  OBVIOUS
<1>2. SUFFICES ASSUME NEW d \in Dim
               PROVE  /\ LowNow(r, d, time + dt) <= LowNow(s, d, time + dt)
                      /\ HighNow(s, d, time + dt) <= HighNow(r, d, time + dt)
  BY <1>1 DEF Bounds
<1>3. /\ r.vlow[d] \in Int /\ s.vlow[d] \in Int /\ r.vlow[d] <= s.vlow[d]
      /\ r.vhigh[d] \in Int /\ s.vhigh[d] \in Int /\ s.vhigh[d] <= r.vhigh[d]
  BY DEF Bounds, Motions
<1>4. r.vlow[d] * dt <= s.vlow[d] * dt /\ s.vhigh[d] * dt <= r.vhigh[d] * dt
  BY <1>3, ProductKeepsOrder
<1>5. /\ r.vlow[d] * dt \in Int /\ s.vlow[d] * dt \in Int
      /\ r.vhigh[d] * dt \in Int /\ s.vhigh[d] * dt \in Int
  BY <1>3
<1>6. /\ LowNow(r, d, time) <= LowNow(s, d, time)
      /\ HighNow(s, d, time) <= HighNow(r, d, time)
  BY DEF Bounds
<1>7. /\ LowNow(r, d, time) \in Int /\ HighNow(r, d, time) \in Int
      /\ LowNow(r, d, time + dt) = LowNow(r, d, time) + r.vlow[d] * dt
      /\ HighNow(r, d, time + dt) = HighNow(r, d, time) + r.vhigh[d] * dt
  BY <1>a, SidesMove, Zenon
<1>8. /\ LowNow(s, d, time) \in Int /\ HighNow(s, d, time) \in Int
      /\ LowNow(s, d, time + dt) = LowNow(s, d, time) + s.vlow[d] * dt
      /\ HighNow(s, d, time + dt) = HighNow(s, d, time) + s.vhigh[d] * dt
  BY <1>a, SidesMove, Zenon
<1>9. QED
  BY <1>4, <1>5, <1>6, <1>7, <1>8

(***************************************************************************)
(* Boxes bound what the boxes below them bound.                            *)
(***************************************************************************)
THEOREM BoundsCompose ==
  ASSUME NEW r \in Motions, NEW s \in Motions, NEW x \in Motions, NEW time \in Int,
         Bounds(r, s, time), Bounds(s, x, time)
  PROVE  Bounds(r, x, time)
<1>1. SUFFICES ASSUME NEW d \in Dim
               PROVE  /\ LowNow(r, d, time) <= LowNow(x, d, time)
                      /\ HighNow(x, d, time) <= HighNow(r, d, time)
                      /\ r.vlow[d] <= x.vlow[d]
                      /\ x.vhigh[d] <= r.vhigh[d]
  BY DEF Bounds
<1>2. 0 \in Int
  OBVIOUS
<1>3. \A y \in {r, s, x} : LowNow(y, d, time) \in Int /\ HighNow(y, d, time) \in Int
                           /\ y.vlow[d] \in Int /\ y.vhigh[d] \in Int
  BY <1>2, SidesMove DEF Motions
<1>4. QED
  BY <1>3 DEF Bounds

------------------------------------------------------------------------------
(***************************************************************************)
(* combineRegionAfterTime.                                                 *)
(***************************************************************************)
LEMMA LeastOfTwo ==
  ASSUME NEW a \in Int, NEW b \in Int
  PROVE  Min({a, b}) \in {a, b} /\ Min({a, b}) <= a /\ Min({a, b}) <= b
BY DEF Min

LEMMA GreatestOfTwo ==
  ASSUME NEW a \in Int, NEW b \in Int
  PROVE  Max({a, b}) \in {a, b} /\ a <= Max({a, b}) /\ b <= Max({a, b})
BY DEF Max

\* The box of two regions, side by side.
LEMMA BoxOfTwo ==
  ASSUME NEW r \in Motions, NEW s \in Motions, NEW time \in Int, NEW d \in Dim
  PROVE  LET box == MovingBox({r, s}, time) IN
           /\ box.low[d] \in Int
           /\ box.low[d] <= LowNow(r, d, time) /\ box.low[d] <= LowNow(s, d, time)
           /\ box.high[d] \in Int
           /\ HighNow(r, d, time) <= box.high[d] /\ HighNow(s, d, time) <= box.high[d]
           /\ box.vlow[d] \in Int
           /\ box.vlow[d] <= r.vlow[d] /\ box.vlow[d] <= s.vlow[d]
           /\ box.vhigh[d] \in Int
           /\ r.vhigh[d] <= box.vhigh[d] /\ s.vhigh[d] <= box.vhigh[d]
           /\ box.start = time
<1> DEFINE box == MovingBox({r, s}, time)
           low(x) == LowNow(x, d, time)
           high(x) == HighNow(x, d, time)
<1>1. /\ {low(x) : x \in {r, s}} = {low(r), low(s)}
      /\ {high(x) : x \in {r, s}} = {high(r), high(s)}
      /\ {x.vlow[d] : x \in {r, s}} = {r.vlow[d], s.vlow[d]}
      /\ {x.vhigh[d] : x \in {r, s}} = {r.vhigh[d], s.vhigh[d]}
  OBVIOUS
<1>2. /\ box.low[d] = Min({low(x) : x \in {r, s}})
      /\ box.high[d] = Max({high(x) : x \in {r, s}})
      /\ box.vlow[d] = Min({x.vlow[d] : x \in {r, s}})
      /\ box.vhigh[d] = Max({x.vhigh[d] : x \in {r, s}})
      /\ box.start = time
  BY DEF MovingBox
<1> HIDE DEF box
<1>3. 0 \in Int
  OBVIOUS
<1>4. low(r) \in Int /\ low(s) \in Int /\ high(r) \in Int /\ high(s) \in Int
  BY <1>3, SidesMove
<1>5. r.vlow[d] \in Int /\ s.vlow[d] \in Int /\ r.vhigh[d] \in Int /\ s.vhigh[d] \in Int
  BY DEF Motions
<1> HIDE DEF low, high
<1>6. box.low[d] \in Int /\ box.low[d] <= low(r) /\ box.low[d] <= low(s)
  BY <1>1, <1>2, <1>4, LeastOfTwo
<1>7. box.high[d] \in Int /\ high(r) <= box.high[d] /\ high(s) <= box.high[d]
  BY <1>1, <1>2, <1>4, GreatestOfTwo
<1>8. box.vlow[d] \in Int /\ box.vlow[d] <= r.vlow[d] /\ box.vlow[d] <= s.vlow[d]
  BY <1>1, <1>2, <1>5, LeastOfTwo
<1>9. box.vhigh[d] \in Int /\ r.vhigh[d] <= box.vhigh[d] /\ s.vhigh[d] <= box.vhigh[d]
  BY <1>1, <1>2, <1>5, GreatestOfTwo
<1>10. QED
  BY <1>2, <1>6, <1>7, <1>8, <1>9 DEF box, low, high

(***************************************************************************)
(* The combination of two regions at a time bounds both of them at that    *)
(* time, and so (BoundsLast) from then on: insertions that only enlarge    *)
(* the boxes on their path, and boxes computed afresh after a split, keep  *)
(* what BoxesBoundTheFuture says.                                          *)
(***************************************************************************)
THEOREM CombinationBounds ==
  ASSUME NEW r \in Motions, NEW s \in Motions, NEW time \in Int
  PROVE  LET box == CombinedRegionAfterTime(r, time, s) IN
           Bounds(box, r, time) /\ Bounds(box, s, time)
<1> DEFINE box == CombinedRegionAfterTime(r, time, s)
           tight == MovingBox({r, s}, time)
<1>1. /\ box.low = tight.low /\ box.high = tight.high
      /\ box.vlow = tight.vlow /\ box.vhigh = tight.vhigh /\ box.start = tight.start
  <2>1. tight = [low |-> tight.low, high |-> tight.high, vlow |-> tight.vlow,
                 vhigh |-> tight.vhigh, start |-> tight.start, end |-> tight.end]
    BY DEF MovingBox
  <2>2. box \in {tight, [tight EXCEPT !.end = Forever]}
    BY DEF CombinedRegionAfterTime
  <2> HIDE DEF tight, box
  <2>3. QED
    BY <2>1, <2>2
<1>2. SUFFICES ASSUME NEW d \in Dim, NEW x \in {r, s}
               PROVE  /\ LowNow(box, d, time) <= LowNow(x, d, time)
                      /\ HighNow(x, d, time) <= HighNow(box, d, time)
                      /\ box.vlow[d] <= x.vlow[d]
                      /\ x.vhigh[d] <= box.vhigh[d]
  BY DEF Bounds
<1>4. /\ tight.low[d] \in Int /\ tight.low[d] <= LowNow(x, d, time)
      /\ tight.high[d] \in Int /\ HighNow(x, d, time) <= tight.high[d]
      /\ tight.vlow[d] \in Int /\ tight.vlow[d] <= x.vlow[d]
      /\ tight.vhigh[d] \in Int /\ x.vhigh[d] <= tight.vhigh[d]
      /\ tight.start = time
  <2>1. CASE x = r
    BY <2>1, BoxOfTwo
  <2>2. CASE x = s
    BY <2>2, BoxOfTwo
  <2>3. QED
    BY <2>1, <2>2
<1> HIDE DEF box, tight
<1>5. LowNow(box, d, time) = tight.low[d] /\ HighNow(box, d, time) = tight.high[d]
  <2>1. box.start = time /\ time - time = 0
    BY <1>1, <1>4
  <2>2. tight.vlow[d] * 0 = 0 /\ tight.vhigh[d] * 0 = 0
    BY <1>4
  <2>3. QED
    BY <1>1, <1>4, <2>1, <2>2 DEF LowNow, HighNow
<1>6. QED
  BY <1>1, <1>4, <1>5

=============================================================================
