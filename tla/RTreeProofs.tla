----------------------------- MODULE RTreeProofs -----------------------------
(***************************************************************************)
(* Proofs about RTree and its nodes, for every variant, every capacity and *)
(* all objects.  First Region and RTreeNode, for any coordinates and any   *)
(* number of dimensions: what makes it right to leave a node's MBR alone,  *)
(* and a subtree unread; and that whatever way is taken, the two groups of *)
(* a split, and what a forced reinsertion keeps and reinserts, have every  *)
(* entry of the node between them, and have it once.  Then the tree.       *)
(***************************************************************************)
EXTENDS RTree, FiniteSetTheorems, SequenceTheorems, TLAPS
LOCAL INSTANCE FiniteSetsExt
LOCAL INSTANCE SequencesExt

\* The orders that the library proves well-founded, under names of their own.
Finite == INSTANCE FiniteSetTheorems

------------------------------------------------------------------------------
(***************************************************************************)
(* Induction and recursion over an interval of numbers, with sets and      *)
(* functions in the place of predicates.                                   *)
(***************************************************************************)
LEMMA LeastNumber ==
  ASSUME NEW S \in SUBSET Nat, S # {}
  PROVE  \E m \in S : \A x \in S : m <= x
<1> DEFINE T == {0 .. m : m \in S}
           R == Finite!StrictSubsetOrdering(Nat)
           F == Finite!FiniteSubsetsOf(Nat)
<1>1. T \subseteq F /\ T # {}
  <2>1. ASSUME NEW m \in S
        PROVE  0 .. m \in F
    <3>1. m \in Nat /\ 0 .. m \in SUBSET Nat
      OBVIOUS
    <3>2. Finite!IsFiniteSet(0 .. m)
      BY <3>1, Finite!FS_Interval
    <3>3. QED
      BY <3>1, <3>2 DEF Finite!FiniteSubsetsOf
  <2>2. QED
    BY <2>1
<1>2. PICK t \in T : \A u \in T : ~ (<<u, t>> \in R)
  <2>1. Finite!IsWellFoundedOn(R, F)
    BY Finite!FS_StrictSubsetOrderingWellFounded
  <2> HIDE DEF R, T, F
  <2>2. QED
    BY <1>1, <2>1, Finite!WFMin
<1>3. PICK m \in S : t = 0 .. m
  OBVIOUS
<1>4. ASSUME NEW x \in S, ~ (m <= x)
      PROVE  FALSE
  <2>1. x \in Nat /\ m \in Nat /\ x < m
    BY <1>4
  <2>2. 0 .. x \subseteq 0 .. m /\ 0 .. x # 0 .. m
    BY <2>1
  <2>3. 0 .. x \in T /\ 0 .. x \in SUBSET Nat /\ t \in SUBSET Nat
    OBVIOUS
  <2>4. QED
    BY <1>2, <1>3, <2>2, <2>3 DEF Finite!StrictSubsetOrdering
<1>5. QED
  BY <1>4

LEMMA UpTo ==
  ASSUME NEW n \in Nat, NEW S, 0 \in S, \A k \in 0 .. n - 1 : k \in S => k + 1 \in S
  PROVE  \A k \in 0 .. n : k \in S
<1> SUFFICES ASSUME (0 .. n) \ S # {}
             PROVE  FALSE
  OBVIOUS
<1>1. (0 .. n) \ S \in SUBSET Nat
  OBVIOUS
<1>2. PICK m \in (0 .. n) \ S : \A x \in (0 .. n) \ S : m <= x
  BY <1>1, LeastNumber
<1>3. m - 1 \in 0 .. n - 1
  BY <1>2
<1>4. m - 1 \in S
  BY <1>2, <1>3
<1>5. QED
  BY <1>2, <1>3, <1>4

\* A function given by its first value and by how the next one is computed.
Iterates(f, n, T, first, next) ==
  /\ f \in [0 .. n -> T]
  /\ f[0] = first
  /\ \A k \in 1 .. n : f[k] = next[f[k - 1]]

LEMMA Recursion ==
  ASSUME NEW n \in Nat, NEW T, NEW first \in T, NEW next \in [T -> T]
  PROVE  \E f : Iterates(f, n, T, first, next)
<1> DEFINE Fits(f, m) == f[0] = first /\ \A k \in 1 .. m : f[k] = next[f[k - 1]]
           S == {m \in Nat : \E f \in [0 .. m -> T] : Fits(f, m)}
<1>1. 0 \in S
  <2>1. [k \in 0 .. 0 |-> first] \in [0 .. 0 -> T]
    OBVIOUS
  <2>2. Fits([k \in 0 .. 0 |-> first], 0)
    OBVIOUS
  <2>3. QED
    BY <2>1, <2>2
<1>2. ASSUME NEW m \in 0 .. n - 1, m \in S
      PROVE  m + 1 \in S
  <2>1. PICK f \in [0 .. m -> T] : Fits(f, m)
    BY <1>2
  <2> DEFINE g == [k \in 0 .. m + 1 |-> IF k = m + 1 THEN next[f[m]] ELSE f[k]]
  <2>2. g \in [0 .. m + 1 -> T]
    OBVIOUS
  <2>3. g[0] = first
    BY <2>1
  <2>4. ASSUME NEW k \in 1 .. m + 1
        PROVE  g[k] = next[g[k - 1]]
    <3>1. CASE k = m + 1
      BY <3>1
    <3>2. CASE k # m + 1
      <4>1. k \in 1 .. m /\ k - 1 \in 0 .. m
        BY <3>2
      <4>2. f[k] = next[f[k - 1]]
        BY <2>1, <4>1
      <4>3. g[k] = f[k] /\ g[k - 1] = f[k - 1]
        BY <4>1
      <4>4. QED
        BY <4>2, <4>3
    <3>3. QED
      BY <3>1, <3>2
  <2> HIDE DEF g
  <2>5. \E h \in [0 .. m + 1 -> T] : Fits(h, m + 1)
    BY <2>2, <2>3, <2>4
  <2> HIDE DEF Fits
  <2>6. QED
    BY <2>5
<1>3. n \in S
  <2> HIDE DEF S
  <2>1. \A k \in 0 .. n : k \in S
    BY <1>1, <1>2, UpTo
  <2>2. QED
    BY <2>1
<1>4. QED
  BY <1>3 DEF Iterates

LEMMA LengthOfList ==
  ASSUME NEW n \in Nat, NEW s, s = [k \in 1 .. n |-> s[k]]
  PROVE  Len(s) = n /\ DOMAIN s = 1 .. n
<1>1. s \in [1 .. n -> {s[k] : k \in 1 .. n}]
  OBVIOUS
<1>2. s \in Seq({s[k] : k \in 1 .. n})
  BY <1>1
<1>3. QED
  BY <1>1, <1>2

\* As many different numbers as there are in an interval are all of it.
LEMMA Onto ==
  ASSUME NEW n \in Nat, NEW o \in [1 .. n -> 1 .. n],
         \A j, k \in 1 .. n : o[j] = o[k] => j = k
  PROVE  \A i \in 1 .. n : \E k \in 1 .. n : o[k] = i
<1>1. o \in Finite!Injection(1 .. n, 1 .. n)
  BY DEF Finite!Injection, Finite!IsInjective
<1>2. Finite!IsFiniteSet(1 .. n)
  BY Finite!FS_Interval, 1 \in Int, n \in Int
<1>3. o \in Finite!Surjection(1 .. n, 1 .. n)
  BY <1>1, <1>2, Finite!FS_Injection
<1>4. QED
  BY <1>3 DEF Finite!Surjection

------------------------------------------------------------------------------
LOCAL INSTANCE FiniteSetsExt

Regions == [low : [Dim -> Int], high : [Dim -> Int]]

\* The sides of a box are those of regions in it, the furthest out (or
\* infinite ones, which no finite region changes).
IsBoxOf(box, regions) ==
  \A d \in Dim :
    /\ box.low[d] \in {r.low[d] : r \in regions} \cup {Infinity}
    /\ box.high[d] \in {r.high[d] : r \in regions} \cup {-Infinity}
    /\ box.low[d] <= Infinity /\ -Infinity <= box.high[d]
    /\ \A r \in regions : box.low[d] <= r.low[d] /\ r.high[d] <= box.high[d]

------------------------------------------------------------------------------
LEMMA Least ==
  ASSUME NEW S \in SUBSET Int, NEW m \in S, \A x \in S : m <= x
  PROVE  Min(S) = m
<1>1. \E x \in S : \A y \in S : x <= y
  OBVIOUS
<1>2. Min(S) \in S /\ \A y \in S : Min(S) <= y
  BY <1>1 DEF Min
<1>3. Min(S) \in Int /\ m \in Int /\ Min(S) <= m /\ m <= Min(S)
  BY <1>2
<1>4. QED
  BY <1>3

LEMMA Greatest ==
  ASSUME NEW S \in SUBSET Int, NEW m \in S, \A x \in S : x <= m
  PROVE  Max(S) = m
<1>1. \E x \in S : \A y \in S : x >= y
  OBVIOUS
<1>2. Max(S) \in S /\ \A y \in S : Max(S) >= y
  BY <1>1 DEF Max
<1>3. Max(S) \in Int /\ m \in Int /\ Max(S) <= m /\ m <= Max(S)
  BY <1>2
<1>4. QED
  BY <1>3

\* There is only one such box, and the loops over the entries compute it.
LEMMA BoxIsComputed ==
  ASSUME NEW regions \in SUBSET Regions, NEW box \in Regions, IsBoxOf(box, regions)
  PROVE  BoundingBox(regions) = box
<1> DEFINE lows(d)  == {r.low[d] : r \in regions} \cup {Infinity}
           highs(d) == {r.high[d] : r \in regions} \cup {-Infinity}
<1>1. Infinity \in Int /\ -Infinity \in Int
  BY RegionAssumption
<1>2. ASSUME NEW d \in Dim
      PROVE  Min(lows(d)) = box.low[d] /\ Max(highs(d)) = box.high[d]
  <2>1. lows(d) \in SUBSET Int /\ highs(d) \in SUBSET Int
    BY <1>1 DEF Regions
  <2>2. box.low[d] \in lows(d) /\ box.high[d] \in highs(d)
    BY DEF IsBoxOf
  <2>3. \A x \in lows(d) : box.low[d] <= x
    BY DEF IsBoxOf
  <2>4. \A x \in highs(d) : x <= box.high[d]
    BY DEF IsBoxOf
  <2> HIDE DEF lows, highs
  <2>5. Min(lows(d)) = box.low[d]
    BY <2>1, <2>2, <2>3, Least
  <2>6. Max(highs(d)) = box.high[d]
    BY <2>1, <2>2, <2>4, Greatest
  <2>7. QED
    BY <2>5, <2>6
<1>3. BoundingBox(regions)
        = [low |-> [d \in Dim |-> Min(lows(d))], high |-> [d \in Dim |-> Max(highs(d))]]
  BY DEF BoundingBox
<1> HIDE DEF lows, highs
<1>4. /\ [d \in Dim |-> Min(lows(d))] = [d \in Dim |-> box.low[d]]
      /\ [d \in Dim |-> Max(highs(d))] = [d \in Dim |-> box.high[d]]
  BY <1>2
<1>5. box = [low |-> [d \in Dim |-> box.low[d]], high |-> [d \in Dim |-> box.high[d]]]
  BY DEF Regions
<1>6. QED
  BY <1>3, <1>4, <1>5

\* What is left of a box without a region that has no side in common with it.
LEMMA WithoutUntouching ==
  ASSUME NEW others \in SUBSET Regions, NEW old \in Regions, NEW box \in Regions,
         IsBoxOf(box, others \cup {old}), ~TouchesRegion(box, old)
  PROVE  IsBoxOf(box, others)
<1>1. ASSUME NEW d \in Dim
      PROVE  /\ box.low[d] \in {r.low[d] : r \in others} \cup {Infinity}
             /\ box.high[d] \in {r.high[d] : r \in others} \cup {-Infinity}
             /\ box.low[d] <= Infinity /\ -Infinity <= box.high[d]
             /\ \A r \in others : box.low[d] <= r.low[d] /\ r.high[d] <= box.high[d]
  <2>1. box.low[d] # old.low[d] /\ box.high[d] # old.high[d]
    BY DEF TouchesRegion
  <2>2. QED
    BY <2>1 DEF IsBoxOf
<1>2. QED
  BY <1>1 DEF IsBoxOf

LEMMA WithContained ==
  ASSUME NEW others \in SUBSET Regions, NEW new \in Regions, NEW box \in Regions,
         IsBoxOf(box, others), ContainsRegion(box, new)
  PROVE  IsBoxOf(box, others \cup {new})
BY DEF IsBoxOf, ContainsRegion

(***************************************************************************)
(* deleteEntry (rtree/Node.cc:302) leaves the MBR alone unless the entry   *)
(* that goes has a side in common with it: then it is what the loop over   *)
(* the entries that stay would compute.                                    *)
(***************************************************************************)
THEOREM DeletionKeepsBox ==
  ASSUME NEW others \in SUBSET Regions, NEW old \in Regions, NEW box \in Regions,
         IsBoxOf(box, others \cup {old}), ~TouchesRegion(box, old)
  PROVE  BoundingBox(others) = box
BY WithoutUntouching, BoxIsComputed

(***************************************************************************)
(* adjustTree (rtree/Index.cc:283) leaves it alone, and stops going up,    *)
(* unless the child had a side in common with it or has outgrown it: this  *)
(* is MustRecompute of RTree for tight MBRs, and it misses no case.        *)
(***************************************************************************)
THEOREM AdjustmentKeepsBox ==
  ASSUME NEW others \in SUBSET Regions, NEW old \in Regions, NEW new \in Regions,
         NEW box \in Regions, IsBoxOf(box, others \cup {old}),
         ~TouchesRegion(box, old), ContainsRegion(box, new)
  PROVE  BoundingBox(others \cup {new}) = box
<1>1. IsBoxOf(box, others)
  BY WithoutUntouching
<1>2. IsBoxOf(box, others \cup {new})
  BY <1>1, WithContained
<1>3. others \cup {new} \in SUBSET Regions
  OBVIOUS
<1>4. QED
  BY <1>2, <1>3, BoxIsComputed

\* What a box becomes when it is combined with one more region.
LEMMA InsertionKeepsBox ==
  ASSUME NEW others \in SUBSET Regions, NEW new \in Regions, NEW box \in Regions,
         IsBoxOf(box, others)
  PROVE  /\ CombinedRegion(box, new) \in Regions
         /\ IsBoxOf(CombinedRegion(box, new), others \cup {new})
<1> DEFINE low(d)  == IF box.low[d] <= new.low[d] THEN box.low[d] ELSE new.low[d]
           high(d) == IF new.high[d] <= box.high[d] THEN box.high[d] ELSE new.high[d]
           both == [low |-> [d \in Dim |-> low(d)], high |-> [d \in Dim |-> high(d)]]
<1>1. ASSUME NEW d \in Dim
      PROVE  /\ box.low[d] \in Int /\ box.high[d] \in Int
             /\ new.low[d] \in Int /\ new.high[d] \in Int
             /\ \A r \in others : r.low[d] \in Int /\ r.high[d] \in Int
             /\ Infinity \in Int /\ -Infinity \in Int
  BY RegionAssumption DEF Regions
<1>2. both \in Regions
  BY <1>1 DEF Regions
<1>3. \A d \in Dim : both.low[d] = low(d) /\ both.high[d] = high(d)
  OBVIOUS
<1> HIDE DEF both
<1>4. IsBoxOf(both, {box, new})
  <2>1. ASSUME NEW d \in Dim
        PROVE  /\ both.low[d] \in {r.low[d] : r \in {box, new}}
               /\ both.high[d] \in {r.high[d] : r \in {box, new}}
               /\ both.low[d] <= Infinity /\ -Infinity <= both.high[d]
               /\ \A r \in {box, new} : both.low[d] <= r.low[d] /\ r.high[d] <= both.high[d]
    BY <1>1, <1>3 DEF IsBoxOf
  <2>2. QED
    BY <2>1 DEF IsBoxOf
<1>5. IsBoxOf(both, others \cup {new})
  <2>1. ASSUME NEW d \in Dim
        PROVE  /\ both.low[d] \in {r.low[d] : r \in others \cup {new}} \cup {Infinity}
               /\ both.high[d] \in {r.high[d] : r \in others \cup {new}} \cup {-Infinity}
               /\ both.low[d] <= Infinity /\ -Infinity <= both.high[d]
    BY <1>1, <1>3 DEF IsBoxOf
  <2>2. ASSUME NEW d \in Dim, NEW r \in others \cup {new}
        PROVE  both.low[d] <= r.low[d] /\ r.high[d] <= both.high[d]
    <3>1. CASE r \in others
      <4>1. box.low[d] <= r.low[d] /\ r.high[d] <= box.high[d]
        BY <3>1 DEF IsBoxOf
      <4>2. QED
        BY <1>1, <1>3, <3>1, <4>1
    <3>2. CASE r = new
      BY <1>1, <1>3, <3>2
    <3>3. QED
      BY <3>1, <3>2
  <2>3. QED
    BY <2>1, <2>2 DEF IsBoxOf
<1>6. {box, new} \in SUBSET Regions /\ others \cup {new} \in SUBSET Regions
  OBVIOUS
<1>7. BoundingBox({box, new}) = both
  BY <1>2, <1>4, <1>6, BoxIsComputed
<1>8. QED
  BY <1>2, <1>5, <1>7 DEF CombinedRegion

(***************************************************************************)
(* insertEntry (rtree/Node.cc:286) combines the MBR with the new entry's   *)
(* region instead of going over the entries: the result is the same.       *)
(***************************************************************************)
THEOREM InsertionCombinesBox ==
  ASSUME NEW others \in SUBSET Regions, NEW new \in Regions, NEW box \in Regions,
         IsBoxOf(box, others)
  PROVE  CombinedRegion(box, new) = BoundingBox(others \cup {new})
<1>1. others \cup {new} \in SUBSET Regions
  OBVIOUS
<1>2. QED
  BY <1>1, InsertionKeepsBox, BoxIsComputed

------------------------------------------------------------------------------
(***************************************************************************)
(* A range query and findLeaf may leave out a child whose MBR does not     *)
(* qualify: nothing under an MBR meets what the MBR does not meet, or      *)
(* contains what the MBR does not contain.                                 *)
(***************************************************************************)
THEOREM PruningLosesNothing ==
  ASSUME NEW box \in Regions, NEW r \in Regions, NEW query \in Regions, ContainsRegion(box, r)
  PROVE  /\ IntersectsRegion(query, r) => IntersectsRegion(query, box)
         /\ ContainsRegion(r, query) => ContainsRegion(box, query)
<1>1. \A d \in Dim : /\ box.low[d] \in Int /\ box.high[d] \in Int
                     /\ r.low[d] \in Int /\ r.high[d] \in Int
                     /\ query.low[d] \in Int /\ query.high[d] \in Int
                     /\ box.low[d] <= r.low[d] /\ r.high[d] <= box.high[d]
  BY DEF Regions, ContainsRegion
<1>2. QED
  BY <1>1 DEF IntersectsRegion, ContainsRegion


------------------------------------------------------------------------------
\* The orders of n positions.
Orderings(n) ==
  {o \in [1 .. n -> 1 .. n] : \A j, k \in 1 .. n : o[j] = o[k] => j = k}

\* However its elements compare, and whatever a sort makes of equal ones, a
\* list is put into an order.
LEMMA SortedOrdersPermute ==
  ASSUME NEW n \in Nat, NEW key, key = [k \in 1 .. n |-> key[k]]
  PROVE  SortedOrders(key) \subseteq Orderings(n)
<1> DEFINE left(o)  == DOMAIN key \ {o[k] : k \in DOMAIN o}
           least(o) == {i \in left(o) : \A j \in left(o) : key[i] <= key[j]}
           longer(O) == UNION {{Append(o, i) : i \in least(o)} : o \in O}
           Fits(f) == f = [m \in 0 .. n |-> IF m = 0 THEN {<<>>} ELSE longer(f[m - 1])]
           orders == CHOOSE f : Fits(f)
<1>1. Len(key) = n /\ DOMAIN key = 1 .. n
  BY LengthOfList
<1>2. SortedOrders(key) = orders[n]
  BY <1>1 DEF SortedOrders
<1>3. \E f : Fits(f)
  <2> DEFINE T == SUBSET Seq(1 .. n)
             start == {<<>>}
             next == [O \in T |-> longer(O)]
  <2>1. \A O \in T : longer(O) \in T
    <3>1. ASSUME NEW O \in T, NEW o \in O, NEW i \in least(o)
          PROVE  Append(o, i) \in Seq(1 .. n)
      <4>1. o \in Seq(1 .. n) /\ i \in 1 .. n
        BY <1>1
      <4>2. QED
        BY <4>1
    <3> HIDE DEF least
    <3>2. ASSUME NEW O \in T, NEW x \in longer(O)
          PROVE  x \in Seq(1 .. n)
      <4>1. PICK o \in O : \E i \in least(o) : x = Append(o, i)
        OBVIOUS
      <4>2. QED
        BY <3>1, <4>1
    <3> HIDE DEF longer
    <3>3. QED
      BY <3>2
  <2>2. start \in T
    OBVIOUS
  <2> HIDE DEF longer
  <2>3. next \in [T -> T]
    BY <2>1
  <2> HIDE DEF next, T, start
  <2>4. PICK f : Iterates(f, n, T, start, next)
    BY <2>2, <2>3, Recursion
  <2>5. ASSUME NEW m \in 1 .. n
        PROVE  f[m] = longer(f[m - 1])
    <3>1. m - 1 \in 0 .. n
      OBVIOUS
    <3>2. f[m - 1] \in T
      BY <2>4, <3>1 DEF Iterates
    <3>3. QED
      BY <2>4, <3>2 DEF next, Iterates
  <2>6. f = [m \in 0 .. n |-> f[m]]
    BY <2>4 DEF Iterates
  <2>7. ASSUME NEW m \in 0 .. n
        PROVE  f[m] = IF m = 0 THEN {<<>>} ELSE longer(f[m - 1])
    <3>1. CASE m = 0
      BY <2>4, <3>1 DEF start, Iterates
    <3>2. CASE m \in 1 .. n
      BY <2>5, <3>2
    <3>3. QED
      BY <3>1, <3>2
  <2>8. Fits(f)
    BY <2>6, <2>7
  <2>9. QED
    BY <2>8
<1>4. Fits(orders)
  <2> HIDE DEF Fits
  <2>1. QED
    BY <1>3
<1> HIDE DEF orders
<1> DEFINE Listed(o, m) == /\ o \in [1 .. m -> 1 .. n]
                           /\ \A j, k \in 1 .. m : o[j] = o[k] => j = k
           S == {m \in 0 .. n : \A o \in orders[m] : Listed(o, m)}
<1>5. 0 \in S
  <2>1. orders[0] = {<<>>}
    BY <1>4
  <2>2. Listed(<<>>, 0)
    OBVIOUS
  <2> HIDE DEF Listed
  <2>3. QED
    BY <2>1, <2>2
<1>6. ASSUME NEW m \in 0 .. n - 1, m \in S
      PROVE  m + 1 \in S
  <2>1. m + 1 \in 0 .. n /\ m + 1 # 0 /\ (m + 1) - 1 = m
    OBVIOUS
  <2>2. orders[m + 1] = longer(orders[m])
    <3> HIDE DEF longer
    <3>1. QED
      BY <1>4, <2>1
  <2>3. ASSUME NEW o \in orders[m], NEW i \in least(o)
        PROVE  Listed(Append(o, i), m + 1)
    <3>1. Listed(o, m) /\ i \in 1 .. n /\ \A k \in 1 .. m : o[k] # i
      BY <1>1, <1>6
    <3>2. o \in Seq(1 .. n) /\ Len(o) = m
      BY <3>1
    <3> HIDE DEF least
    <3>3. /\ Append(o, i) \in Seq(1 .. n) /\ Len(Append(o, i)) = m + 1
          /\ \A k \in 1 .. m : Append(o, i)[k] = o[k]
          /\ Append(o, i)[m + 1] = i
      BY <3>1, <3>2
    <3>4. Append(o, i) \in [1 .. m + 1 -> 1 .. n]
      BY <3>3, LenProperties
    <3>5. ASSUME NEW j \in 1 .. m + 1, NEW k \in 1 .. m + 1, Append(o, i)[j] = Append(o, i)[k]
          PROVE  j = k
      <4>1. (j \in 1 .. m \/ j = m + 1) /\ (k \in 1 .. m \/ k = m + 1)
        OBVIOUS
      <4>2. QED
        BY <3>1, <3>3, <3>5, <4>1
    <3>6. QED
      BY <3>4, <3>5
  <2> HIDE DEF Listed, least
  <2>4. \A o \in orders[m + 1] : Listed(o, m + 1)
    BY <2>2, <2>3
  <2>5. QED
    BY <2>1, <2>4
<1>7. n \in S
  <2> HIDE DEF S
  <2>1. \A k \in 0 .. n : k \in S
    BY <1>5, <1>6, UpTo
  <2>2. QED
    BY <2>1
<1>8. QED
  BY <1>2, <1>7 DEF Orderings

------------------------------------------------------------------------------
\* Two groups of the positions up to n and those that are in neither yet, of
\* which there are enough for each group to come to hold least.
Dealt(n, least, g1, g2, rest) ==
  /\ g1 \in Seq(1 .. n) /\ g2 \in Seq(1 .. n) /\ rest \subseteq 1 .. n
  /\ \A j, k \in 1 .. Len(g1) : g1[j] = g1[k] => j = k
  /\ \A j, k \in 1 .. Len(g2) : g2[j] = g2[k] => j = k
  /\ \A j \in 1 .. Len(g1), k \in 1 .. Len(g2) : g1[j] # g2[k]
  /\ \A k \in 1 .. Len(g1) : g1[k] \notin rest
  /\ \A k \in 1 .. Len(g2) : g2[k] \notin rest
  /\ Len(g1) + Len(g2) + Cardinality(rest) = n
  /\ Len(g1) >= 1 /\ Len(g2) >= 1
  /\ least <= Len(g1) + Cardinality(rest)
  /\ least <= Len(g2) + Cardinality(rest)

\* There are n numbers up to n.
LEMMA NumbersUpTo ==
  ASSUME NEW n \in Nat
  PROVE  IsFiniteSet(1 .. n) /\ Cardinality(1 .. n) = n
<1>1. 1 \in Int /\ n \in Int
  OBVIOUS
<1>2. IsFiniteSet(1 .. n)
  BY <1>1, FS_Interval
<1>3. Cardinality(1 .. n) = IF 1 > n THEN 0 ELSE n - 1 + 1
  BY <1>1, FS_Interval
<1>4. QED
  BY <1>2, <1>3

LEMMA DealtEitherWay ==
  ASSUME NEW n \in Nat, NEW least \in Int, NEW g1, NEW g2, NEW rest, Dealt(n, least, g1, g2, rest)
  PROVE  Dealt(n, least, g2, g1, rest)
BY DEF Dealt

LEMMA DealOne ==
  ASSUME NEW n \in Nat, NEW least \in Int, NEW g1, NEW g2, NEW rest, Dealt(n, least, g1, g2, rest),
         NEW i \in rest, least < Len(g2) + Cardinality(rest)
  PROVE  Dealt(n, least, Append(g1, i), g2, rest \ {i})
<1>1. g1 \in Seq(1 .. n) /\ g2 \in Seq(1 .. n) /\ i \in 1 .. n /\ rest \ {i} \subseteq 1 .. n
  BY DEF Dealt
<1>2. /\ Append(g1, i) \in Seq(1 .. n) /\ Len(Append(g1, i)) = Len(g1) + 1
      /\ \A k \in 1 .. Len(g1) : Append(g1, i)[k] = g1[k]
      /\ Append(g1, i)[Len(g1) + 1] = i
  BY <1>1
<1>3. /\ Cardinality(rest) \in Nat
      /\ Cardinality(rest \ {i}) = Cardinality(rest) - 1
  <2>1. IsFiniteSet(1 .. n)
    BY NumbersUpTo
  <2>2. IsFiniteSet(rest)
    BY <2>1, FS_Subset DEF Dealt
  <2>3. QED
    BY <2>2, FS_RemoveElement, FS_CardinalityType
<1>4. Len(g1) \in Nat /\ Len(g2) \in Nat
  BY <1>1
<1>5. \A k \in 1 .. Len(Append(g1, i)) : k \in 1 .. Len(g1) \/ k = Len(g1) + 1
  BY <1>2, <1>4
<1>6. \A j, k \in 1 .. Len(Append(g1, i)) : Append(g1, i)[j] = Append(g1, i)[k] => j = k
  BY <1>2, <1>5 DEF Dealt
<1>7. \A j \in 1 .. Len(Append(g1, i)), k \in 1 .. Len(g2) : Append(g1, i)[j] # g2[k]
  BY <1>2, <1>5 DEF Dealt
<1>8. \A k \in 1 .. Len(Append(g1, i)) : Append(g1, i)[k] \notin rest \ {i}
  BY <1>2, <1>5 DEF Dealt
<1>9. /\ Len(Append(g1, i)) + Len(g2) + Cardinality(rest \ {i}) = n
      /\ Len(Append(g1, i)) >= 1 /\ Len(g2) >= 1
      /\ least <= Len(Append(g1, i)) + Cardinality(rest \ {i})
      /\ least <= Len(g2) + Cardinality(rest \ {i})
  <2>1. /\ Len(g1) + Len(g2) + Cardinality(rest) = n
        /\ Len(g1) >= 1 /\ Len(g2) >= 1
        /\ least <= Len(g1) + Cardinality(rest)
    BY DEF Dealt
  <2>2. Len(Append(g1, i)) = Len(g1) + 1
    BY <1>2
  <2>3. \A a, b, c \in Nat : least <= a + c /\ least < b + c => least <= (a + 1) + (c - 1) /\ least <= b + (c - 1)
    OBVIOUS
  <2>4. least < Len(g2) + Cardinality(rest)
    OBVIOUS
  <2>5. least <= Len(g1) + 1 + (Cardinality(rest) - 1) /\ least <= Len(g2) + (Cardinality(rest) - 1)
    BY <1>3, <1>4, <2>1, <2>3, <2>4
  <2>6. QED
    BY <1>3, <1>4, <2>1, <2>2, <2>5
<1>10. QED
  BY <1>1, <1>2, <1>6, <1>7, <1>8, <1>9 DEF Dealt

\* Two lists of entries that have those of kids between them, each once: the
\* first few of an order, and the others.
Distributes(kids, g, least) ==
  \E o \in Orderings(Len(kids)), p \in 1 .. Len(kids) - 1 :
    /\ g = <<FirstGroup(kids, o, p), SecondGroup(kids, o, p)>>
    /\ least <= p /\ least <= Len(kids) - p

\* What a sequence has at its places.
LEMMA SeqElements ==
  ASSUME NEW S, NEW s \in Seq(S)
  PROVE  DOMAIN s = 1 .. Len(s) /\ \A k \in 1 .. Len(s) : s[k] \in S
OBVIOUS

LEMMA AllDealt ==
  ASSUME NEW T, NEW kids \in Seq(T), NEW least \in Int, NEW g1, NEW g2,
         Dealt(Len(kids), least, g1, g2, {})
  PROVE  Distributes(kids, <<Pick(kids, g1), Pick(kids, g2)>>, least)
<1> DEFINE n == Len(kids)
           p == Len(g1)
           o == [k \in 1 .. n |-> IF k <= p THEN g1[k] ELSE g2[k - p]]
<1>1. n \in Nat /\ p \in Nat /\ Len(g2) \in Nat /\ p + Len(g2) = n /\ p >= 1 /\ Len(g2) >= 1
  BY FS_EmptySet DEF Dealt
<1>2. least <= p /\ least <= n - p
  BY <1>1, FS_EmptySet DEF Dealt
<1>3. /\ DOMAIN g1 = 1 .. p /\ DOMAIN g2 = 1 .. n - p
      /\ \A k \in 1 .. p : g1[k] \in 1 .. n
      /\ \A k \in 1 .. n - p : g2[k] \in 1 .. n
  <2>1. g1 \in Seq(1 .. n) /\ g2 \in Seq(1 .. n) /\ Len(g2) = n - p
    BY <1>1, SMT DEF Dealt
  <2> HIDE DEF n
  <2>2. DOMAIN g1 = 1 .. Len(g1) /\ \A k \in 1 .. Len(g1) : g1[k] \in 1 .. n
    BY <2>1, SeqElements, Zenon
  <2>3. DOMAIN g2 = 1 .. Len(g2) /\ \A k \in 1 .. Len(g2) : g2[k] \in 1 .. n
    BY <2>1, SeqElements, Zenon
  <2>4. QED
    BY <2>1, <2>2, <2>3, Zenon
<1>4. \A k \in 1 .. n : \/ k \in 1 .. p /\ o[k] = g1[k]
                        \/ k - p \in 1 .. n - p /\ ~ k <= p /\ o[k] = g2[k - p]
  BY <1>1
<1>5. o \in [1 .. n -> 1 .. n]
  BY <1>3, <1>4
<1>6. ASSUME NEW j \in 1 .. n, NEW k \in 1 .. n, o[j] = o[k]
      PROVE  j = k
  <2> HIDE DEF o
  <2>1. \/ j \in 1 .. p /\ o[j] = g1[j]
        \/ j - p \in 1 .. n - p /\ o[j] = g2[j - p]
    BY <1>4
  <2>2. \/ k \in 1 .. p /\ o[k] = g1[k]
        \/ k - p \in 1 .. n - p /\ o[k] = g2[k - p]
    BY <1>4
  <2>3. n - p = Len(g2)
    BY <1>1
  <2>4. j \in Int /\ k \in Int /\ p \in Int
    BY <1>1
  <2> HIDE DEF n, p
  <2>5. CASE j \in 1 .. p /\ o[j] = g1[j] /\ k \in 1 .. p /\ o[k] = g1[k]
    BY <1>6, <2>5 DEF Dealt, p
  <2>6. CASE j \in 1 .. p /\ o[j] = g1[j] /\ k - p \in 1 .. n - p /\ o[k] = g2[k - p]
    BY <1>6, <2>3, <2>6 DEF Dealt, p
  <2>7. CASE j - p \in 1 .. n - p /\ o[j] = g2[j - p] /\ k \in 1 .. p /\ o[k] = g1[k]
    BY <1>6, <2>3, <2>7 DEF Dealt, p
  <2>8. CASE j - p \in 1 .. n - p /\ o[j] = g2[j - p] /\ k - p \in 1 .. n - p /\ o[k] = g2[k - p]
    <3>1. j - p = k - p
      BY <1>6, <2>3, <2>8 DEF Dealt
    <3>2. QED
      BY <3>1, <2>4
  <2>9. QED
    BY <2>1, <2>2, <2>5, <2>6, <2>7, <2>8
<1>7. o \in Orderings(n)
  BY <1>5, <1>6 DEF Orderings
<1>8. Pick(kids, g1) = FirstGroup(kids, o, p)
  <2>1. \A k \in 1 .. p : o[k] = g1[k]
    BY <1>1
  <2> HIDE DEF o
  <2>2. QED
    BY <1>3, <2>1 DEF Pick, FirstGroup
<1>9. Pick(kids, g2) = SecondGroup(kids, o, p)
  <2>1. \A k \in 1 .. n - p : o[p + k] = g2[k]
    BY <1>1
  <2> HIDE DEF o
  <2>2. QED
    BY <1>3, <2>1 DEF Pick, SecondGroup
<1>10. p \in 1 .. n - 1
  BY <1>1
<1>11. QED
  <2> HIDE DEF o, p
  <2>1. QED
    BY <1>2, <1>7, <1>8, <1>9, <1>10 DEF Distributes

------------------------------------------------------------------------------
LEMMA BestOfThem ==
  ASSUME NEW key
  PROVE  Best(key) \subseteq DOMAIN key
BY DEF Best

LEMMA SeedsApart ==
  ASSUME NEW T, NEW kids \in Seq(T), Len(kids) >= 2, NEW seeds \in PickSeeds(kids)
  PROVE  /\ seeds[1] \in 1 .. Len(kids) /\ seeds[2] \in 1 .. Len(kids)
         /\ seeds[1] # seeds[2]
<1>1. DOMAIN kids = 1 .. Len(kids) /\ Len(kids) \in Nat
  OBVIOUS
<1>2. CASE Variant = "quadratic"
  <2> DEFINE pairs == {p \in (DOMAIN kids) \X (DOMAIN kids) : p[1] < p[2]}
             inefficiency(p) == Area(CombinedRegion(kids[p[1]].mbr, kids[p[2]].mbr))
                                  - Area(kids[p[1]].mbr) - Area(kids[p[2]].mbr)
             key == [p \in pairs |-> <<-inefficiency(p), p[1], p[2]>>]
  <2>1. seeds \in Best(key)
    BY <1>2 DEF PickSeeds, QuadraticSeeds
  <2> HIDE DEF inefficiency
  <2>2. seeds \in pairs
    <3>1. DOMAIN key = pairs
      OBVIOUS
    <3> HIDE DEF key, pairs
    <3>2. QED
      BY <2>1, <3>1, BestOfThem
  <2>3. QED
    BY <1>1, <2>2
<1>3. CASE Variant # "quadratic"
  <2> DEFINE low(c, d)  == kids[c].mbr.low[d]
             high(c, d) == kids[c].mbr.high[d]
             leastUpper(d)    == Best([c \in DOMAIN kids |-> <<high(c, d), c>>])
             greatestLower(d) == Best([c \in DOMAIN kids |-> <<-low(c, d), c>>])
             candidates == UNION {{d} \X leastUpper(d) \X greatestLower(d) : d \in Dim}
             apart(p) == IF p[2] # p[3] THEN <<p[2], p[3]>>
                                        ELSE <<p[2], IF p[3] = 1 THEN 2 ELSE p[3] - 1>>
  <2>1. \E p \in candidates : seeds = apart(p)
    BY <1>3, Zenon DEF PickSeeds, LinearSeeds
  <2>2. PICK p \in candidates : seeds = apart(p)
    BY <2>1
  <2>3. \A d : leastUpper(d) \subseteq DOMAIN kids /\ greatestLower(d) \subseteq DOMAIN kids
    <3> TAKE d
    <3> DEFINE uppers == [c \in DOMAIN kids |-> <<high(c, d), c>>]
               lowers == [c \in DOMAIN kids |-> <<-low(c, d), c>>]
    <3>1. DOMAIN uppers = DOMAIN kids /\ DOMAIN lowers = DOMAIN kids
      OBVIOUS
    <3>2. leastUpper(d) = Best(uppers) /\ greatestLower(d) = Best(lowers)
      OBVIOUS
    <3> HIDE DEF uppers, lowers
    <3>3. QED
      BY <3>1, <3>2, BestOfThem
  <2> HIDE DEF leastUpper, greatestLower
  <2>4. p[2] \in DOMAIN kids /\ p[3] \in DOMAIN kids
    BY <2>2, <2>3
  <2>5. QED
    BY <1>1, <2>2, <2>4
<1>4. QED
  BY <1>2, <1>3

\* One more entry joins a group.
LEMMA AssignOne ==
  ASSUME NEW kids, NEW n \in Nat, NEW least \in Nat, 2 * least <= n,
         NEW s \in Grouping, Dealt(n, least, s.g1, s.g2, s.rest),
         NEW t \in AssignNext(kids, least, s)
  PROVE  /\ t \in Grouping /\ Dealt(n, least, t.g1, t.g2, t.rest)
         /\ Cardinality(t.rest) = Cardinality(s.rest) - 1
<1> DEFINE c == Cardinality(s.rest)
           first(i)  == [s EXCEPT !.g1 = Append(@, i), !.rest = @ \ {i}]
           second(i) == [s EXCEPT !.g2 = Append(@, i), !.rest = @ \ {i}]
<1>1. PICK i \in Candidates(kids, least, s) :
        t = IF JoinsSecond(kids, least, s, i) THEN second(i) ELSE first(i)
  BY DEF AssignNext
<1>2. i \in s.rest
  <2>1. CASE i \in {j \in s.rest : \A l \in s.rest : j <= l}
    BY <2>1
  <2>2. ASSUME NEW key, DOMAIN key = s.rest, i \in Best(key)
        PROVE  i \in s.rest
    BY <2>2, BestOfThem
  <2>3. \/ i \in {j \in s.rest : \A l \in s.rest : j <= l}
        \/ \E key : DOMAIN key = s.rest /\ i \in Best(key)
    <3> DEFINE cost(g, j) == Enlargement(NodeBox(Pick(kids, g)), kids[j].mbr)
               magnitude(x) == IF x < 0 THEN -x ELSE x
               key == [j \in s.rest |-> <<-magnitude(cost(s.g1, j) - cost(s.g2, j)), j>>]
               inOrder == Needs(s.g1, least, s.rest) \/ Needs(s.g2, least, s.rest)
    <3>1. CASE Variant = "quadratic" /\ ~inOrder
      <4>1. i \in Best(key)
        BY <3>1, <1>1 DEF Candidates
      <4>2. DOMAIN key = s.rest
        OBVIOUS
      <4> HIDE DEF key
      <4>3. QED
        BY <4>1, <4>2
    <3>2. CASE ~ (Variant = "quadratic" /\ ~inOrder)
      BY <3>2, <1>1 DEF Candidates
    <3>3. QED
      BY <3>1, <3>2
  <2>4. QED
    BY <2>1, <2>2, <2>3
<1>3. /\ s.g1 \in Seq(1 .. n) /\ s.g2 \in Seq(1 .. n) /\ s.rest \subseteq 1 .. n
      /\ Len(s.g1) \in Nat /\ Len(s.g2) \in Nat
  BY DEF Dealt
<1>4. c \in Nat /\ c >= 1 /\ Cardinality(s.rest \ {i}) = c - 1
  <2>1. IsFiniteSet(1 .. n)
    BY NumbersUpTo
  <2>2. IsFiniteSet(s.rest)
    BY <2>1, <1>3, FS_Subset
  <2>3. c \in Nat /\ Cardinality(s.rest \ {i}) = c - 1
    BY <1>2, <2>2, FS_RemoveElement, FS_CardinalityType
  <2>4. IsFiniteSet(s.rest \ {i})
    BY <2>2, FS_Subset
  <2>5. Cardinality(s.rest \ {i}) \in Nat
    BY <2>4, FS_CardinalityType
  <2>6. QED
    BY <2>3, <2>5
<1>5. /\ Len(s.g1) + Len(s.g2) + c = n
      /\ least <= Len(s.g1) + c /\ least <= Len(s.g2) + c
  BY DEF Dealt
<1>6. CASE JoinsSecond(kids, least, s, i)
  <2>1. least < Len(s.g1) + c
    <3>1. ~ (least - Len(s.g1) = c)
      <4>1. ~ Needs(s.g1, least, s.rest)
        BY <1>6 DEF JoinsSecond
      <4>2. QED
        BY <4>1 DEF Needs
    <3>2. \A x, y \in Nat : least <= x + y /\ ~ (least - x = y) => least < x + y
      OBVIOUS
    <3>3. QED
      BY <1>3, <1>4, <1>5, <3>1, <3>2
  <2>2. Dealt(n, least, Append(s.g2, i), s.g1, s.rest \ {i})
    <3>1. Dealt(n, least, s.g2, s.g1, s.rest) /\ least \in Int
      BY DealtEitherWay
    <3>2. QED
      BY <1>2, <2>1, <3>1, DealOne
  <2>3. Dealt(n, least, s.g1, Append(s.g2, i), s.rest \ {i})
    BY <2>2, DealtEitherWay
  <2>4. t = second(i)
    BY <1>1, <1>6
  <2>5. t.g1 = s.g1 /\ t.g2 = Append(s.g2, i) /\ t.rest = s.rest \ {i}
    BY <2>4 DEF Grouping
  <2>6. Append(s.g2, i) \in Seq(Nat) /\ s.rest \ {i} \subseteq Nat
    BY <1>2 DEF Grouping
  <2>7. t \in Grouping
    BY <2>4, <2>6 DEF Grouping
  <2>8. QED
    BY <1>4, <2>3, <2>5, <2>7
<1>7. CASE ~ JoinsSecond(kids, least, s, i)
  <2>1. least < Len(s.g2) + c
    <3>1. least - Len(s.g1) = c \/ ~ (least - Len(s.g2) = c)
      <4>1. Needs(s.g1, least, s.rest) \/ ~ Needs(s.g2, least, s.rest)
        BY <1>7 DEF JoinsSecond
      <4>2. QED
        BY <4>1 DEF Needs
    <3>2. \A x, y, z \in Nat : (least - x = z \/ ~ (least - y = z)) /\ z >= 1 /\ x + y + z = n
                                 /\ least <= x + z /\ least <= y + z => least < y + z
      OBVIOUS
    <3>3. QED
      BY <1>3, <1>4, <1>5, <3>1, <3>2
  <2>2. Dealt(n, least, Append(s.g1, i), s.g2, s.rest \ {i})
    <3>1. least \in Int
      OBVIOUS
    <3>2. QED
      BY <1>2, <2>1, <3>1, DealOne
  <2>4. t = first(i)
    BY <1>1, <1>7
  <2>5. t.g2 = s.g2 /\ t.g1 = Append(s.g1, i) /\ t.rest = s.rest \ {i}
    BY <2>4 DEF Grouping
  <2>6. Append(s.g1, i) \in Seq(Nat) /\ s.rest \ {i} \subseteq Nat
    BY <1>2 DEF Grouping
  <2>7. t \in Grouping
    BY <2>4, <2>6 DEF Grouping
  <2>8. QED
    BY <1>4, <2>2, <2>5, <2>7
<1>8. QED
  BY <1>6, <1>7, Zenon

LEMMA RtreeSplitsDistribute ==
  ASSUME NEW T, NEW kids \in Seq(T), NEW least \in Nat, Len(kids) >= 2, 2 * least <= Len(kids),
         NEW g \in RtreeSplits(kids, least)
  PROVE  Distributes(kids, g, least)
<1> DEFINE n == Len(kids)
           longer(X) == UNION {AssignNext(kids, least, s) : s \in X}
           starts == {[g1 |-> <<seeds[1]>>, g2 |-> <<seeds[2]>>,
                       rest |-> DOMAIN kids \ {seeds[1], seeds[2]}] : seeds \in PickSeeds(kids)}
           Fits(f) == f = [k \in 0 .. n - 2 |-> IF k = 0 THEN starts ELSE longer(f[k - 1])]
           groupings == CHOOSE f : Fits(f)
           Good(s) == s \in Grouping /\ Dealt(n, least, s.g1, s.g2, s.rest)
           Left(s, k) == Cardinality(s.rest) = n - 2 - k
           result(s) == <<Pick(kids, s.g1), Pick(kids, s.g2)>>
<1>1. n \in Nat /\ n - 2 \in Nat /\ DOMAIN kids = 1 .. n
  OBVIOUS
<1>2. RtreeSplits(kids, least) = {result(s) : s \in groupings[n - 2]}
  BY Zenon DEF RtreeSplits
<1>3. ASSUME NEW s \in starts
      PROVE  Good(s) /\ Left(s, 0)
  <2>1. PICK seeds \in PickSeeds(kids) :
          s = [g1 |-> <<seeds[1]>>, g2 |-> <<seeds[2]>>, rest |-> 1 .. n \ {seeds[1], seeds[2]}]
    BY <1>1
  <2> DEFINE a == seeds[1]
             b == seeds[2]
  <2>2. a \in 1 .. n /\ b \in 1 .. n /\ a # b
    BY SeedsApart
  <2> HIDE DEF a, b
  <2>3. s = [g1 |-> <<a>>, g2 |-> <<b>>, rest |-> 1 .. n \ {a, b}]
    BY <2>1 DEF a, b
  <2>4. s \in Grouping
    BY <2>2, <2>3 DEF Grouping
  <2>5. s.g1 = <<a>> /\ s.g2 = <<b>> /\ s.rest = 1 .. n \ {a, b}
    BY <2>3
  <2>6. Cardinality(1 .. n \ {a, b}) = n - 2
    <3>1. IsFiniteSet(1 .. n) /\ Cardinality(1 .. n) = n
      BY <1>1, NumbersUpTo, Zenon
    <3> DEFINE P == 1 .. n
               Q == P \ {a}
    <3> HIDE DEF P, Q
    <3>2. IsFiniteSet(P) /\ Cardinality(P) = n /\ a \in P
      BY <2>2, <3>1 DEF P
    <3>3. IsFiniteSet(Q) /\ Cardinality(Q) = n - 1
      BY <3>2, FS_RemoveElement DEF Q
    <3>4. b \in Q
      BY <2>2 DEF P, Q
    <3>5. Cardinality(Q \ {b}) = (n - 1) - 1
      BY <3>3, <3>4, FS_RemoveElement
    <3>6. Q \ {b} = P \ {a, b}
      BY DEF Q
    <3>7. (n - 1) - 1 = n - 2
      BY <1>1
    <3>8. QED
      BY <3>5, <3>6, <3>7 DEF P
  <2>7. Dealt(n, least, <<a>>, <<b>>, 1 .. n \ {a, b})
    <3>1. /\ <<a>> \in Seq(1 .. n) /\ <<b>> \in Seq(1 .. n)
          /\ Len(<<a>>) = 1 /\ Len(<<b>>) = 1 /\ <<a>>[1] = a /\ <<b>>[1] = b
      BY <2>2
    <3>2. /\ \A j, k \in 1 .. 1 : j = k
          /\ 1 .. n \ {a, b} \subseteq 1 .. n
          /\ a \notin 1 .. n \ {a, b} /\ b \notin 1 .. n \ {a, b}
      OBVIOUS
    <3>3. 1 + 1 + (n - 2) = n /\ least <= 1 + (n - 2)
      BY <1>1
    <3>4. \A k \in 1 .. 1 : k = 1
      OBVIOUS
    <3>5. /\ Len(<<a>>) + Len(<<b>>) + Cardinality(1 .. n \ {a, b}) = n
          /\ Len(<<a>>) >= 1 /\ Len(<<b>>) >= 1
          /\ least <= Len(<<a>>) + Cardinality(1 .. n \ {a, b})
          /\ least <= Len(<<b>>) + Cardinality(1 .. n \ {a, b})
      BY <2>6, <3>1, <3>3
    <3>6. /\ \A j, k \in 1 .. Len(<<a>>) : <<a>>[j] = <<a>>[k] => j = k
          /\ \A j, k \in 1 .. Len(<<b>>) : <<b>>[j] = <<b>>[k] => j = k
          /\ \A j \in 1 .. Len(<<a>>), k \in 1 .. Len(<<b>>) : <<a>>[j] # <<b>>[k]
          /\ \A k \in 1 .. Len(<<a>>) : <<a>>[k] \notin 1 .. n \ {a, b}
          /\ \A k \in 1 .. Len(<<b>>) : <<b>>[k] \notin 1 .. n \ {a, b}
      BY <2>2, <3>1, <3>2, <3>4
    <3>7. QED
      BY <3>1, <3>2, <3>5, <3>6 DEF Dealt
  <2>8. QED
    BY <2>4, <2>5, <2>6, <2>7, <1>1
<1>4. \E f : Fits(f)
  <2> DEFINE U == {s \in Grouping : Dealt(n, least, s.g1, s.g2, s.rest)}
             T2 == SUBSET U
             next == [X \in T2 |-> longer(X)]
  <2>1. \A X \in T2 : longer(X) \in T2
    BY <1>1, AssignOne
  <2>2. starts \in T2
    BY <1>3
  <2> HIDE DEF longer
  <2>3. next \in [T2 -> T2]
    BY <2>1
  <2> HIDE DEF next, T2, starts
  <2>4. PICK f : Iterates(f, n - 2, T2, starts, next)
    BY <1>1, <2>2, <2>3, Recursion
  <2>5. ASSUME NEW m \in 1 .. n - 2
        PROVE  f[m] = longer(f[m - 1])
    <3>1. m - 1 \in 0 .. n - 2
      BY <1>1
    <3>2. f[m - 1] \in T2
      BY <2>4, <3>1 DEF Iterates
    <3>3. QED
      BY <2>4, <3>2 DEF next, Iterates
  <2>6. f = [m \in 0 .. n - 2 |-> f[m]]
    BY <2>4 DEF Iterates
  <2>7. ASSUME NEW m \in 0 .. n - 2
        PROVE  f[m] = IF m = 0 THEN starts ELSE longer(f[m - 1])
    <3>1. CASE m = 0
      BY <2>4, <3>1 DEF Iterates
    <3>2. CASE m \in 1 .. n - 2
      BY <2>5, <3>2
    <3>3. QED
      BY <1>1, <3>1, <3>2
  <2>8. Fits(f)
    BY <2>6, <2>7
  <2>9. QED
    BY <2>8
<1>5. Fits(groupings)
  <2> HIDE DEF Fits
  <2>1. QED
    BY <1>4
<1> HIDE DEF groupings
<1> DEFINE S == {k \in 0 .. n - 2 : \A s \in groupings[k] : Good(s) /\ Left(s, k)}
<1>6. 0 \in S
  <2>1. groupings[0] = starts
    BY <1>1, <1>5
  <2> HIDE DEF starts, Good, Left
  <2>2. QED
    BY <1>1, <1>3, <2>1
<1>7. ASSUME NEW m \in 0 .. (n - 2) - 1, m \in S
      PROVE  m + 1 \in S
  <2>1. m + 1 \in 0 .. n - 2 /\ m + 1 # 0 /\ (m + 1) - 1 = m
    BY <1>1
  <2>2. groupings[m + 1] = longer(groupings[m])
    <3> HIDE DEF longer, starts
    <3>1. QED
      BY <1>5, <2>1
  <2>3. ASSUME NEW s \in groupings[m], NEW t \in AssignNext(kids, least, s)
        PROVE  Good(t) /\ Left(t, m + 1)
    <3>1. Good(s) /\ Left(s, m)
      BY <1>7
    <3>2. Good(t) /\ Cardinality(t.rest) = Cardinality(s.rest) - 1
      BY <1>1, <3>1, AssignOne
    <3>3. QED
      BY <1>1, <3>1, <3>2
  <2> HIDE DEF Good, Left
  <2>4. \A t \in groupings[m + 1] : Good(t) /\ Left(t, m + 1)
    BY <2>2, <2>3
  <2>5. QED
    BY <2>1, <2>4
<1>8. n - 2 \in S
  <2> HIDE DEF S
  <2>1. \A k \in 0 .. n - 2 : k \in S
    BY <1>1, <1>6, <1>7, UpTo
  <2>2. QED
    BY <1>1, <2>1
<1>9. PICK s \in groupings[n - 2] : g = result(s)
  BY <1>2
<1>10. Good(s) /\ Cardinality(s.rest) = 0
  BY <1>1, <1>8, <1>9
<1>11. s.rest = {}
  <2>1. IsFiniteSet(1 .. n)
    BY <1>1, NumbersUpTo
  <2>2. IsFiniteSet(s.rest)
    BY <2>1, <1>10, FS_Subset DEF Dealt
  <2>3. QED
    BY <1>10, <2>2, FS_EmptySet
<1>12. Dealt(n, least, s.g1, s.g2, {})
  BY <1>10, <1>11
<1>13. g = <<Pick(kids, s.g1), Pick(kids, s.g2)>>
  BY <1>9
<1>14. QED
  <2> HIDE DEF Good, Left, result
  <2>1. QED
    BY <1>12, <1>13, AllDealt

------------------------------------------------------------------------------
LEMMA SplitAtDistributes ==
  ASSUME NEW kids, Len(kids) \in Nat, NEW o \in Orderings(Len(kids)), NEW least \in Int,
         Cuts(kids) \subseteq 1 .. Len(kids) - 1,
         \A l \in Cuts(kids) : least <= l /\ least <= Len(kids) - l,
         NEW g \in SplitAt(kids, o)
  PROVE  Distributes(kids, g, least)
<1> DEFINE box1(l) == NodeBox(FirstGroup(kids, o, l))
           box2(l) == NodeBox(SecondGroup(kids, o, l))
           key == [l \in Cuts(kids) |-> <<IntersectingArea(box1(l), box2(l)),
                                          Area(box1(l)) + Area(box2(l)), l>>]
<1>1. \E l \in Best(key) : g = <<FirstGroup(kids, o, l), SecondGroup(kids, o, l)>>
  BY Zenon DEF SplitAt
<1>2. DOMAIN key = Cuts(kids)
  OBVIOUS
<1> HIDE DEF key
<1>3. Best(key) \subseteq Cuts(kids)
  BY <1>2, BestOfThem
<1>4. QED
  BY <1>1, <1>3 DEF Distributes

LEMMA SplitOrdersPermute ==
  ASSUME NEW T, NEW kids \in Seq(T), NEW marginl, NEW marginh
  PROVE  SplitOrders(kids, marginl, marginh) \subseteq Orderings(Len(kids))
<1>1. DOMAIN kids = 1 .. Len(kids) /\ Len(kids) \in Nat
  OBVIOUS
<1>2. ASSUME NEW d
      PROVE  /\ LowOrders(kids, d) \subseteq Orderings(Len(kids))
             /\ HighOrders(kids, d) \subseteq Orderings(Len(kids))
  <2> DEFINE lows  == [k \in 1 .. Len(kids) |-> kids[k].mbr.low[d]]
             highs == [k \in 1 .. Len(kids) |-> kids[k].mbr.high[d]]
  <2>1. lows = [k \in 1 .. Len(kids) |-> lows[k]] /\ highs = [k \in 1 .. Len(kids) |-> highs[k]]
    OBVIOUS
  <2>2. LowOrders(kids, d) = SortedOrders(lows) /\ HighOrders(kids, d) = SortedOrders(highs)
    BY <1>1 DEF LowOrders, HighOrders
  <2> HIDE DEF lows, highs
  <2>3. QED
    BY <1>1, <2>1, <2>2, SortedOrdersPermute
<1>3. QED
  BY <1>2 DEF SplitOrders

\* n entries of which a share of a/b is taken, in whole numbers.
LEMMA PartOf ==
  ASSUME NEW n \in Nat, NEW f, ProperFraction(f)
  PROVE  Floor(n, f) \in Nat /\ Floor(n, f) <= n /\ (n >= 1 => Floor(n, f) < n)
<1> DEFINE a == f[1]
           b == f[2]
           q == (n * a) \div b
<1>1. a \in Nat /\ b \in Nat /\ a < b /\ b > 0 /\ Floor(n, f) = q
  BY DEF ProperFraction, Floor
<1> HIDE DEF a, b
<1>2. n * a \in Nat
  BY <1>1
<1>3. q \in Int /\ b * q <= n * a /\ n * a < b * (q + 1)
  <2>1. \A x \in Nat : \A y \in Nat \ {0} : x \div y \in Int /\ y * (x \div y) <= x /\ x < y * (x \div y + 1)
    OBVIOUS
  <2> HIDE DEF q
  <2>2. q = (n * a) \div b
    BY DEF q
  <2>3. QED
    BY <1>1, <1>2, <2>1, <2>2
<1> HIDE DEF q
<1>4. q >= 0
  <2>1. \A y \in Nat, z \in Int : z <= -1 => y * (z + 1) <= 0
    OBVIOUS
  <2>2. QED
    BY <1>1, <1>2, <1>3, <2>1
<1>5. q <= n
  <2>1. ASSUME q >= n + 1
        PROVE  FALSE
    <3>1. b * (n + 1) <= b * q
      BY <1>1, <1>3, <2>1
    <3>2. n * a <= n * b /\ n * b < b * (n + 1)
      BY <1>1
    <3>3. QED
      BY <1>1, <1>2, <1>3, <3>1, <3>2
  <2>2. QED
    BY <1>3, <2>1
<1>6. ASSUME n >= 1
      PROVE  q < n
  <2>1. ASSUME q = n
        PROVE  FALSE
    <3>1. b * n <= n * a /\ n * a < n * b
      BY <1>1, <1>3, <1>6, <2>1
    <3>2. QED
      BY <1>1, <3>1
  <2>2. QED
    BY <1>3, <1>5, <2>1
<1>7. QED
  BY <1>1, <1>3, <1>4, <1>5, <1>6

\* The fewest entries that a split of a node of some level puts in a group.
LeastShare(level) ==
  IF Variant = "rstar" THEN Floor(Capacity(level) + 1, SplitDistributionFactor) - 1
                       ELSE MinimumLoad(level)

LEMMA CapacityAtLeastFour ==
  ASSUME NEW level
  PROVE  Capacity(level) \in Nat /\ Capacity(level) >= 4
BY RTreeNodeAssumption DEF Capacity

LEMMA LeastShareOfTwo ==
  ASSUME NEW level
  PROVE  /\ LeastShare(level) \in Nat /\ 2 * LeastShare(level) <= Capacity(level)
         /\ Variant = "rstar" => LeastShare(level) >= 1
<1> DEFINE c == Capacity(level)
<1>1. c \in Nat
  BY CapacityAtLeastFour
<1>2. CASE Variant = "rstar"
  <2> DEFINE spf == Floor(c + 1, SplitDistributionFactor)
  <2>1. c \in {IndexCapacity, LeafCapacity}
    BY DEF Capacity
  <2> HIDE DEF c
  <2>2. 2 <= spf /\ 2 * spf <= c + 2
    BY <1>2, <2>1, RTreeNodeAssumption
  <2>3. spf \in Nat
    <3>1. ProperFraction(SplitDistributionFactor) /\ c + 1 \in Nat
      BY <1>1, RTreeNodeAssumption
    <3>2. QED
      BY <3>1, PartOf
  <2>4. LeastShare(level) = spf - 1
    BY <1>2 DEF LeastShare, c
  <2> HIDE DEF spf
  <2>5. QED
    BY <1>1, <2>2, <2>3, <2>4 DEF c
<1>3. CASE Variant # "rstar"
  <2> DEFINE a == FillFactor[1]
             b == FillFactor[2]
             q == (c * a) \div b
  <2>1. 2 * a <= b /\ ProperFraction(FillFactor) /\ a \in Nat /\ b \in Nat /\ b > 0
    BY <1>3, RTreeNodeAssumption DEF ProperFraction
  <2>2. LeastShare(level) = q /\ q = Floor(c, FillFactor)
    BY <1>3 DEF LeastShare, MinimumLoad, Floor
  <2>3. q \in Nat
    BY <1>1, <2>1, <2>2, PartOf
  <2> HIDE DEF a, b, c
  <2>4. b * q <= c * a
    <3>1. c * a \in Nat
      BY <1>1, <2>1
    <3>2. \A x \in Nat : \A y \in Nat \ {0} : y * (x \div y) <= x
      OBVIOUS
    <3>3. QED
      BY <2>1, <3>1, <3>2
  <2> HIDE DEF q
  <2>5. 2 * q <= c
    <3>1. ASSUME 2 * q >= c + 1
          PROVE  FALSE
      <4>1. b * (c + 1) <= b * (2 * q)
        BY <1>1, <2>1, <2>3, <3>1
      <4>2. 2 * (b * q) <= 2 * (c * a) /\ b * (2 * q) = 2 * (b * q)
        BY <1>1, <2>1, <2>3, <2>4
      <4>3. 2 * (c * a) <= c * b
        <5>1. c * (2 * a) <= c * b
          BY <1>1, <2>1
        <5>2. c * (2 * a) = 2 * (c * a)
          BY <1>1, <2>1
        <5>3. QED
          BY <5>1, <5>2
      <4>4. b * (c + 1) = c * b + b
        BY <1>1, <2>1
      <4>5. c * b \in Nat /\ b * q \in Nat /\ c * a \in Nat
        BY <1>1, <2>1, <2>3
      <4>6. QED
        BY <2>1, <4>1, <4>2, <4>3, <4>4, <4>5
    <3>2. QED
      BY <1>1, <2>3, <3>1
  <2>6. QED
    BY <1>3, <2>2, <2>3, <2>5 DEF c
<1>4. QED
  BY <1>2, <1>3

LEMMA CutsLeaveSome ==
  ASSUME Variant = "rstar", NEW level, NEW kids, Len(kids) = Capacity(level) + 1
  PROVE  /\ Cuts(kids) \subseteq 1 .. Len(kids) - 1
         /\ \A l \in Cuts(kids) : LeastShare(level) <= l /\ LeastShare(level) <= Len(kids) - l
<1> DEFINE n == Capacity(level) + 1
           spf == Floor(n, SplitDistributionFactor)
<1>1. n \in Nat /\ Len(kids) = n /\ LeastShare(level) = spf - 1
  BY CapacityAtLeastFour DEF LeastShare
<1>2. spf \in Nat /\ spf >= 2
  <2>1. ProperFraction(SplitDistributionFactor)
    BY RTreeNodeAssumption
  <2>2. spf \in Nat
    BY <1>1, <2>1, PartOf
  <2>3. spf - 1 >= 1
    BY <1>1, LeastShareOfTwo
  <2> HIDE DEF spf
  <2>4. QED
    BY <2>2, <2>3
<1>3. Cuts(kids) = spf .. spf - 1 + (n - 2 * spf + 2)
  BY <1>1 DEF Cuts
<1> HIDE DEF n, spf
<1>4. \A l \in Cuts(kids) : l \in Int /\ spf <= l /\ l <= n - spf + 1
  BY <1>1, <1>2, <1>3
<1>5. QED
  BY <1>1, <1>2, <1>4

\* Index::split and Leaf::split, in every variant: whatever a full node and
\* a new entry are distributed into, both groups have every one of the
\* entries between them, once, and none has fewer than the least share.
THEOREM SplitsDistribute ==
  ASSUME NEW T, NEW level \in Nat, NEW kids \in Seq(T), Len(kids) = Capacity(level) + 1,
         NEW g \in Splits(level, kids)
  PROVE  Distributes(kids, g, LeastShare(level))
<1>1. Len(kids) \in Nat /\ Len(kids) >= 2
  BY CapacityAtLeastFour
<1>2. LeastShare(level) \in Nat /\ 2 * LeastShare(level) <= Len(kids)
  BY LeastShareOfTwo, CapacityAtLeastFour
<1>3. CASE Variant = "rstar"
  <2> DEFINE margins == MarginsByDimension(kids, [d \in Dim |-> LowOrders(kids, d)])
                          \X MarginsByDimension(kids, [d \in Dim |-> HighOrders(kids, d)])
             orders  == UNION {SplitOrders(kids, m[1], m[2]) : m \in margins}
  <2>1. g \in UNION {SplitAt(kids, order) : order \in orders}
    <3>1. g \in RstarSplits(kids)
      BY <1>3 DEF Splits
    <3>2. RstarSplits(kids) = UNION {SplitAt(kids, order) : order \in orders}
      BY DEF RstarSplits
    <3> HIDE DEF orders, margins
    <3>3. QED
      BY <3>1, <3>2
  <2> HIDE DEF margins
  <2>2. PICK o \in orders : g \in SplitAt(kids, o)
    BY <2>1
  <2>3. o \in Orderings(Len(kids))
    BY <2>2, SplitOrdersPermute
  <2>4. QED
    BY <1>1, <1>2, <1>3, <2>2, <2>3, CutsLeaveSome, SplitAtDistributes
<1>4. CASE Variant # "rstar"
  <2>1. g \in RtreeSplits(kids, LeastShare(level))
    BY <1>4 DEF Splits, LeastShare
  <2>2. QED
    BY <1>1, <1>2, <2>1, RtreeSplitsDistribute
<1>5. QED
  BY <1>3, <1>4

\* Node::reinsertData: if there is anything to reinsert, what the node keeps
\* and what it reinserts have every one of the entries between them, once,
\* and the node keeps some.
THEOREM ReinsertionsDistribute ==
  ASSUME NEW T, NEW kids \in Seq(T), NEW mbr, Len(kids) >= 1,
         Floor(Len(kids), ReinsertFactor) >= 1,
         NEW r \in Reinsertions(kids, mbr)
  PROVE  /\ Distributes(kids, r, 1)
         /\ Len(r[1]) = Len(kids) - Floor(Len(kids), ReinsertFactor)
<1> DEFINE n == Len(kids)
           q == Floor(n, ReinsertFactor)
           key == [k \in 1 .. n |-> CenterDistance(mbr, kids[k].mbr)]
<1>1. n \in Nat /\ n >= 1 /\ DOMAIN kids = 1 .. n
  OBVIOUS
<1>2. q \in Nat /\ q < n /\ q >= 1
  BY <1>1, RTreeNodeAssumption, PartOf
<1>3. PICK o \in SortedOrders(key) :
        r = <<FirstGroup(kids, o, n - q), SecondGroup(kids, o, n - q)>>
  BY <1>1 DEF Reinsertions
<1>4. o \in Orderings(n)
  <2>1. key = [k \in 1 .. n |-> key[k]]
    OBVIOUS
  <2> HIDE DEF key
  <2>2. QED
    BY <1>1, <1>3, <2>1, SortedOrdersPermute
<1> HIDE DEF q
<1>5. n - q \in 1 .. n - 1 /\ 1 <= n - q /\ 1 <= n - (n - q)
  BY <1>1, <1>2
<1>6. Distributes(kids, r, 1)
  BY <1>3, <1>4, <1>5 DEF Distributes
<1>7. Len(r[1]) = n - q
  <2> DEFINE s == FirstGroup(kids, o, n - q)
  <2>1. s = [k \in 1 .. n - q |-> s[k]] /\ n - q \in Nat
    BY <1>5 DEF FirstGroup
  <2>2. r[1] = s
    BY <1>3
  <2> HIDE DEF s
  <2>3. QED
    BY <2>1, <2>2, LengthOfList
<1>8. QED
  BY <1>6, <1>7 DEF q

------------------------------------------------------------------------------
(***************************************************************************)
(* The box of the entries of a node, and the child that is chosen.         *)
(***************************************************************************)
LEMMA FiniteBox ==
  ASSUME NEW n \in Nat, NEW f \in [1 .. n -> Regions]
  PROVE  \E box \in Regions : IsBoxOf(box, {f[k] : k \in 1 .. n})
<1> DEFINE upto(m) == {f[k] : k \in 1 .. m}
           S == {m \in 0 .. n : \E box \in Regions : IsBoxOf(box, upto(m))}
<1>1. 0 \in S
  <2>1. upto(0) = {}
    OBVIOUS
  <2>2. InfiniteRegion \in Regions /\ IsBoxOf(InfiniteRegion, {})
    BY RegionAssumption DEF InfiniteRegion, Regions, IsBoxOf
  <2>3. QED
    BY <2>1, <2>2
<1>2. ASSUME NEW m \in 0 .. n - 1, m \in S
      PROVE  m + 1 \in S
  <2>1. PICK box \in Regions : IsBoxOf(box, upto(m))
    BY <1>2
  <2>2. upto(m + 1) = upto(m) \cup {f[m + 1]} /\ upto(m) \in SUBSET Regions /\ f[m + 1] \in Regions
    OBVIOUS
  <2> HIDE DEF upto
  <2>3. CombinedRegion(box, f[m + 1]) \in Regions
        /\ IsBoxOf(CombinedRegion(box, f[m + 1]), upto(m + 1))
    BY <2>1, <2>2, InsertionKeepsBox
  <2>4. QED
    BY <2>3
<1>3. n \in S
  <2> HIDE DEF S
  <2>1. \A k \in 0 .. n : k \in S
    BY <1>1, <1>2, UpTo
  <2>2. QED
    BY <2>1
<1>4. QED
  BY <1>3

LEMMA NodeBoxIsBox ==
  ASSUME NEW T, NEW kids \in Seq(T), \A k \in 1 .. Len(kids) : kids[k].mbr \in Regions
  PROVE  /\ MBRs(kids) \in SUBSET Regions
         /\ NodeBox(kids) \in Regions /\ IsBoxOf(NodeBox(kids), MBRs(kids))
<1> DEFINE n == Len(kids)
           f == [k \in 1 .. n |-> kids[k].mbr]
<1>1. n \in Nat /\ f \in [1 .. n -> Regions]
  OBVIOUS
<1>2. {f[k] : k \in 1 .. n} = MBRs(kids) /\ MBRs(kids) \in SUBSET Regions
  BY DEF MBRs
<1> HIDE DEF f
<1>3. PICK box \in Regions : IsBoxOf(box, MBRs(kids))
  BY <1>1, <1>2, FiniteBox
<1>4. NodeBox(kids) = box
  BY <1>2, <1>3, BoxIsComputed DEF NodeBox
<1>5. QED
  BY <1>2, <1>3, <1>4

LEMMA CombinedRegionType ==
  ASSUME NEW r \in Regions, NEW s \in Regions
  PROVE  CombinedRegion(r, s) \in Regions
<1>1. <<r, s>> \in [1 .. 2 -> Regions] /\ {<<r, s>>[k] : k \in 1 .. 2} = {r, s}
  OBVIOUS
<1>2. PICK box \in Regions : IsBoxOf(box, {r, s})
  BY <1>1, FiniteBox
<1>3. {r, s} \in SUBSET Regions
  OBVIOUS
<1>4. BoundingBox({r, s}) = box
  BY <1>2, <1>3, BoxIsComputed
<1>5. QED
  BY <1>2, <1>4 DEF CombinedRegion

LEMMA EnlargementChosen ==
  ASSUME NEW kids, NEW r
  PROVE  FindLeastEnlargement(kids, r) \subseteq DOMAIN kids
<1> DEFINE key == [c \in DOMAIN kids |-> <<Enlargement(kids[c].mbr, r), Area(kids[c].mbr), c>>]
<1>1. DOMAIN key = DOMAIN kids /\ FindLeastEnlargement(kids, r) = Best(key)
  BY DEF FindLeastEnlargement
<1> HIDE DEF key
<1>2. QED
  BY <1>1, BestOfThem

\* Index::chooseSubtree goes on to a child of the node.
LEMMA ChildIsChosen ==
  ASSUME NEW T, NEW kids \in Seq(T), NEW level, NEW r
  PROVE  ChosenChildren(level, kids, r) \subseteq DOMAIN kids
<1>1. DOMAIN kids = 1 .. Len(kids) /\ Len(kids) \in Nat
  OBVIOUS
<1>2. ASSUME NEW order \in NearMinimumOrders(kids, r)
      PROVE  LeastOverlapIn(kids, r, order) \subseteq DOMAIN kids
  <2>1. \A k \in 1 .. Len(kids) : order[k] \in 1 .. Len(kids)
    <3>1. CASE Len(kids) > NearMinimumOverlapFactor
      <4> DEFINE key == [c \in 1 .. Len(kids) |-> Enlargement(kids[c].mbr, r)]
      <4>1. order \in SortedOrders(key) /\ key = [c \in 1 .. Len(kids) |-> key[c]]
        BY <3>1, <1>1, <1>2 DEF NearMinimumOrders
      <4> HIDE DEF key
      <4>2. order \in Orderings(Len(kids))
        BY <4>1, <1>1, SortedOrdersPermute
      <4>3. QED
        BY <4>2 DEF Orderings
    <3>2. CASE ~ (Len(kids) > NearMinimumOverlapFactor)
      BY <3>2, <1>1, <1>2 DEF NearMinimumOrders
    <3>3. QED
      BY <3>1, <3>2
  <2> DEFINE examined == {k \in DOMAIN kids : k <= NearMinimumOverlapFactor}
             key == [k \in examined |->
                       <<OverlapGrowth(kids, order[k], r),
                         Enlargement(kids[order[k]].mbr, r), Area(kids[order[k]].mbr), k>>]
  <2>2. LeastOverlapIn(kids, r, order) = {order[k] : k \in Best(key)}
    BY Zenon DEF LeastOverlapIn
  <2>3. DOMAIN key = examined
    OBVIOUS
  <2> HIDE DEF key
  <2>4. Best(key) \subseteq DOMAIN kids
    BY <2>3, BestOfThem
  <2>5. QED
    BY <1>1, <2>1, <2>2, <2>4
<1>3. FindLeastOverlap(kids, r) \subseteq DOMAIN kids
  BY <1>2, EnlargementChosen DEF FindLeastOverlap
<1>4. QED
  BY <1>3, EnlargementChosen DEF ChosenChildren


------------------------------------------------------------------------------
(***************************************************************************)
(* Lists and sets.                                                         *)
(***************************************************************************)
LEMMA LeastOf ==
  ASSUME NEW S \in SUBSET Nat, S # {}
  PROVE  Min(S) \in S /\ \A x \in S : Min(S) <= x
<1>1. PICK m \in S : \A x \in S : m <= x
  BY LeastNumber
<1>2. QED
  BY <1>1 DEF Min

\* What NewPageBeside finds is a page, and not in use.
LEMMA NewPageIsNew ==
  ASSUME NEW used \in SUBSET Nat, IsFiniteSet(used)
  PROVE  NewPageBeside(used) \in Nat \ used
<1> DEFINE c == Cardinality(used)
<1>1. c \in Nat
  BY FS_CardinalityType
<1>2. ASSUME (0 .. c) \ used = {}
      PROVE  FALSE
  <2>1. 0 .. c \subseteq used
    BY <1>2
  <2>2. IsFiniteSet(0 .. c) /\ Cardinality(0 .. c) = c + 1
    BY <1>1, FS_Interval, 0 \in Int, c \in Int
  <2>3. Cardinality(0 .. c) <= c
    BY <2>1, FS_Subset
  <2>4. QED
    BY <1>1, <2>2, <2>3
<1>3. (0 .. c) \ used \in SUBSET Nat
  BY <1>1
<1>4. QED
  BY <1>2, <1>3, LeastOf DEF NewPageBeside

\* Where an entry is, if it is there.
LEMMA PositionFound ==
  ASSUME NEW kids \in Seq(Entry), NEW i \in DOMAIN kids
  PROVE  /\ PositionOf(kids, kids[i].id) \in DOMAIN kids
         /\ kids[PositionOf(kids, kids[i].id)].id = kids[i].id
<1> DEFINE I == {j \in 1 .. Len(kids) : kids[j].id = kids[i].id}
<1>1. I \in SUBSET Nat /\ I # {}
  OBVIOUS
<1>2. PositionOf(kids, kids[i].id) = Min(I)
  BY <1>1 DEF PositionOf, SelectInSeq
<1> DEFINE m == Min(I)
<1>3. m \in I
  <2> HIDE DEF I
  <2>1. QED
    BY <1>1, LeastOf
<1>4. PositionOf(kids, kids[i].id) = m
  BY <1>2
<1> HIDE DEF m
<1>5. QED
  BY <1>3, <1>4

LEMMA PrefixOf ==
  ASSUME NEW T, NEW s \in Seq(T), NEW m \in 0 .. Len(s)
  PROVE  /\ SubSeq(s, 1, m) \in Seq(T) /\ Len(SubSeq(s, 1, m)) = m
         /\ \A i \in 1 .. m : SubSeq(s, 1, m)[i] = s[i]
<1>1. m \in Int /\ 1 \in Int /\ \A i \in 1 .. m : s[i] \in T
  OBVIOUS
<1>2. /\ SubSeq(s, 1, m) \in Seq(T)
      /\ Len(SubSeq(s, 1, m)) = IF 1 <= m THEN m - 1 + 1 ELSE 0
      /\ \A i \in 1 .. m - 1 + 1 : SubSeq(s, 1, m)[i] = s[1 + i - 1]
  BY <1>1, SubSeqProperties
<1>3. m - 1 + 1 = m /\ (IF 1 <= m THEN m - 1 + 1 ELSE 0) = m
  OBVIOUS
<1>4. \A i \in 1 .. m : 1 + i - 1 = i
  OBVIOUS
<1>5. QED
  BY <1>2, <1>3, <1>4

LEMMA FrontOf ==
  ASSUME NEW T, NEW s \in Seq(T), s # <<>>
  PROVE  /\ Front(s) \in Seq(T) /\ Len(Front(s)) = Len(s) - 1
         /\ \A i \in 1 .. Len(s) - 1 : Front(s)[i] = s[i]
         /\ Last(s) = s[Len(s)] /\ Len(s) >= 1 /\ Last(s) \in T
<1>1. Len(s) \in Nat /\ Len(s) >= 1 /\ s[Len(s)] \in T
  OBVIOUS
<1>2. Len(s) - 1 \in 0 .. Len(s)
  BY <1>1
<1>3. Front(s) = SubSeq(s, 1, Len(s) - 1) /\ Last(s) = s[Len(s)]
  BY DEF Front, Last
<1>4. QED
  BY <1>1, <1>2, <1>3, PrefixOf

LEMMA ReverseOf ==
  ASSUME NEW T, NEW s \in Seq(T)
  PROVE  /\ Reverse(s) \in Seq(T) /\ Len(Reverse(s)) = Len(s)
         /\ \A i \in 1 .. Len(s) : Reverse(s)[i] = s[Len(s) + 1 - i]
BY DEF Reverse

------------------------------------------------------------------------------
(***************************************************************************)
(* The types of nodes and of the frames of the call stack.                 *)
(***************************************************************************)
Nodes == [level : Nat, mbr : Regions, kids : Seq(Entry)]
Path  == Seq(Nat)

ImplFrames     == [fn : {"insertData_impl"}, entry : Entry, level : Nat, fresh : BOOLEAN]
ChooseFrames   == [fn : {"chooseSubtree"}, page : Nat, entry : Entry, level : Nat, path : Path]
InsertFrames   == [fn : {"insertData"}, page : Nat, node : Nodes, entry : Entry,
                   path : Path, recomputed : BOOLEAN]
AdjustFrames   == [fn : {"adjustTree"}, page : Nat, child : Nat, mbr : Regions,
                   path : Path, force : BOOLEAN]
Adjust2Frames  == [fn : {"adjustTree2"}, page : Nat, child : Nat, mbr : Regions,
                   entry : Entry, path : Path]
CondenseFrames == [fn : {"condenseTree"}, page : Nat, path : Path, toReinsert : Seq(Nat)]
DeleteFrames   == [fn : {"deleteNode"}, page : Nat]
ReturnFrames   == [fn : {"return"}, delta : {-1, 1}]

Frame == ImplFrames \cup ChooseFrames \cup InsertFrames \cup AdjustFrames
           \cup Adjust2Frames \cup CondenseFrames \cup DeleteFrames \cup ReturnFrames

------------------------------------------------------------------------------
(***************************************************************************)
(* Every page but the root's has one owner: the page that has an entry for *)
(* it, or the call that holds it, because it is about to enter it, or to   *)
(* delete it.  The owner -k is the call that is the k-th from the bottom   *)
(* of the stack.                                                           *)
(***************************************************************************)
KidIds(kids) == {kids[i].id : i \in DOMAIN kids}

Children(n) == IF n.level = 0 THEN {} ELSE KidIds(n.kids)

HeldPages(f) ==
  IF f.fn \in {"insertData_impl", "chooseSubtree"} /\ f.level # 0 THEN {f.entry.id}
  ELSE IF f.fn = "insertData" /\ f.node.level # 0 THEN {f.entry.id}
  ELSE IF f.fn = "adjustTree2" THEN {f.entry.id}
  ELSE IF f.fn = "condenseTree" THEN {f.toReinsert[i] : i \in DOMAIN f.toReinsert}
  ELSE IF f.fn = "deleteNode" THEN {f.page}
  ELSE {}

Owners(pages, stack) == DOMAIN pages \cup {-k : k \in 1 .. Len(stack)}

Own(pages, stack) ==
  [x \in Owners(pages, stack) |->
     IF x \in DOMAIN pages THEN Children(pages[x]) ELSE HeldPages(stack[Len(stack) + 1 + x])]

Partition(own, P) ==
  /\ \A x \in DOMAIN own : own[x] \subseteq P
  /\ \A x, y \in DOMAIN own : \A c \in own[x] : c \in own[y] => x = y
  /\ \A c \in P : \E x \in DOMAIN own : c \in own[x]

------------------------------------------------------------------------------
(***************************************************************************)
(* The nodes: of their type, within their capacity, no higher than the     *)
(* root, and with children one level down.                                 *)
(***************************************************************************)
DistinctIds(kids) == \A i, j \in DOMAIN kids : kids[i].id = kids[j].id => i = j

FitsIn(pages, node) ==
  /\ node \in Nodes
  /\ Len(node.kids) <= Capacity(node.level)
  /\ node.level # 0 =>
       /\ DistinctIds(node.kids)
       /\ \A c \in KidIds(node.kids) : c \in DOMAIN pages /\ pages[c].level = node.level - 1

TreeOK(pages, root) ==
  /\ root \in DOMAIN pages
  /\ DOMAIN pages \subseteq Nat
  /\ IsFiniteSet(DOMAIN pages)
  /\ \A p \in DOMAIN pages : FitsIn(pages, pages[p]) /\ pages[p].level <= pages[root].level

(***************************************************************************)
(* The calls.  The way to a page is a pathBuffer of live pages, one level  *)
(* apart, from the root on; a deletion's leads from parents to children.   *)
(***************************************************************************)
Route(pages, root, path, page) ==
  /\ page \in DOMAIN pages
  /\ pages[page].level = pages[root].level - Len(path)
  /\ \A i \in 1 .. Len(path) :
       path[i] \in DOMAIN pages /\ pages[path[i]].level = pages[root].level + 1 - i
  /\ (IF path = <<>> THEN page ELSE path[1]) = root

Lineage(pages, path, page) ==
  /\ \A i \in 1 .. Len(path) - 1 : path[i + 1] \in Children(pages[path[i]])
  /\ path # <<>> => page \in Children(pages[path[Len(path)]])

\* An entry at some level: of a page one level down, unless it is an object.
EntryAt(pages, entry, level) ==
  level # 0 => entry.id \in DOMAIN pages /\ pages[entry.id].level = level - 1

ImplOK(pages, root, f) == f.level <= pages[root].level /\ EntryAt(pages, f.entry, f.level)

ChooseOK(pages, root, f) ==
  /\ Route(pages, root, f.path, f.page)
  /\ f.level <= pages[f.page].level
  /\ EntryAt(pages, f.entry, f.level)

SameIds(kids, others) ==
  Len(kids) = Len(others) /\ \A i \in 1 .. Len(kids) : kids[i].id = others[i].id

InsertOK(pages, root, f) ==
  /\ Route(pages, root, f.path, f.page)
  /\ f.node.level = pages[f.page].level
  /\ SameIds(f.node.kids, pages[f.page].kids)
  /\ EntryAt(pages, f.entry, f.node.level)

Adjust2OK(pages, root, f) ==
  /\ Route(pages, root, f.path, f.page)
  /\ pages[f.page].level # 0
  /\ EntryAt(pages, f.entry, pages[f.page].level)

CondenseOK(pages, root, f) ==
  /\ Route(pages, root, f.path, f.page)
  /\ Lineage(pages, f.path, f.page)
  /\ \A i \in DOMAIN f.toReinsert :
       /\ f.toReinsert[i] \in DOMAIN pages
       /\ pages[f.toReinsert[i]].level < pages[f.page].level
       /\ \A j \in 1 .. i - 1 : pages[f.toReinsert[j]].level < pages[f.toReinsert[i]].level

FrameOK(pages, root, f) ==
  /\ f.fn = "insertData_impl" => ImplOK(pages, root, f)
  /\ f.fn = "chooseSubtree"   => ChooseOK(pages, root, f)
  /\ f.fn = "insertData"      => InsertOK(pages, root, f)
  /\ f.fn = "adjustTree"      => Route(pages, root, f.path, f.page)
  /\ f.fn = "adjustTree2"     => Adjust2OK(pages, root, f)
  /\ f.fn = "condenseTree"    => CondenseOK(pages, root, f)
  /\ f.fn = "deleteNode"      => f.page \in DOMAIN pages

\* Only the running call is on its way through the tree; no reinsertion waits
\* for a condensation.
Waiting(f) == f.fn \in {"insertData_impl", "deleteNode", "return"}

StackOK(pages, root, stack) ==
  /\ stack \in Seq(Frame)
  /\ \A k \in DOMAIN stack : FrameOK(pages, root, stack[k])
  /\ \A k \in DOMAIN stack \ {1} :
       Waiting(stack[k]) /\ (stack[1].fn = "condenseTree" => stack[k].fn = "return")

Sound(pages, root, stack) ==
  /\ TreeOK(pages, root)
  /\ Partition(Own(pages, stack), DOMAIN pages \ {root})
  /\ StackOK(pages, root, stack)

TreeInv == Sound(nodes, m_rootID, work)

------------------------------------------------------------------------------
LEMMA FrameKinds ==
  ASSUME NEW f \in Frame
  PROVE  /\ f.fn = "insertData_impl" => f \in ImplFrames
         /\ f.fn = "chooseSubtree"   => f \in ChooseFrames
         /\ f.fn = "insertData"      => f \in InsertFrames
         /\ f.fn = "adjustTree"      => f \in AdjustFrames
         /\ f.fn = "adjustTree2"     => f \in Adjust2Frames
         /\ f.fn = "condenseTree"    => f \in CondenseFrames
         /\ f.fn = "deleteNode"      => f \in DeleteFrames
         /\ f.fn = "return"          => f \in ReturnFrames
<1>1. /\ f \in ImplFrames => f.fn = "insertData_impl"
      /\ f \in ChooseFrames => f.fn = "chooseSubtree"
      /\ f \in InsertFrames => f.fn = "insertData"
      /\ f \in AdjustFrames => f.fn = "adjustTree"
      /\ f \in Adjust2Frames => f.fn = "adjustTree2"
      /\ f \in CondenseFrames => f.fn = "condenseTree"
      /\ f \in DeleteFrames => f.fn = "deleteNode"
      /\ f \in ReturnFrames => f.fn = "return"
  BY DEF ImplFrames, ChooseFrames, InsertFrames, AdjustFrames, Adjust2Frames, CondenseFrames,
         DeleteFrames, ReturnFrames
<1>2. QED
  BY <1>1 DEF Frame

(***************************************************************************)
(* Some owners stay as they are; the others pass what they own on, and may *)
(* get new pages and lose old ones.                                        *)
(***************************************************************************)
PassesOn(own, P, own2, P2, kept) ==
  /\ kept \subseteq DOMAIN own /\ kept \subseteq DOMAIN own2
  /\ \A x \in kept : own2[x] = own[x]
  /\ \A x \in DOMAIN own2 \ kept : \A c \in own2[x] :
       c \in P2 /\ (c \in P => \E y \in DOMAIN own \ kept : c \in own[y])
  /\ \A x, y \in DOMAIN own2 \ kept : \A c \in own2[x] : c \in own2[y] => x = y
  /\ \A c \in P2 : c \notin P \/ (\E y \in DOMAIN own \ kept : c \in own[y])
                     => \E x \in DOMAIN own2 \ kept : c \in own2[x]
  /\ \A c \in P \ P2 : \E y \in DOMAIN own \ kept : c \in own[y]

LEMMA Redistribute ==
  ASSUME NEW own, NEW P, Partition(own, P), NEW own2, NEW P2, NEW kept,
         PassesOn(own, P, own2, P2, kept)
  PROVE  Partition(own2, P2)
<1> USE DEF PassesOn
<1>1. ASSUME NEW x \in DOMAIN own2, NEW c \in own2[x]
      PROVE  c \in P2
  BY DEF Partition
<1>2. ASSUME NEW x \in DOMAIN own2, NEW y \in DOMAIN own2, NEW c \in own2[x], c \in own2[y]
      PROVE  x = y
  <2>1. CASE x \in kept /\ y \in kept
    BY <1>2, <2>1 DEF Partition
  <2>2. CASE x \in kept /\ y \notin kept
    BY <1>2, <2>2 DEF Partition
  <2>3. CASE x \notin kept /\ y \in kept
    BY <1>2, <2>3 DEF Partition
  <2>4. CASE x \notin kept /\ y \notin kept
    BY <1>2, <2>4
  <2>5. QED
    BY <2>1, <2>2, <2>3, <2>4
<1>3. ASSUME NEW c \in P2
      PROVE  \E x \in DOMAIN own2 : c \in own2[x]
  <2>1. CASE c \in P
    <3>1. PICK x \in DOMAIN own : c \in own[x]
      BY <2>1 DEF Partition
    <3>2. QED
      BY <3>1
  <2>2. QED
    BY <2>1
<1>4. QED
  BY <1>1, <1>2, <1>3 DEF Partition

LEMMA Concatenated ==
  ASSUME NEW T, NEW a \in Seq(T), NEW b \in Seq(T)
  PROVE  /\ a \o b \in Seq(T) /\ Len(a \o b) = Len(a) + Len(b)
         /\ \A i \in 1 .. Len(a) : (a \o b)[i] = a[i]
         /\ \A i \in 1 .. Len(b) : (a \o b)[Len(a) + i] = b[i]
OBVIOUS

\* One of the owners that change, a page or a frame, has page c.
Has(c, pages, changed, frames) ==
  \/ \E p \in changed \cap DOMAIN pages : c \in Children(pages[p])
  \/ \E k \in DOMAIN frames : c \in HeldPages(frames[k])

\* They own nothing in common.
Apart(pages, changed, frames) ==
  /\ \A p, q \in changed \cap DOMAIN pages :
       \A c \in Children(pages[p]) : c \in Children(pages[q]) => p = q
  /\ \A j, k \in DOMAIN frames : \A c \in HeldPages(frames[j]) : c \in HeldPages(frames[k]) => j = k
  /\ \A p \in changed \cap DOMAIN pages, k \in DOMAIN frames :
       \A c \in Children(pages[p]) : c \notin HeldPages(frames[k])

\* The owners of pages when the stack is some frames on top of others.
OnTop(own, pages, top, tail) ==
  /\ DOMAIN own = DOMAIN pages \cup {-k : k \in 1 .. Len(top) + Len(tail)}
  /\ \A p \in DOMAIN pages : own[p] = Children(pages[p])
  /\ \A k \in 1 .. Len(tail) : own[-k] = HeldPages(tail[Len(tail) + 1 - k])
  /\ \A k \in 1 .. Len(top) : own[-(Len(tail) + k)] = HeldPages(top[Len(top) + 1 - k])

LEMMA OwnOnTop ==
  ASSUME NEW top \in Seq(Frame), NEW tail \in Seq(Frame), NEW pages, DOMAIN pages \subseteq Nat
  PROVE  OnTop(Own(pages, top \o tail), pages, top, tail)
<1> DEFINE stack == top \o tail
           own == Own(pages, stack)
<1>1. /\ Len(top) \in Nat /\ Len(tail) \in Nat /\ Len(stack) = Len(top) + Len(tail)
      /\ \A i \in 1 .. Len(top) : stack[i] = top[i]
      /\ \A i \in 1 .. Len(tail) : stack[Len(top) + i] = tail[i]
  BY Concatenated
<1> HIDE DEF stack
<1>2. DOMAIN own = DOMAIN pages \cup {-k : k \in 1 .. Len(top) + Len(tail)}
  BY <1>1 DEF Own, Owners
<1>3. \A p \in DOMAIN pages : own[p] = Children(pages[p])
  BY DEF Own, Owners
<1>4. \A k \in 1 .. Len(stack) : -k \in Owners(pages, stack) /\ -k \notin DOMAIN pages
  BY <1>1 DEF Owners
<1>5. \A k \in 1 .. Len(stack) : own[-k] = HeldPages(stack[Len(stack) + 1 + (-k)])
  BY <1>4 DEF Own
<1>6. ASSUME NEW k \in 1 .. Len(tail)
      PROVE  own[-k] = HeldPages(tail[Len(tail) + 1 - k])
  <2>1. k \in 1 .. Len(stack) /\ Len(tail) + 1 - k \in 1 .. Len(tail)
    BY <1>1
  <2>2. Len(stack) + 1 + (-k) = Len(top) + (Len(tail) + 1 - k)
    BY <1>1
  <2>3. stack[Len(stack) + 1 + (-k)] = tail[Len(tail) + 1 - k]
    BY <1>1, <2>1, <2>2
  <2>4. QED
    BY <1>5, <2>1, <2>3
<1>7. ASSUME NEW k \in 1 .. Len(top)
      PROVE  own[-(Len(tail) + k)] = HeldPages(top[Len(top) + 1 - k])
  <2>1. Len(tail) + k \in 1 .. Len(stack) /\ Len(top) + 1 - k \in 1 .. Len(top)
    BY <1>1
  <2>2. Len(stack) + 1 + (-(Len(tail) + k)) = Len(top) + 1 - k
    BY <1>1
  <2>3. stack[Len(stack) + 1 + (-(Len(tail) + k))] = top[Len(top) + 1 - k]
    BY <1>1, <2>1, <2>2
  <2>4. QED
    BY <1>5, <2>1, <2>3
<1> HIDE DEF own
<1>8. QED
  BY <1>2, <1>3, <1>6, <1>7 DEF own, stack, OnTop

\* The owners that do not change.
Kept(pages, changed, tail) == (DOMAIN pages \ changed) \cup {-k : k \in 1 .. Len(tail)}

\* An owner that changes is one of the pages, or one of the frames on top.
LEMMA ChangingOwner ==
  ASSUME NEW top \in Seq(Frame), NEW tail \in Seq(Frame), NEW pages, DOMAIN pages \subseteq Nat,
         NEW changed, NEW own, OnTop(own, pages, top, tail),
         NEW x \in DOMAIN own \ Kept(pages, changed, tail)
  PROVE  \/ x \in changed \cap DOMAIN pages /\ own[x] = Children(pages[x])
         \/ /\ x \notin DOMAIN pages
            /\ \E k \in DOMAIN top : /\ x = -(Len(tail) + (Len(top) + 1 - k))
                                    /\ own[x] = HeldPages(top[k])
<1> DEFINE n == Len(tail)
           m == Len(top)
<1>1. n \in Nat /\ m \in Nat /\ DOMAIN top = 1 .. m
  OBVIOUS
<1>2. CASE x \in DOMAIN pages
  BY <1>2 DEF OnTop, Kept
<1>3. CASE x \notin DOMAIN pages
  <2>1. PICK k \in 1 .. m + n : x = -k
    BY <1>3 DEF OnTop
  <2>2. k \notin 1 .. n
    BY <2>1 DEF Kept
  <2> DEFINE j == m + 1 - (k - n)
  <2>3. k - n \in 1 .. m
    BY <1>1, <2>1, <2>2
  <2>4. j \in 1 .. m /\ k = n + (k - n) /\ m + 1 - j = k - n
    BY <1>1, <2>1, <2>3
  <2>5. own[-(n + (k - n))] = HeldPages(top[m + 1 - (k - n)])
    BY <2>3 DEF OnTop
  <2>6. x = -(n + (m + 1 - j)) /\ own[x] = HeldPages(top[j])
    <3> HIDE DEF n, m
    <3>1. QED
      BY <2>1, <2>4, <2>5
  <2>7. QED
    BY <1>1, <1>3, <2>4, <2>6
<1>4. QED
  BY <1>2, <1>3

LEMMA HadByOwners ==
  ASSUME NEW top \in Seq(Frame), NEW tail \in Seq(Frame), NEW pages, DOMAIN pages \subseteq Nat,
         NEW changed, NEW own, OnTop(own, pages, top, tail), NEW c
  PROVE  (\E y \in DOMAIN own \ Kept(pages, changed, tail) : c \in own[y])
           <=> Has(c, pages, changed, top)
<1> DEFINE n == Len(tail)
           m == Len(top)
<1>1. n \in Nat /\ m \in Nat /\ DOMAIN top = 1 .. m
  OBVIOUS
<1>2. ASSUME NEW y \in DOMAIN own \ Kept(pages, changed, tail), c \in own[y]
      PROVE  Has(c, pages, changed, top)
  <2>1. \/ y \in changed \cap DOMAIN pages /\ own[y] = Children(pages[y])
        \/ \E k \in DOMAIN top : own[y] = HeldPages(top[k])
    BY ChangingOwner
  <2>2. QED
    BY <1>1, <1>2, <2>1 DEF Has
<1>3. ASSUME NEW p \in changed \cap DOMAIN pages, c \in Children(pages[p])
      PROVE  \E y \in DOMAIN own \ Kept(pages, changed, tail) : c \in own[y]
  <2>1. p \in DOMAIN own /\ own[p] = Children(pages[p])
    BY DEF OnTop
  <2>2. p \notin Kept(pages, changed, tail)
    BY <1>1 DEF Kept
  <2>3. QED
    BY <1>3, <2>1, <2>2
<1>4. ASSUME NEW k \in 1 .. m, c \in HeldPages(top[k])
      PROVE  \E y \in DOMAIN own \ Kept(pages, changed, tail) : c \in own[y]
  <2> DEFINE j == m + 1 - k
  <2>1. j \in 1 .. m /\ m + 1 - j = k
    BY <1>1
  <2>2. own[-(n + j)] = HeldPages(top[m + 1 - j])
    BY <2>1 DEF OnTop
  <2>3. -(n + j) \in DOMAIN own
    <3>1. n + j \in 1 .. m + n
      BY <1>1, <2>1
    <3>2. QED
      BY <3>1 DEF OnTop
  <2>4. -(n + j) \notin Kept(pages, changed, tail)
    BY <1>1, <2>1 DEF Kept
  <2>5. QED
    BY <1>4, <2>1, <2>2, <2>3, <2>4
<1> HIDE DEF n, m
<1>5. ASSUME Has(c, pages, changed, top)
      PROVE  \E y \in DOMAIN own \ Kept(pages, changed, tail) : c \in own[y]
  <2>1. CASE \E p \in changed \cap DOMAIN pages : c \in Children(pages[p])
    BY <1>3, <2>1
  <2>2. CASE \E k \in DOMAIN top : c \in HeldPages(top[k])
    BY <1>1, <1>4, <2>2
  <2>3. QED
    BY <1>5, <2>1, <2>2 DEF Has
<1>6. QED
  BY <1>2, <1>5

LEMMA HadAreOwned ==
  ASSUME NEW top \in Seq(Frame), NEW tail \in Seq(Frame), NEW pages, DOMAIN pages \subseteq Nat,
         NEW P, Partition(Own(pages, top \o tail), P), NEW changed, NEW c, Has(c, pages, changed, top)
  PROVE  c \in P
<1> DEFINE own == Own(pages, top \o tail)
<1>1. OnTop(own, pages, top, tail)
  BY OwnOnTop
<1>2. Partition(own, P)
  OBVIOUS
<1> HIDE DEF own
<1> DEFINE kept == Kept(pages, changed, tail)
<1>3. \A d : (\E y \in DOMAIN own \ kept : d \in own[y]) <=> Has(d, pages, changed, top)
  BY <1>1, HadByOwners
<1> HIDE DEF kept
<1>4. QED
  BY <1>2, <1>3 DEF Partition

(***************************************************************************)
(* A step that changes some pages, and the frames on top of the stack.     *)
(***************************************************************************)
LEMMA Rearrange ==
  ASSUME NEW old \in Seq(Frame), NEW new \in Seq(Frame), NEW tail \in Seq(Frame),
         NEW pages, DOMAIN pages \subseteq Nat, NEW pages2, DOMAIN pages2 \subseteq Nat,
         NEW root, Partition(Own(pages, old \o tail), DOMAIN pages \ {root}),
         NEW changed,
         \A p \in Nat \ changed : p \in DOMAIN pages <=> p \in DOMAIN pages2,
         \A p \in DOMAIN pages \ changed : Children(pages2[p]) = Children(pages[p]),
         Apart(pages2, changed, new),
         \A c : Has(c, pages2, changed, new) =>
           /\ c \in DOMAIN pages2 /\ c # root
           /\ c \in DOMAIN pages => Has(c, pages, changed, old),
         \A c \in DOMAIN pages2 :
           c # root /\ (c \notin DOMAIN pages \/ Has(c, pages, changed, old))
             => Has(c, pages2, changed, new),
         \A c \in DOMAIN pages \ DOMAIN pages2 : c # root => Has(c, pages, changed, old)
  PROVE  Partition(Own(pages2, new \o tail), DOMAIN pages2 \ {root})
<1> DEFINE own  == Own(pages, old \o tail)
           own2 == Own(pages2, new \o tail)
           kept == Kept(pages, changed, tail)
           P  == DOMAIN pages \ {root}
           P2 == DOMAIN pages2 \ {root}
<1>1. OnTop(own, pages, old, tail) /\ OnTop(own2, pages2, new, tail)
  BY OwnOnTop
<1>2. Partition(own, P)
  OBVIOUS
<1> HIDE DEF own, own2
<1>3. kept = Kept(pages2, changed, tail)
  BY DEF Kept
<1>4. \A c : (\E y \in DOMAIN own \ kept : c \in own[y]) <=> Has(c, pages, changed, old)
  BY <1>1, HadByOwners
<1>5. \A c : (\E y \in DOMAIN own2 \ kept : c \in own2[y]) <=> Has(c, pages2, changed, new)
  BY <1>1, <1>3, HadByOwners
<1>6. kept \subseteq DOMAIN own /\ kept \subseteq DOMAIN own2 /\ \A x \in kept : own2[x] = own[x]
  <2>1. Len(tail) \in Nat /\ Len(old) \in Nat /\ Len(new) \in Nat
    OBVIOUS
  <2>2. \A k \in 1 .. Len(tail) : -k \in DOMAIN own /\ -k \in DOMAIN own2 /\ own2[-k] = own[-k]
    <3>1. \A k \in 1 .. Len(tail) : k \in 1 .. Len(old) + Len(tail) /\ k \in 1 .. Len(new) + Len(tail)
      BY <2>1
    <3>2. \A k \in 1 .. Len(tail) : own2[-k] = own[-k]
      BY <1>1 DEF OnTop
    <3>3. \A k \in 1 .. Len(tail) : -k \in DOMAIN own /\ -k \in DOMAIN own2
      BY <1>1, <3>1 DEF OnTop
    <3>4. QED
      BY <3>2, <3>3
  <2>3. \A p \in DOMAIN pages \ changed : p \in DOMAIN own /\ p \in DOMAIN own2 /\ own2[p] = own[p]
    BY <1>1 DEF OnTop
  <2>4. QED
    BY <2>2, <2>3 DEF Kept
<1>7. ASSUME NEW x \in DOMAIN own2 \ kept, NEW y \in DOMAIN own2 \ kept,
             NEW c \in own2[x], c \in own2[y]
      PROVE  x = y
  <2>1. \/ x \in changed \cap DOMAIN pages2 /\ own2[x] = Children(pages2[x])
        \/ \E k \in DOMAIN new : /\ x = -(Len(tail) + (Len(new) + 1 - k))
                                 /\ own2[x] = HeldPages(new[k])
    BY <1>1, <1>3, ChangingOwner
  <2>2. \/ y \in changed \cap DOMAIN pages2 /\ own2[y] = Children(pages2[y])
        \/ \E k \in DOMAIN new : /\ y = -(Len(tail) + (Len(new) + 1 - k))
                                 /\ own2[y] = HeldPages(new[k])
    BY <1>1, <1>3, ChangingOwner
  <2>3. QED
    BY <1>7, <2>1, <2>2 DEF Apart
<1> HIDE DEF kept
<1>8. \A x \in DOMAIN own2 \ kept : \A c \in own2[x] :
        c \in P2 /\ (c \in P => \E y \in DOMAIN own \ kept : c \in own[y])
  BY <1>4, <1>5
<1>9. \A c \in P2 : c \notin P \/ (\E y \in DOMAIN own \ kept : c \in own[y])
                       => \E x \in DOMAIN own2 \ kept : c \in own2[x]
  BY <1>4, <1>5
<1>10. \A c \in P \ P2 : \E y \in DOMAIN own \ kept : c \in own[y]
  BY <1>4
<1> HIDE DEF P, P2
<1>11. PassesOn(own, P, own2, P2, kept)
  BY <1>6, <1>7, <1>8, <1>9, <1>10 DEF PassesOn
<1>12. Partition(own2, P2)
  BY <1>2, <1>11, Redistribute
<1>13. QED
  BY <1>12 DEF own2, P2

------------------------------------------------------------------------------
(***************************************************************************)
(* The stack.                                                              *)
(***************************************************************************)
LEMMA TopOf ==
  ASSUME NEW pages, NEW root, NEW stack, StackOK(pages, root, stack), stack # <<>>
  PROVE  /\ stack = <<stack[1]>> \o Tail(stack)
         /\ stack[1] \in Frame /\ <<stack[1]>> \in Seq(Frame) /\ Tail(stack) \in Seq(Frame)
         /\ FrameOK(pages, root, stack[1])
         /\ \A k \in DOMAIN Tail(stack) :
              /\ Tail(stack)[k] \in Frame
              /\ FrameOK(pages, root, Tail(stack)[k])
              /\ Waiting(Tail(stack)[k])
              /\ stack[1].fn = "condenseTree" => Tail(stack)[k].fn = "return"
<1> DEFINE tail == Tail(stack)
<1>1. stack \in Seq(Frame) /\ Len(stack) \in Nat /\ Len(stack) >= 1 /\ DOMAIN stack = 1 .. Len(stack)
  BY DEF StackOK
<1>2. /\ tail \in Seq(Frame) /\ Len(tail) = Len(stack) - 1 /\ DOMAIN tail = 1 .. Len(tail)
      /\ \A k \in 1 .. Len(tail) : tail[k] = stack[k + 1]
  BY <1>1
<1>3. stack = <<stack[1]>> \o tail /\ stack[1] \in Frame /\ <<stack[1]>> \in Seq(Frame)
  BY <1>1
<1>4. FrameOK(pages, root, stack[1])
  BY <1>1 DEF StackOK
<1>5. ASSUME NEW k \in DOMAIN tail
      PROVE  /\ tail[k] \in Frame /\ FrameOK(pages, root, tail[k]) /\ Waiting(tail[k])
             /\ stack[1].fn = "condenseTree" => tail[k].fn = "return"
  <2>1. k + 1 \in DOMAIN stack /\ k + 1 # 1 /\ tail[k] = stack[k + 1]
    BY <1>1, <1>2
  <2> HIDE DEF tail
  <2>2. QED
    BY <1>1, <2>1 DEF StackOK
<1>6. QED
  BY <1>2, <1>3, <1>4, <1>5

LEMMA PutOnTop ==
  ASSUME NEW pages, NEW root, NEW new \in Seq(Frame), NEW tail \in Seq(Frame),
         \A k \in DOMAIN new : FrameOK(pages, root, new[k]) /\ (k # 1 => Waiting(new[k])),
         \A k \in DOMAIN tail : FrameOK(pages, root, tail[k]) /\ Waiting(tail[k]),
         new # <<>> /\ new[1].fn = "condenseTree" =>
           /\ \A k \in DOMAIN new \ {1} : new[k].fn = "return"
           /\ \A k \in DOMAIN tail : tail[k].fn = "return"
  PROVE  StackOK(pages, root, new \o tail)
<1> DEFINE m == Len(new)
           n == Len(tail)
           stack == new \o tail
<1>1. /\ m \in Nat /\ n \in Nat /\ DOMAIN new = 1 .. m /\ DOMAIN tail = 1 .. n
      /\ stack \in Seq(Frame) /\ Len(stack) = m + n /\ DOMAIN stack = 1 .. m + n
      /\ \A k \in 1 .. m : stack[k] = new[k]
      /\ \A k \in 1 .. n : stack[m + k] = tail[k]
  BY Concatenated
<1>2. \A k \in 1 .. m + n : k \in 1 .. m \/ (k - m \in 1 .. n /\ k = m + (k - m))
  BY <1>1
<1>3. (new = <<>> <=> m = 0) /\ (m # 0 => 1 \in 1 .. m)
  BY <1>1
<1> HIDE DEF m, n, stack
<1>4. ASSUME NEW k \in 1 .. m + n
      PROVE  \/ k \in DOMAIN new /\ stack[k] = new[k]
             \/ \E j \in DOMAIN tail : stack[k] = tail[j]
  BY <1>1, <1>2
<1>5. \A k \in DOMAIN stack : FrameOK(pages, root, stack[k]) /\ (k # 1 => Waiting(stack[k]))
  BY <1>1, <1>4
<1>6. ASSUME NEW k \in DOMAIN stack \ {1}, stack[1].fn = "condenseTree"
      PROVE  stack[k].fn = "return"
  <2>1. CASE m = 0
    <3>1. 1 \in 1 .. m + n
      BY <1>1, <2>1
    <3>2. PICK j \in DOMAIN tail : stack[1] = tail[j]
      BY <1>1, <1>4, <2>1, <3>1
    <3>3. QED
      BY <1>6, <3>2 DEF Waiting
  <2>2. CASE m # 0
    <3>1. stack[1] = new[1] /\ new # <<>>
      BY <1>1, <1>3, <2>2
    <3>2. new[1].fn = "condenseTree"
      BY <1>6, <3>1
    <3>3. \/ k \in DOMAIN new \ {1} /\ stack[k] = new[k]
          \/ \E j \in DOMAIN tail : stack[k] = tail[j]
      BY <1>1, <1>4
    <3>4. QED
      BY <3>1, <3>2, <3>3
  <2>3. QED
    BY <2>1, <2>2
<1>7. StackOK(pages, root, stack)
  BY <1>1, <1>5, <1>6 DEF StackOK
<1>8. QED
  BY <1>7 DEF stack

\* A call that waits is as good as before if the pages it holds are where they
\* were, and the root no lower.
LEMMA StillWaiting ==
  ASSUME NEW pages, NEW root, NEW f \in Frame, Waiting(f), FrameOK(pages, root, f), NEW pages2,
         pages[root].level \in Nat, pages2[root].level \in Nat,
         pages[root].level <= pages2[root].level,
         \A p \in HeldPages(f) : p \in DOMAIN pages2 /\ pages2[p].level = pages[p].level
  PROVE  FrameOK(pages2, root, f)
<1>1. CASE f.fn = "insertData_impl"
  <2>1. f \in ImplFrames
    BY <1>1, FrameKinds
  <2>2. f.level \in Nat /\ f.level <= pages2[root].level
    BY <1>1, <2>1 DEF ImplFrames, FrameOK, ImplOK
  <2>3. f.level # 0 => HeldPages(f) = {f.entry.id}
    BY <1>1 DEF HeldPages
  <2>4. QED
    BY <1>1, <2>2, <2>3 DEF FrameOK, ImplOK, EntryAt
<1>2. CASE f.fn = "deleteNode"
  BY <1>2 DEF FrameOK, HeldPages
<1>3. CASE f.fn = "return"
  BY <1>3 DEF FrameOK
<1>4. QED
  BY <1>1, <1>2, <1>3 DEF Waiting

------------------------------------------------------------------------------
(***************************************************************************)
(* What a partition means for pages and calls.                             *)
(***************************************************************************)
Holds(frames, c) == \E k \in DOMAIN frames : c \in HeldPages(frames[k])

OwnedOnce(pages, root, f, tail) ==
  /\ \A p \in DOMAIN pages : \A c \in Children(pages[p]) :
       /\ c \in DOMAIN pages /\ c # root /\ c \notin HeldPages(f) /\ ~Holds(tail, c)
       /\ \A q \in DOMAIN pages : c \in Children(pages[q]) => p = q
  /\ \A c \in HeldPages(f) : c \in DOMAIN pages /\ c # root /\ ~Holds(tail, c)
  /\ \A j \in DOMAIN tail : \A c \in HeldPages(tail[j]) :
       /\ c \in DOMAIN pages /\ c # root
       /\ \A k \in DOMAIN tail : c \in HeldPages(tail[k]) => j = k
  /\ \A c \in DOMAIN pages \ {root} :
       (\E p \in DOMAIN pages : c \in Children(pages[p])) \/ c \in HeldPages(f) \/ Holds(tail, c)

LEMMA Owners1 ==
  ASSUME NEW f \in Frame, NEW tail \in Seq(Frame), NEW pages, DOMAIN pages \subseteq Nat, NEW root,
         Partition(Own(pages, <<f>> \o tail), DOMAIN pages \ {root})
  PROVE  OwnedOnce(pages, root, f, tail)
<1> DEFINE n == Len(tail)
           own == Own(pages, <<f>> \o tail)
<1>1. OnTop(own, pages, <<f>>, tail)
  <2>1. <<f>> \in Seq(Frame)
    OBVIOUS
  <2>2. QED
    BY <2>1, OwnOnTop
<1>2. n \in Nat /\ DOMAIN tail = 1 .. n /\ Len(<<f>>) = 1 /\ <<f>>[1] = f
  OBVIOUS
<1>3. /\ DOMAIN own = DOMAIN pages \cup {-k : k \in 1 .. 1 + n}
      /\ \A p \in DOMAIN pages : own[p] = Children(pages[p])
      /\ \A k \in 1 .. n : own[-k] = HeldPages(tail[n + 1 - k])
      /\ own[-(n + 1)] = HeldPages(f)
  BY <1>1, <1>2 DEF OnTop
<1>4. Partition(own, DOMAIN pages \ {root})
  OBVIOUS
<1> HIDE DEF own
<1>5. \A k \in 1 .. n : /\ -(n + 1 - k) \in DOMAIN own /\ own[-(n + 1 - k)] = HeldPages(tail[k])
                        /\ -(n + 1 - k) \notin DOMAIN pages /\ -(n + 1 - k) # -(n + 1)
  <2>1. \A k \in 1 .. n : /\ n + 1 - k \in 1 .. n /\ n + 1 - (n + 1 - k) = k
                          /\ n + 1 - k \in 1 .. 1 + n /\ -(n + 1 - k) \notin Nat
                          /\ -(n + 1 - k) # -(n + 1)
    BY <1>2
  <2> HIDE DEF n
  <2>2. QED
    BY <1>3, <2>1
<1>6. -(n + 1) \in DOMAIN own /\ -(n + 1) \notin DOMAIN pages
  <2>1. n + 1 \in 1 .. 1 + n /\ -(n + 1) \notin Nat
    BY <1>2
  <2> HIDE DEF n
  <2>2. QED
    BY <1>3, <2>1
<1>7. \A j, k \in 1 .. n : -(n + 1 - j) = -(n + 1 - k) => j = k
  BY <1>2
<1>8. \A p \in DOMAIN pages : p \in DOMAIN own
  BY <1>3
<1>9. \A x \in DOMAIN own : \/ x \in DOMAIN pages
                            \/ x = -(n + 1)
                            \/ \E k \in 1 .. n : x = -(n + 1 - k)
  <2>1. \A k \in 1 .. 1 + n : k = n + 1 \/ (n + 1 - k \in 1 .. n /\ k = n + 1 - (n + 1 - k))
    BY <1>2
  <2> HIDE DEF n
  <2>2. QED
    BY <1>3, <2>1
<1> HIDE DEF n
<1>10. ASSUME NEW p \in DOMAIN pages, NEW c \in Children(pages[p])
       PROVE  /\ c \in DOMAIN pages /\ c # root /\ c \notin HeldPages(f) /\ ~Holds(tail, c)
              /\ \A q \in DOMAIN pages : c \in Children(pages[q]) => p = q
  <2>1. c \in own[p] /\ p \in DOMAIN own
    BY <1>3, <1>8
  <2>2. c \in DOMAIN pages /\ c # root
    BY <1>4, <2>1 DEF Partition
  <2>3. \A x \in DOMAIN own : c \in own[x] => x = p
    BY <1>4, <2>1 DEF Partition
  <2>4. c \notin HeldPages(f)
    BY <1>3, <1>6, <2>3
  <2>5. ~Holds(tail, c)
    BY <1>2, <1>5, <2>3 DEF Holds
  <2>6. \A q \in DOMAIN pages : c \in Children(pages[q]) => p = q
    BY <1>3, <1>8, <2>3
  <2>7. QED
    BY <2>2, <2>4, <2>5, <2>6
<1>11. ASSUME NEW c \in HeldPages(f)
       PROVE  c \in DOMAIN pages /\ c # root /\ ~Holds(tail, c)
  <2>1. c \in DOMAIN pages /\ c # root
    BY <1>3, <1>4, <1>6 DEF Partition
  <2>2. \A x \in DOMAIN own : c \in own[x] => x = -(n + 1)
    BY <1>3, <1>4, <1>6 DEF Partition
  <2>3. QED
    BY <1>2, <1>5, <2>1, <2>2 DEF Holds
<1>12. ASSUME NEW j \in DOMAIN tail, NEW c \in HeldPages(tail[j])
       PROVE  /\ c \in DOMAIN pages /\ c # root
              /\ \A k \in DOMAIN tail : c \in HeldPages(tail[k]) => j = k
  <2>1. c \in own[-(n + 1 - j)] /\ -(n + 1 - j) \in DOMAIN own
    BY <1>2, <1>5
  <2>2. c \in DOMAIN pages /\ c # root
    BY <1>4, <2>1 DEF Partition
  <2>3. \A x \in DOMAIN own : c \in own[x] => x = -(n + 1 - j)
    BY <1>4, <2>1 DEF Partition
  <2>4. QED
    BY <1>2, <1>5, <1>7, <2>2, <2>3
<1>13. ASSUME NEW c \in DOMAIN pages \ {root}
       PROVE  (\E p \in DOMAIN pages : c \in Children(pages[p])) \/ c \in HeldPages(f) \/ Holds(tail, c)
  <2>1. PICK x \in DOMAIN own : c \in own[x]
    BY <1>4 DEF Partition
  <2>2. CASE x \in DOMAIN pages
    BY <1>3, <2>1, <2>2
  <2>3. CASE x = -(n + 1)
    BY <1>3, <2>1, <2>3
  <2>4. CASE \E k \in 1 .. n : x = -(n + 1 - k)
    BY <1>2, <1>5, <2>1, <2>4 DEF Holds
  <2>5. QED
    BY <1>9, <2>2, <2>3, <2>4
<1>14. QED
  BY <1>10, <1>11, <1>12, <1>13 DEF OwnedOnce

(***************************************************************************)
(* A step that changes one page at most, in which that page and the calls  *)
(* on top keep between them what they had.                                 *)
(***************************************************************************)
Disjoint(frames) ==
  \A j, k \in DOMAIN frames : \A c \in HeldPages(frames[j]) : c \in HeldPages(frames[k]) => j = k

\* The pages differ in p, which now has the given node.
OnlyAt(p, node, pages, pages2) ==
  /\ DOMAIN pages2 = DOMAIN pages
  /\ pages2[p] = node
  /\ \A q \in DOMAIN pages \ {p} : pages2[q] = pages[q]

SamePages(pages, old, p, node, new) ==
  /\ Disjoint(new)
  /\ \A c \in Children(node) : ~Holds(new, c)
  /\ \A c : c \in Children(node) \/ Holds(new, c) <=> c \in Children(pages[p]) \/ Holds(old, c)

LEMMA OnePageChanges ==
  ASSUME NEW old \in Seq(Frame), NEW new \in Seq(Frame), NEW tail \in Seq(Frame),
         NEW pages, DOMAIN pages \subseteq Nat, NEW root,
         Partition(Own(pages, old \o tail), DOMAIN pages \ {root}),
         NEW p \in DOMAIN pages, NEW node, SamePages(pages, old, p, node, new),
         NEW pages2, OnlyAt(p, node, pages, pages2)
  PROVE  Partition(Own(pages2, new \o tail), DOMAIN pages2 \ {root})
<1>1. DOMAIN pages2 = DOMAIN pages /\ pages2[p] = node
      /\ \A q \in DOMAIN pages \ {p} : pages2[q] = pages[q]
  BY DEF OnlyAt
<1>2. \A c : Has(c, pages2, {p}, new) <=> c \in Children(node) \/ Holds(new, c)
  BY <1>1 DEF Has, Holds
<1>3. \A c : Has(c, pages, {p}, old) <=> c \in Children(pages[p]) \/ Holds(old, c)
  BY DEF Has, Holds
<1>4. Apart(pages2, {p}, new)
  BY <1>1 DEF Apart, SamePages, Disjoint, Holds
<1>5. \A c : Has(c, pages2, {p}, new) <=> Has(c, pages, {p}, old)
  BY <1>2, <1>3 DEF SamePages
<1>6. \A c : Has(c, pages, {p}, old) => c \in DOMAIN pages \ {root}
  BY HadAreOwned
<1>7. QED
  BY <1>1, <1>4, <1>5, <1>6, Rearrange

(***************************************************************************)
(* A step that changes one page at most leaves every page where it was.    *)
(***************************************************************************)
SameLevels(pages, pages2) ==
  \A p \in DOMAIN pages : p \in DOMAIN pages2 /\ pages2[p].level = pages[p].level

LEMMA StillFits ==
  ASSUME NEW pages, NEW pages2, SameLevels(pages, pages2), NEW node, FitsIn(pages, node)
  PROVE  FitsIn(pages2, node)
BY DEF SameLevels, FitsIn

LEMMA PageChanged ==
  ASSUME NEW pages, NEW root, TreeOK(pages, root), NEW p \in DOMAIN pages, NEW node,
         FitsIn(pages, node), node.level = pages[p].level,
         NEW pages2, OnlyAt(p, node, pages, pages2)
  PROVE  TreeOK(pages2, root) /\ DOMAIN pages2 = DOMAIN pages /\ SameLevels(pages, pages2)
<1>1. /\ DOMAIN pages2 = DOMAIN pages /\ pages2[p] = node
      /\ \A q \in DOMAIN pages \ {p} : pages2[q] = pages[q]
  BY DEF OnlyAt
<1>2. SameLevels(pages, pages2)
  BY <1>1 DEF SameLevels
<1>3. \A q \in DOMAIN pages : FitsIn(pages2, pages2[q])
  <2>1. \A q \in DOMAIN pages : FitsIn(pages, pages2[q])
    BY <1>1 DEF TreeOK
  <2>2. QED
    BY <1>2, <2>1, StillFits
<1>4. QED
  BY <1>1, <1>2, <1>3 DEF TreeOK, SameLevels

LEMMA NodesTyped ==
  ASSUME NEW pages, NEW root, TreeOK(pages, root), NEW p \in DOMAIN pages
  PROVE  /\ p \in Nat /\ pages[p] \in Nodes /\ pages[p].level \in Nat /\ pages[p].kids \in Seq(Entry)
         /\ pages[p].mbr \in Regions
         /\ FitsIn(pages, pages[p]) /\ pages[p].level <= pages[root].level
BY DEF TreeOK, FitsIn, Nodes

LEMMA SameRoute ==
  ASSUME NEW pages, NEW pages2, SameLevels(pages, pages2), NEW root \in DOMAIN pages, NEW path,
         NEW page, Route(pages, root, path, page)
  PROVE  Route(pages2, root, path, page)
BY DEF SameLevels, Route

LEMMA StillWaitingAll ==
  ASSUME NEW pages, NEW root, TreeOK(pages, root), NEW pages2, SameLevels(pages, pages2),
         NEW f \in Frame, NEW tail \in Seq(Frame), OwnedOnce(pages, root, f, tail),
         \A k \in DOMAIN tail : FrameOK(pages, root, tail[k]) /\ Waiting(tail[k])
  PROVE  \A k \in DOMAIN tail : FrameOK(pages2, root, tail[k]) /\ Waiting(tail[k])
<1>1. /\ root \in DOMAIN pages /\ pages[root].level \in Nat
      /\ pages2[root].level = pages[root].level /\ pages2[root].level \in Nat
  BY NodesTyped DEF TreeOK, SameLevels
<1>2. pages[root].level <= pages2[root].level
  BY <1>1
<1>3. ASSUME NEW k \in DOMAIN tail
      PROVE  FrameOK(pages2, root, tail[k])
  <2>1. tail[k] \in Frame /\ FrameOK(pages, root, tail[k]) /\ Waiting(tail[k])
    OBVIOUS
  <2>2. \A p \in HeldPages(tail[k]) : p \in DOMAIN pages2 /\ pages2[p].level = pages[p].level
    BY DEF OwnedOnce, SameLevels
  <2>3. QED
    BY <1>1, <1>2, <2>1, <2>2, StillWaiting
<1>4. QED
  BY <1>3

(***************************************************************************)
(* A step of the running call f that changes one page at most.             *)
(***************************************************************************)
LEMMA OnePageStep ==
  ASSUME NEW pages, NEW root, NEW stack, Sound(pages, root, stack), stack # <<>>,
         NEW p \in DOMAIN pages, NEW node, FitsIn(pages, node), node.level = pages[p].level,
         NEW pages2, OnlyAt(p, node, pages, pages2),
         NEW new \in Seq(Frame), SamePages(pages, <<stack[1]>>, p, node, new),
         \A k \in DOMAIN new : FrameOK(pages2, root, new[k]) /\ (k # 1 => Waiting(new[k])),
         new # <<>> /\ new[1].fn = "condenseTree" => Len(new) = 1 /\ stack[1].fn = "condenseTree"
  PROVE  Sound(pages2, root, new \o Tail(stack))
<1> DEFINE f == stack[1]
           tail == Tail(stack)
<1>1. TreeOK(pages, root) /\ StackOK(pages, root, stack) /\ DOMAIN pages \subseteq Nat
  BY DEF Sound, TreeOK
<1>2. /\ stack = <<f>> \o tail /\ f \in Frame /\ <<f>> \in Seq(Frame) /\ tail \in Seq(Frame)
      /\ \A k \in DOMAIN tail : FrameOK(pages, root, tail[k]) /\ Waiting(tail[k])
      /\ f.fn = "condenseTree" => \A k \in DOMAIN tail : tail[k].fn = "return"
  BY <1>1, TopOf
<1> HIDE DEF tail, f
<1>3. Partition(Own(pages, <<f>> \o tail), DOMAIN pages \ {root})
  BY <1>2 DEF Sound
<1>4. OwnedOnce(pages, root, f, tail)
  BY <1>1, <1>2, <1>3, Owners1
<1>5. TreeOK(pages2, root) /\ DOMAIN pages2 = DOMAIN pages /\ SameLevels(pages, pages2)
  BY <1>1, PageChanged
<1>6. SamePages(pages, <<f>>, p, node, new)
  BY DEF f
<1>7. Partition(Own(pages2, new \o tail), DOMAIN pages2 \ {root})
  BY <1>1, <1>2, <1>3, <1>6, OnePageChanges
<1>8. \A k \in DOMAIN tail : FrameOK(pages2, root, tail[k]) /\ Waiting(tail[k])
  BY <1>1, <1>2, <1>4, <1>5, StillWaitingAll
<1>9. StackOK(pages2, root, new \o tail)
  <2>1. new # <<>> /\ new[1].fn = "condenseTree" =>
          /\ \A k \in DOMAIN new \ {1} : new[k].fn = "return"
          /\ \A k \in DOMAIN tail : tail[k].fn = "return"
    BY <1>2 DEF f
  <2>2. QED
    BY <1>2, <1>8, <2>1, PutOnTop
<1>10. QED
  BY <1>5, <1>7, <1>9 DEF Sound, tail

LEMMA NoPageStep ==
  ASSUME NEW pages, NEW root, NEW stack, Sound(pages, root, stack), stack # <<>>,
         NEW new \in Seq(Frame), Disjoint(new), \A c : Holds(new, c) <=> c \in HeldPages(stack[1]),
         \A k \in DOMAIN new : FrameOK(pages, root, new[k]) /\ (k # 1 => Waiting(new[k])),
         new # <<>> => new[1].fn # "condenseTree"
  PROVE  Sound(pages, root, new \o Tail(stack))
<1> DEFINE f == stack[1]
           node == pages[root]
<1>1. TreeOK(pages, root) /\ StackOK(pages, root, stack)
  BY DEF Sound
<1>2. /\ root \in DOMAIN pages /\ FitsIn(pages, node) /\ DOMAIN pages \subseteq Nat
  BY <1>1, NodesTyped DEF TreeOK
<1>3. OnlyAt(root, node, pages, pages)
  BY DEF OnlyAt
<1>4. /\ stack = <<f>> \o Tail(stack) /\ f \in Frame /\ Tail(stack) \in Seq(Frame)
  BY <1>1, TopOf
<1>5. OwnedOnce(pages, root, f, Tail(stack))
  BY <1>2, <1>4, Owners1 DEF Sound
<1>6. \A c \in Children(node) : c \notin HeldPages(f)
  BY <1>2, <1>5 DEF OwnedOnce
<1>7. \A c : Holds(<<f>>, c) <=> c \in HeldPages(f)
  BY DEF Holds
<1>8. SamePages(pages, <<stack[1]>>, root, node, new)
  BY <1>6, <1>7 DEF SamePages
<1>9. QED
  BY <1>2, <1>3, <1>8, OnePageStep

------------------------------------------------------------------------------
(***************************************************************************)
(* The frames.                                                             *)
(***************************************************************************)
LEMMA ChooseFrameOf ==
  ASSUME NEW page \in Nat, NEW entry \in Entry, NEW level \in Nat, NEW path \in Path
  PROVE  /\ ChooseFrame(page, entry, level, path) \in Frame
         /\ \A c : c \in HeldPages(ChooseFrame(page, entry, level, path)) <=> level # 0 /\ c = entry.id
<1>1. ChooseFrame(page, entry, level, path) \in ChooseFrames
  BY DEF ChooseFrame, ChooseFrames
<1>2. QED
  BY <1>1 DEF Frame, HeldPages, ChooseFrame

LEMMA InsertFrameOf ==
  ASSUME NEW page \in Nat, NEW node \in Nodes, NEW entry \in Entry, NEW path \in Path,
         NEW recomputed \in BOOLEAN
  PROVE  /\ InsertFrame(page, node, entry, path, recomputed) \in Frame
         /\ \A c : c \in HeldPages(InsertFrame(page, node, entry, path, recomputed))
                     <=> node.level # 0 /\ c = entry.id
<1>1. InsertFrame(page, node, entry, path, recomputed) \in InsertFrames
  BY DEF InsertFrame, InsertFrames
<1>2. QED
  BY <1>1 DEF Frame, HeldPages, InsertFrame

LEMMA ImplFrameOf ==
  ASSUME NEW entry \in Entry, NEW level \in Nat, NEW fresh \in BOOLEAN
  PROVE  /\ InsertAtLevel(entry, level, fresh) \in Frame
         /\ Waiting(InsertAtLevel(entry, level, fresh))
         /\ \A c : c \in HeldPages(InsertAtLevel(entry, level, fresh)) <=> level # 0 /\ c = entry.id
<1>1. InsertAtLevel(entry, level, fresh) \in ImplFrames
  BY DEF InsertAtLevel, ImplFrames
<1>2. QED
  BY <1>1 DEF Frame, HeldPages, InsertAtLevel, Waiting

LEMMA CondenseFrameOf ==
  ASSUME NEW page \in Nat, NEW path \in Path, NEW toReinsert \in Seq(Nat)
  PROVE  /\ CondenseFrame(page, path, toReinsert) \in Frame
         /\ \A c : c \in HeldPages(CondenseFrame(page, path, toReinsert))
                     <=> \E i \in DOMAIN toReinsert : c = toReinsert[i]
<1>1. CondenseFrame(page, path, toReinsert) \in CondenseFrames
  BY DEF CondenseFrame, CondenseFrames
<1>2. QED
  BY <1>1 DEF Frame, HeldPages, CondenseFrame

LEMMA PathFront ==
  ASSUME NEW path \in Path, path # <<>>
  PROVE  /\ Last(path) \in Nat /\ Front(path) \in Path /\ Len(path) \in Nat /\ Len(path) >= 1
         /\ Len(Front(path)) = Len(path) - 1 /\ Last(path) = path[Len(path)]
         /\ \A i \in 1 .. Len(path) - 1 : Front(path)[i] = path[i]
<1>1. path \in Seq(Nat) /\ Len(path) \in Nat
  BY DEF Path
<1>2. /\ Front(path) \in Seq(Nat) /\ Len(Front(path)) = Len(path) - 1
      /\ \A i \in 1 .. Len(path) - 1 : Front(path)[i] = path[i]
      /\ Last(path) = path[Len(path)] /\ Len(path) >= 1 /\ Last(path) \in Nat
  BY <1>1, FrontOf
<1>3. QED
  BY <1>1, <1>2 DEF Path

LEMMA RouteUp ==
  ASSUME NEW pages, NEW root, TreeOK(pages, root), NEW page, NEW path \in Path, path # <<>>,
         Route(pages, root, path, page)
  PROVE  /\ Last(path) \in DOMAIN pages /\ Last(path) \in Nat /\ Front(path) \in Path
         /\ page \in DOMAIN pages /\ pages[Last(path)].level = pages[page].level + 1
         /\ Route(pages, root, Front(path), Last(path))
<1> DEFINE m == Len(path)
           parent == Last(path)
           rest == Front(path)
<1>1. /\ parent \in Nat /\ rest \in Path /\ m \in Nat /\ m >= 1
      /\ Len(rest) = m - 1 /\ parent = path[m]
      /\ \A i \in 1 .. m - 1 : rest[i] = path[i]
  BY PathFront
<1> HIDE DEF m, parent, rest
<1>2. /\ page \in DOMAIN pages /\ pages[page].level = pages[root].level - m
      /\ \A i \in 1 .. m : path[i] \in DOMAIN pages /\ pages[path[i]].level = pages[root].level + 1 - i
      /\ path[1] = root
  BY DEF Route, m
<1>3. root \in DOMAIN pages /\ pages[root].level \in Nat
  BY NodesTyped DEF TreeOK
<1>4. m \in 1 .. m /\ 1 .. m - 1 \subseteq 1 .. m
  BY <1>1
<1>5. parent \in DOMAIN pages /\ pages[parent].level = pages[root].level + 1 - m
  BY <1>1, <1>2, <1>4
<1>6. /\ \A x \in Nat : x + 1 - m = x - m + 1 /\ x + 1 - m = x - (m - 1)
  BY <1>1
<1>7. (IF rest = <<>> THEN parent ELSE rest[1]) = root
  <2>1. CASE m = 1
    <3>1. rest = <<>>
      BY <1>1, <2>1 DEF Path
    <3>2. QED
      BY <1>1, <1>2, <2>1, <3>1
  <2>2. CASE m > 1
    <3>1. 1 \in 1 .. m - 1 /\ Len(rest) # 0
      BY <1>1, <2>2
    <3>2. rest # <<>> /\ rest[1] = path[1]
      BY <1>1, <3>1
    <3>3. QED
      BY <1>2, <3>2
  <2>3. QED
    BY <1>1, <2>1, <2>2
<1>8. Route(pages, root, rest, parent)
  BY <1>1, <1>2, <1>3, <1>4, <1>5, <1>6, <1>7 DEF Route
<1>9. QED
  BY <1>1, <1>2, <1>3, <1>5, <1>6, <1>8 DEF parent, rest

\* The parent's frame, on the way up.
LEMMA AdjustParentOf ==
  ASSUME NEW pages, NEW root, TreeOK(pages, root), NEW page \in Nat, NEW mbr \in Regions,
         NEW path \in Path, Route(pages, root, path, page), NEW force \in BOOLEAN
  PROVE  LET up == AdjustParent(page, mbr, path, force)
         IN  /\ up \in Seq(Frame) /\ Len(up) \in {0, 1} /\ (path # <<>> => Len(up) = 1)
             /\ \A k \in DOMAIN up : /\ up[k].fn = "adjustTree" /\ HeldPages(up[k]) = {}
                                     /\ FrameOK(pages, root, up[k])
<1> DEFINE up == AdjustParent(page, mbr, path, force)
<1>1. CASE path = <<>>
  BY <1>1 DEF AdjustParent
<1>2. CASE path # <<>>
  <2> DEFINE f == [fn |-> "adjustTree", page |-> Last(path), child |-> page, mbr |-> mbr,
                   path |-> Front(path), force |-> force]
  <2>1. up = <<f>>
    BY <1>2 DEF AdjustParent
  <2>2. /\ Last(path) \in Nat /\ Front(path) \in Path /\ Len(path) \in Nat /\ Len(path) >= 1
        /\ Len(Front(path)) = Len(path) - 1 /\ Last(path) = path[Len(path)]
        /\ \A i \in 1 .. Len(path) - 1 : Front(path)[i] = path[i]
    BY <1>2, PathFront
  <2>3. f \in AdjustFrames
    BY <2>2 DEF AdjustFrames
  <2>4. f \in Frame /\ HeldPages(f) = {}
    BY <2>3 DEF Frame, HeldPages
  <2>5. Route(pages, root, Front(path), Last(path))
    BY <1>2, RouteUp
  <2>6. FrameOK(pages, root, f)
    BY <2>5 DEF FrameOK
  <2> HIDE DEF f
  <2>7. f.fn = "adjustTree"
    BY DEF f
  <2>8. QED
    BY <2>1, <2>4, <2>6, <2>7
<1>3. QED
  BY <1>1, <1>2

------------------------------------------------------------------------------
(***************************************************************************)
(* The steps of an insertion that write nothing.                           *)
(***************************************************************************)
LEMMA OneFrame ==
  ASSUME NEW f \in Frame
  PROVE  /\ <<f>> \in Seq(Frame) /\ Disjoint(<<f>>)
         /\ DOMAIN <<f>> = {1} /\ <<f>>[1] = f
         /\ \A c : Holds(<<f>>, c) <=> c \in HeldPages(f)
BY DEF Disjoint, Holds

LEMMA InStep ==
  ASSUME TreeInv, NEW fn, Step(fn)
  PROVE  /\ Sound(nodes, m_rootID, work) /\ TreeOK(nodes, m_rootID) /\ StackOK(nodes, m_rootID, work)
         /\ work # <<>> /\ work[1].fn = fn /\ work[1] \in Frame
         /\ FrameOK(nodes, m_rootID, work[1])
         /\ m_rootID' = m_rootID /\ m_rootID \in DOMAIN nodes /\ m_rootID \in Nat
         /\ nodes[m_rootID].level \in Nat
<1>1. /\ Sound(nodes, m_rootID, work) /\ TreeOK(nodes, m_rootID) /\ StackOK(nodes, m_rootID, work)
      /\ work # <<>> /\ work[1].fn = fn /\ m_rootID' = m_rootID
  BY DEF TreeInv, Sound, Step, Running
<1>2. work[1] \in Frame /\ FrameOK(nodes, m_rootID, work[1])
  BY <1>1, TopOf
<1>3. m_rootID \in DOMAIN nodes /\ m_rootID \in Nat /\ nodes[m_rootID].level \in Nat
  BY <1>1, NodesTyped DEF TreeOK
<1>4. QED
  BY <1>1, <1>2, <1>3

LEMMA RootRoute ==
  ASSUME NEW pages, NEW root \in DOMAIN pages, pages[root].level \in Nat
  PROVE  Route(pages, root, <<>>, root)
BY DEF Route

\* One frame takes the place of the running call's.
LEMMA FrameReplaced ==
  ASSUME TreeInv, work # <<>>, NEW g \in Frame, nodes' = nodes, m_rootID' = m_rootID,
         work' = <<g>> \o Tail(work),
         HeldPages(g) = HeldPages(work[1]), FrameOK(nodes, m_rootID, g), g.fn # "condenseTree"
  PROVE  TreeInv'
<1>1. <<g>> \in Seq(Frame) /\ Disjoint(<<g>>) /\ \A c : Holds(<<g>>, c) <=> c \in HeldPages(work[1])
  BY OneFrame
<1>2. \A k \in DOMAIN <<g>> : FrameOK(nodes, m_rootID, <<g>>[k]) /\ (k # 1 => Waiting(<<g>>[k]))
  BY OneFrame
<1>3. <<g>>[1].fn # "condenseTree"
  OBVIOUS
<1>4. Sound(nodes, m_rootID, <<g>> \o Tail(work))
  BY <1>1, <1>2, <1>3, NoPageStep DEF TreeInv
<1>5. QED
  BY <1>4 DEF TreeInv

LEMMA ReinsertStep ==
  ASSUME TreeInv, Reinsert
  PROVE  TreeInv'
<1> DEFINE f == work[1]
           g == ChooseFrame(m_rootID, f.entry, f.level, <<>>)
<1>1. Step("insertData_impl") /\ nodes' = nodes /\ work' = <<g>> \o Tail(work)
  BY DEF Reinsert, Become
<1>2. f \in ImplFrames /\ ImplOK(nodes, m_rootID, f)
  BY <1>1, InStep, FrameKinds DEF FrameOK
<1>3. f.entry \in Entry /\ f.level \in Nat /\ f.fn = "insertData_impl" /\ <<>> \in Path
  BY <1>2 DEF ImplFrames, Path
<1>4. g \in Frame /\ \A c : c \in HeldPages(g) <=> f.level # 0 /\ c = f.entry.id
  BY <1>1, <1>3, InStep, ChooseFrameOf
<1>5. \A c : c \in HeldPages(f) <=> f.level # 0 /\ c = f.entry.id
  BY <1>3 DEF HeldPages
<1>6. FrameOK(nodes, m_rootID, g)
  <2>1. Route(nodes, m_rootID, <<>>, m_rootID)
    BY <1>1, InStep, RootRoute
  <2>2. QED
    BY <1>2, <2>1 DEF ChooseFrame, FrameOK, ChooseOK, ImplOK
<1>7. g.fn # "condenseTree"
  BY DEF ChooseFrame
<1>8. HeldPages(g) = HeldPages(f)
  BY <1>4, <1>5
<1> HIDE DEF g
<1>9. QED
  BY <1>1, <1>4, <1>6, <1>7, <1>8, InStep, FrameReplaced

LEMMA RouteDown ==
  ASSUME NEW pages, NEW root, TreeOK(pages, root), NEW page, NEW path \in Path,
         Route(pages, root, path, page), NEW c \in DOMAIN pages,
         pages[c].level = pages[page].level - 1
  PROVE  Append(path, page) \in Path /\ Route(pages, root, Append(path, page), c)
<1> DEFINE m == Len(path)
           down == Append(path, page)
<1>1. page \in DOMAIN pages /\ page \in Nat /\ pages[root].level \in Nat
  BY NodesTyped DEF Route, TreeOK
<1>2. /\ m \in Nat /\ down \in Path /\ Len(down) = m + 1 /\ down[m + 1] = page
      /\ \A i \in 1 .. m : down[i] = path[i]
      /\ path = <<>> <=> m = 0
  BY <1>1 DEF Path
<1>3. /\ pages[page].level = pages[root].level - m
      /\ \A i \in 1 .. m : path[i] \in DOMAIN pages /\ pages[path[i]].level = pages[root].level + 1 - i
      /\ (IF path = <<>> THEN page ELSE path[1]) = root
  BY DEF Route
<1> HIDE DEF m, down
<1>4. \A x \in Nat : x - m - 1 = x - (m + 1) /\ x - m = x + 1 - (m + 1)
  BY <1>2
<1>5. \A i \in 1 .. m + 1 : i \in 1 .. m \/ i = m + 1
  BY <1>2
<1>6. \A i \in 1 .. m + 1 : down[i] \in DOMAIN pages /\ pages[down[i]].level = pages[root].level + 1 - i
  BY <1>1, <1>2, <1>3, <1>4, <1>5
<1>7. down # <<>> /\ down[1] = root
  <2>1. CASE m = 0
    BY <1>2, <1>3, <2>1
  <2>2. CASE m # 0
    <3>1. 1 \in 1 .. m
      BY <1>2, <2>2
    <3>2. QED
      BY <1>2, <1>3, <2>2, <3>1
  <2>3. QED
    BY <2>1, <2>2
<1>8. Route(pages, root, down, c)
  BY <1>1, <1>2, <1>3, <1>4, <1>6, <1>7 DEF Route
<1>9. QED
  BY <1>2, <1>8 DEF down

LEMMA ChooseFrameMoved ==
  ASSUME NEW f \in ChooseFrames, NEW x \in Nat, NEW y \in Path
  PROVE  [f EXCEPT !.page = x, !.path = y] = ChooseFrame(x, f.entry, f.level, y)
<1> DEFINE g == [f EXCEPT !.page = x, !.path = y]
<1>1. g \in ChooseFrames /\ g.page = x /\ g.entry = f.entry /\ g.level = f.level /\ g.path = y
  BY DEF ChooseFrames
<1> HIDE DEF g
<1>2. g = [fn |-> "chooseSubtree", page |-> g.page, entry |-> g.entry, level |-> g.level,
           path |-> g.path]
  BY <1>1 DEF ChooseFrames
<1>3. g = ChooseFrame(x, f.entry, f.level, y)
  BY <1>1, <1>2 DEF ChooseFrame
<1>4. QED
  BY <1>3 DEF g

LEMMA DescendStep ==
  ASSUME TreeInv, Descend
  PROVE  TreeInv'
<1> DEFINE f == work[1]
           n == nodes[f.page]
<1>1. Step("chooseSubtree") /\ nodes' = nodes /\ n.level \notin {0, f.level}
  BY Zenon DEF Descend
<1>2. PICK child \in ChosenChildren(n.level, n.kids, f.entry.mbr) :
        work' = <<[f EXCEPT !.page = n.kids[child].id, !.path = Append(@, f.page)]>> \o Tail(work)
  BY Zenon DEF Descend, Become
<1> DEFINE c == n.kids[child].id
           g == [f EXCEPT !.page = c, !.path = Append(@, f.page)]
<1>3. f \in ChooseFrames /\ ChooseOK(nodes, m_rootID, f)
  BY <1>1, InStep, FrameKinds DEF FrameOK
<1>4. /\ f.entry \in Entry /\ f.level \in Nat /\ f.path \in Path /\ f.fn = "chooseSubtree"
      /\ f.page \in DOMAIN nodes /\ Route(nodes, m_rootID, f.path, f.page)
      /\ f.level <= n.level /\ EntryAt(nodes, f.entry, f.level)
  BY <1>3 DEF ChooseFrames, ChooseOK, Route
<1>5. n.kids \in Seq(Entry) /\ n.level \in Nat /\ FitsIn(nodes, n)
  BY <1>1, <1>4, InStep, NodesTyped
<1>6. c \in KidIds(n.kids)
  <2>1. child \in DOMAIN n.kids
    BY <1>5, ChildIsChosen
  <2>2. QED
    BY <2>1 DEF KidIds
<1>7. c \in DOMAIN nodes /\ nodes[c].level = n.level - 1
  BY <1>1, <1>5, <1>6 DEF FitsIn
<1> HIDE DEF c
<1>8. Append(f.path, f.page) \in Path /\ Route(nodes, m_rootID, Append(f.path, f.page), c)
  BY <1>1, <1>4, <1>7, InStep, RouteDown
<1>9. c \in Nat
  BY <1>1, <1>7, InStep, NodesTyped
<1>10. g = ChooseFrame(c, f.entry, f.level, Append(f.path, f.page))
  BY <1>3, <1>8, <1>9, ChooseFrameMoved
<1>11. g \in Frame /\ \A d : d \in HeldPages(g) <=> f.level # 0 /\ d = f.entry.id
  BY <1>4, <1>8, <1>9, <1>10, ChooseFrameOf
<1>12. \A d : d \in HeldPages(f) <=> f.level # 0 /\ d = f.entry.id
  BY <1>4 DEF HeldPages
<1>13. f.level <= nodes[c].level
  BY <1>1, <1>4, <1>5, <1>7
<1> HIDE DEF g
<1>14. FrameOK(nodes, m_rootID, g) /\ g.fn # "condenseTree"
  BY <1>4, <1>8, <1>10, <1>13 DEF ChooseFrame, FrameOK, ChooseOK
<1>15. HeldPages(g) = HeldPages(f)
  BY <1>11, <1>12
<1>16. work' = <<g>> \o Tail(work)
  BY <1>2 DEF g, c
<1>17. QED
  BY <1>1, <1>11, <1>14, <1>15, <1>16, InStep, FrameReplaced

LEMMA ArriveStep ==
  ASSUME TreeInv, Arrive
  PROVE  TreeInv'
<1> DEFINE f == work[1]
           n == nodes[f.page]
           g == InsertFrame(f.page, n, f.entry, f.path, FALSE)
<1>1. Step("chooseSubtree") /\ nodes' = nodes /\ n.level \in {0, f.level} /\ work' = <<g>> \o Tail(work)
  BY DEF Arrive, Become
<1>2. f \in ChooseFrames /\ ChooseOK(nodes, m_rootID, f)
  BY <1>1, InStep, FrameKinds DEF FrameOK
<1>3. /\ f.entry \in Entry /\ f.level \in Nat /\ f.path \in Path /\ f.fn = "chooseSubtree"
      /\ f.page \in DOMAIN nodes /\ Route(nodes, m_rootID, f.path, f.page)
      /\ f.level <= n.level /\ EntryAt(nodes, f.entry, f.level)
  BY <1>2 DEF ChooseFrames, ChooseOK, Route
<1>4. n \in Nodes /\ n.kids \in Seq(Entry) /\ n.level \in Nat /\ f.page \in Nat
  BY <1>1, <1>3, InStep, NodesTyped
<1>5. n.level = f.level
  <2>1. \A x, y \in Nat : x \in {0, y} /\ y <= x => x = y
    OBVIOUS
  <2>2. QED
    BY <1>1, <1>3, <1>4, <2>1
<1>6. g \in Frame /\ \A d : d \in HeldPages(g) <=> n.level # 0 /\ d = f.entry.id
  <2>1. g \in InsertFrames
    BY <1>3, <1>4 DEF InsertFrame, InsertFrames
  <2>2. QED
    BY <2>1 DEF Frame, HeldPages, InsertFrame
<1>7. \A d : d \in HeldPages(f) <=> f.level # 0 /\ d = f.entry.id
  BY <1>3 DEF HeldPages
<1>8. FrameOK(nodes, m_rootID, g) /\ g.fn # "condenseTree"
  BY <1>3, <1>5 DEF InsertFrame, FrameOK, InsertOK, SameIds
<1> HIDE DEF g
<1>9. HeldPages(g) = HeldPages(f)
  BY <1>5, <1>6, <1>7
<1>10. QED
  BY <1>1, <1>6, <1>8, <1>9, InStep, FrameReplaced

------------------------------------------------------------------------------
(***************************************************************************)
(* New versions of a node.                                                 *)
(***************************************************************************)
LEMMA SameIdsSame ==
  ASSUME NEW kids \in Seq(Entry), NEW others \in Seq(Entry), SameIds(kids, others)
  PROVE  /\ KidIds(kids) = KidIds(others) /\ Len(kids) = Len(others)
         /\ DistinctIds(others) => DistinctIds(kids)
<1>1. DOMAIN kids = 1 .. Len(kids) /\ DOMAIN others = 1 .. Len(kids) /\ Len(kids) = Len(others)
  BY DEF SameIds
<1>2. \A i \in DOMAIN kids : kids[i].id = others[i].id
  BY <1>1 DEF SameIds
<1>3. KidIds(kids) = KidIds(others)
  BY <1>1, <1>2 DEF KidIds
<1>4. QED
  BY <1>1, <1>2, <1>3 DEF DistinctIds

LEMMA EntryOf ==
  ASSUME NEW e \in Entry
  PROVE  /\ e.id \in Nat /\ e.mbr \in Regions
         /\ \A mbr \in Regions : [e EXCEPT !.mbr = mbr] \in Entry /\ [e EXCEPT !.mbr = mbr].id = e.id
<1>1. Entry = [id : Nat, mbr : Regions]
  BY DEF Entry, Regions
<1>2. QED
  BY <1>1

LEMMA UpdatedIds ==
  ASSUME NEW kids \in Seq(Entry), NEW child, NEW mbr \in Regions
  PROVE  Updated(kids, child, mbr) \in Seq(Entry) /\ SameIds(Updated(kids, child, mbr), kids)
<1> DEFINE at == PositionOf(kids, child)
           new == [kids EXCEPT ![at].mbr = mbr]
<1>1. DOMAIN kids = 1 .. Len(kids) /\ Len(kids) \in Nat
  OBVIOUS
<1> HIDE DEF at
<1>2. \A i \in DOMAIN kids : new[i] = IF i = at THEN [kids[i] EXCEPT !.mbr = mbr] ELSE kids[i]
  OBVIOUS
<1>3. \A i \in DOMAIN kids : kids[i] \in Entry /\ [kids[i] EXCEPT !.mbr = mbr] \in Entry
                             /\ [kids[i] EXCEPT !.mbr = mbr].id = kids[i].id
  BY <1>1, EntryOf
<1>4. \A i \in DOMAIN kids : new[i] \in Entry /\ new[i].id = kids[i].id
  BY <1>2, <1>3
<1>5. new = [i \in 1 .. Len(kids) |-> new[i]]
  BY <1>1
<1> HIDE DEF new
<1>6. new \in Seq(Entry) /\ Len(new) = Len(kids)
  BY <1>1, <1>4, <1>5
<1>7. QED
  BY <1>1, <1>4, <1>6 DEF new, at, Updated, SameIds

LEMMA NodeBoxType ==
  ASSUME NEW kids \in Seq(Entry)
  PROVE  NodeBox(kids) \in Regions
<1>1. \A k \in 1 .. Len(kids) : kids[k].mbr \in Regions
  BY EntryOf
<1>2. QED
  BY <1>1, NodeBoxIsBox

LEMMA NodeOf ==
  ASSUME NEW level \in Nat, NEW kids \in Seq(Entry)
  PROVE  /\ Node(level, kids) \in Nodes /\ Node(level, kids).level = level
         /\ Node(level, kids).kids = kids /\ Node(level, kids).mbr \in Regions
<1>1. NodeBox(kids) \in Regions
  BY NodeBoxType
<1>2. QED
  BY <1>1 DEF Node, Nodes

LEMMA AdjustedNode ==
  ASSUME NEW pages, NEW n, FitsIn(pages, n), NEW kids \in Seq(Entry), SameIds(kids, n.kids),
         NEW recompute \in BOOLEAN
  PROVE  /\ FitsIn(pages, Adjusted(n, kids, recompute))
         /\ Adjusted(n, kids, recompute).level = n.level
         /\ Adjusted(n, kids, recompute).kids = kids
         /\ Adjusted(n, kids, recompute).mbr \in Regions
         /\ Adjusted(n, kids, recompute) \in Nodes
         /\ Children(Adjusted(n, kids, recompute)) = Children(n)
<1> DEFINE mbr == IF recompute THEN NodeBox(kids) ELSE n.mbr
           m == [n EXCEPT !.kids = kids, !.mbr = mbr]
<1>1. n \in Nodes
  BY DEF FitsIn
<1>2. NodeBox(kids) \in Regions
  BY NodeBoxType
<1>3. mbr \in Regions
  BY <1>1, <1>2 DEF Nodes
<1> HIDE DEF mbr
<1>4. m \in Nodes /\ m.level = n.level /\ m.kids = kids /\ m.mbr = mbr
  BY <1>1, <1>3 DEF Nodes
<1>5. Adjusted(n, kids, recompute) = m
  BY DEF Adjusted, mbr
<1> HIDE DEF m
<1>6. n.kids \in Seq(Entry)
  BY <1>1 DEF Nodes
<1>7. KidIds(kids) = KidIds(n.kids) /\ Len(kids) = Len(n.kids) /\ (DistinctIds(n.kids) => DistinctIds(kids))
  BY <1>6, SameIdsSame
<1>8. FitsIn(pages, m)
  BY <1>4, <1>7 DEF FitsIn
<1>9. Children(m) = Children(n)
  BY <1>4, <1>7 DEF Children
<1>10. QED
  BY <1>3, <1>4, <1>5, <1>8, <1>9

------------------------------------------------------------------------------
LEMMA AdjustTreeAfterSplitStep ==
  ASSUME TreeInv, AdjustTreeAfterSplit
  PROVE  TreeInv'
<1> DEFINE f == work[1]
           n == nodes[f.page]
           kids == Updated(n.kids, f.child, f.mbr)
           recompute == MustRecompute(n, f.child, {f.mbr, f.entry.mbr})
           adjusted == Adjusted(n, kids, recompute)
           g == InsertFrame(f.page, adjusted, f.entry, f.path, recompute)
<1>1. Step("adjustTree2") /\ nodes' = nodes /\ work' = <<g>> \o Tail(work)
  BY DEF AdjustTreeAfterSplit, Become
<1>2. f \in Adjust2Frames /\ Adjust2OK(nodes, m_rootID, f)
  BY <1>1, InStep, FrameKinds DEF FrameOK
<1>3. /\ f.entry \in Entry /\ f.mbr \in Regions /\ f.path \in Path /\ f.fn = "adjustTree2"
      /\ f.page \in DOMAIN nodes /\ Route(nodes, m_rootID, f.path, f.page)
      /\ n.level # 0 /\ EntryAt(nodes, f.entry, n.level)
  BY <1>2 DEF Adjust2Frames, Adjust2OK, Route
<1>4. n \in Nodes /\ n.kids \in Seq(Entry) /\ n.level \in Nat /\ f.page \in Nat /\ FitsIn(nodes, n)
  BY <1>1, <1>3, InStep, NodesTyped
<1>5. kids \in Seq(Entry) /\ SameIds(kids, n.kids)
  BY <1>3, <1>4, UpdatedIds
<1>6. recompute \in BOOLEAN
  BY DEF MustRecompute
<1> HIDE DEF kids, recompute
<1>7. adjusted \in Nodes /\ adjusted.level = n.level /\ adjusted.kids = kids
  BY <1>4, <1>5, <1>6, AdjustedNode
<1> HIDE DEF adjusted
<1>8. g \in Frame /\ \A d : d \in HeldPages(g) <=> adjusted.level # 0 /\ d = f.entry.id
  <2>1. g \in InsertFrames
    BY <1>3, <1>4, <1>6, <1>7 DEF InsertFrame, InsertFrames
  <2>2. QED
    BY <2>1 DEF Frame, HeldPages, InsertFrame
<1>9. \A d : d \in HeldPages(f) <=> d = f.entry.id
  BY <1>3 DEF HeldPages
<1>10. FrameOK(nodes, m_rootID, g) /\ g.fn # "condenseTree"
  BY <1>3, <1>5, <1>7 DEF InsertFrame, FrameOK, InsertOK
<1> HIDE DEF g
<1>11. HeldPages(g) = HeldPages(f)
  BY <1>3, <1>7, <1>8, <1>9
<1>12. QED
  BY <1>1, <1>8, <1>10, <1>11, InStep, FrameReplaced

LEMMA FinishStep ==
  ASSUME TreeInv, Finish
  PROVE  TreeInv'
<1>1. Step("return") /\ nodes' = nodes /\ work' = <<>> \o Tail(work)
  BY DEF Finish, Become
<1>2. \A c : c \notin HeldPages(work[1])
  BY <1>1, InStep DEF HeldPages
<1>3. <<>> \in Seq(Frame) /\ Disjoint(<<>>) /\ \A c : ~Holds(<<>>, c)
  BY DEF Disjoint, Holds
<1>4. Sound(nodes, m_rootID, <<>> \o Tail(work))
  <2>1. \A k \in DOMAIN <<>> : FALSE
    OBVIOUS
  <2>2. QED
    BY <1>1, <1>2, <1>3, <2>1, InStep, NoPageStep
<1>5. QED
  BY <1>1, <1>4, InStep DEF TreeInv

------------------------------------------------------------------------------
(***************************************************************************)
(* The steps that write one page and go on to adjust its parent, or stop.  *)
(***************************************************************************)
LEMMA WriteAndAdjust ==
  ASSUME TreeInv, work # <<>>, NEW p \in DOMAIN nodes, NEW node, FitsIn(nodes, node),
         node.level = nodes[p].level, nodes' = [nodes EXCEPT ![p] = node], m_rootID' = m_rootID,
         NEW path \in Path, Route(nodes, m_rootID, path, p), NEW mbr \in Regions,
         NEW force \in BOOLEAN, NEW go \in BOOLEAN,
         work' = (IF go THEN AdjustParent(p, mbr, path, force) ELSE <<>>) \o Tail(work),
         \A c : c \in Children(node) <=> c \in Children(nodes[p]) \/ c \in HeldPages(work[1])
  PROVE  TreeInv'
<1> DEFINE up == AdjustParent(p, mbr, path, force)
           new == IF go THEN up ELSE <<>>
<1>1. Sound(nodes, m_rootID, work) /\ TreeOK(nodes, m_rootID) /\ StackOK(nodes, m_rootID, work)
  BY DEF TreeInv, Sound
<1>2. OnlyAt(p, node, nodes, nodes')
  BY DEF OnlyAt
<1>3. TreeOK(nodes', m_rootID) /\ SameLevels(nodes, nodes') /\ p \in Nat
  BY <1>1, <1>2, PageChanged, NodesTyped
<1>4. Route(nodes', m_rootID, path, p)
  BY <1>1, <1>3, SameRoute DEF TreeOK
<1>5. /\ up \in Seq(Frame)
      /\ \A k \in DOMAIN up : /\ up[k].fn = "adjustTree" /\ HeldPages(up[k]) = {}
                              /\ FrameOK(nodes', m_rootID, up[k])
      /\ \A k \in DOMAIN up : k = 1
  <2>1. /\ up \in Seq(Frame) /\ Len(up) \in {0, 1}
        /\ \A k \in DOMAIN up : /\ up[k].fn = "adjustTree" /\ HeldPages(up[k]) = {}
                                /\ FrameOK(nodes', m_rootID, up[k])
    BY <1>3, <1>4, AdjustParentOf
  <2> HIDE DEF up
  <2>2. \A k \in DOMAIN up : k = 1
    BY <2>1
  <2>3. QED
    BY <2>1, <2>2
<1>7. work' = new \o Tail(work)
  OBVIOUS
<1> HIDE DEF up
<1>6. /\ new \in Seq(Frame)
      /\ \A k \in DOMAIN new : /\ HeldPages(new[k]) = {} /\ k = 1
                               /\ FrameOK(nodes', m_rootID, new[k])
      /\ new # <<>> => new[1].fn # "condenseTree"
  <2>1. CASE go
    <3>1. new = up
      BY <2>1
    <3>2. up # <<>> => 1 \in DOMAIN up
      BY <1>5
    <3>3. QED
      BY <1>5, <3>1, <3>2
  <2>2. CASE ~go
    <3>1. new = <<>>
      BY <2>2
    <3> HIDE DEF new
    <3>2. new \in Seq(Frame) /\ DOMAIN new = {}
      BY <3>1
    <3>3. QED
      BY <3>1, <3>2
  <2>3. QED
    BY <2>1, <2>2
<1> HIDE DEF new
<1>8. Disjoint(new) /\ \A c : ~Holds(new, c)
  BY <1>6 DEF Disjoint, Holds
<1>9. \A c : Holds(<<work[1]>>, c) <=> c \in HeldPages(work[1])
  BY DEF Holds
<1>10. SamePages(nodes, <<work[1]>>, p, node, new)
  BY <1>8, <1>9 DEF SamePages
<1>11. \A k \in DOMAIN new : FrameOK(nodes', m_rootID, new[k]) /\ (k # 1 => Waiting(new[k]))
  BY <1>6
<1>12. new # <<>> /\ new[1].fn = "condenseTree" => Len(new) = 1 /\ work[1].fn = "condenseTree"
  BY <1>6
<1>13. Sound(nodes', m_rootID, new \o Tail(work))
  BY <1>1, <1>2, <1>6, <1>10, <1>11, <1>12, OnePageStep
<1>14. QED
  BY <1>7, <1>13 DEF TreeInv

LEMMA AdjustTreeStep ==
  ASSUME TreeInv, AdjustTree
  PROVE  TreeInv'
<1> DEFINE f == work[1]
           n == nodes[f.page]
           kids == Updated(n.kids, f.child, f.mbr)
           recompute == f.force \/ MustRecompute(n, f.child, {f.mbr})
           adjusted == Adjusted(n, kids, recompute)
           up == AdjustParent(f.page, adjusted.mbr, f.path, f.force)
<1>1. /\ Step("adjustTree") /\ nodes' = [nodes EXCEPT ![f.page] = adjusted]
      /\ work' = (IF recompute THEN up ELSE <<>>) \o Tail(work)
  BY Zenon DEF AdjustTree, Become
<1>2. f \in AdjustFrames /\ Route(nodes, m_rootID, f.path, f.page)
  BY <1>1, InStep, FrameKinds, Zenon DEF FrameOK
<1>3. /\ f.mbr \in Regions /\ f.path \in Path /\ f.fn = "adjustTree" /\ f.force \in BOOLEAN
      /\ f.page \in DOMAIN nodes
  BY <1>2, SMTT(30) DEF AdjustFrames, Route
<1>4. n \in Nodes /\ n.kids \in Seq(Entry) /\ n.level \in Nat /\ f.page \in Nat /\ FitsIn(nodes, n)
  BY <1>1, <1>3, InStep, NodesTyped, Zenon
<1>5. kids \in Seq(Entry) /\ SameIds(kids, n.kids)
  BY <1>3, <1>4, UpdatedIds
<1>6. recompute \in BOOLEAN
  OBVIOUS
<1> HIDE DEF kids, recompute
<1>7. /\ FitsIn(nodes, adjusted) /\ adjusted.level = n.level /\ adjusted.mbr \in Regions
      /\ Children(adjusted) = Children(n)
  BY <1>4, <1>5, <1>6, AdjustedNode
<1> HIDE DEF adjusted
<1>8. \A c : c \in Children(adjusted) <=> c \in Children(n) \/ c \in HeldPages(f)
  BY <1>3, <1>7 DEF HeldPages
<1>9. QED
  BY <1>1, <1>2, <1>3, <1>6, <1>7, <1>8, InStep, WriteAndAdjust, Zenon

WithEntry(n, entry) ==
  [n EXCEPT !.kids = Append(@, entry), !.mbr = CombinedRegion(@, entry.mbr)]

LEMMA Grown ==
  ASSUME NEW pages, NEW n, FitsIn(pages, n), ~Full(n),
         NEW entry \in Entry, n.level # 0 => entry.id \notin KidIds(n.kids),
         EntryAt(pages, entry, n.level), NEW m, m = WithEntry(n, entry)
  PROVE  /\ FitsIn(pages, m) /\ m.level = n.level /\ m.mbr \in Regions
         /\ \A c : c \in Children(m) <=> c \in Children(n) \/ (n.level # 0 /\ c = entry.id)
<1> DEFINE more == Append(n.kids, entry)
           mbr == CombinedRegion(n.mbr, entry.mbr)
<1>1. n \in Nodes /\ n.kids \in Seq(Entry) /\ n.mbr \in Regions /\ n.level \in Nat
  BY DEF FitsIn, Nodes
<1>2. mbr \in Regions
  BY <1>1, EntryOf, CombinedRegionType
<1>3. /\ more \in Seq(Entry) /\ Len(more) = Len(n.kids) + 1 /\ Len(n.kids) \in Nat
      /\ more[Len(n.kids) + 1] = entry
      /\ \A i \in 1 .. Len(n.kids) : more[i] = n.kids[i]
  BY <1>1
<1> HIDE DEF mbr, more
<1>4. m = [n EXCEPT !.kids = more, !.mbr = mbr]
  BY DEF more, mbr, WithEntry
<1>5. m \in Nodes /\ m.level = n.level /\ m.kids = more /\ m.mbr = mbr
  BY <1>1, <1>2, <1>3, <1>4 DEF Nodes
<1>6. Len(more) <= Capacity(n.level)
  <2>1. Capacity(n.level) \in Nat
    BY CapacityAtLeastFour
  <2>2. \A x, y \in Nat : ~(x >= y) => x + 1 <= y
    OBVIOUS
  <2>3. QED
    BY <1>3, <2>1, <2>2 DEF Full
<1> DEFINE k == Len(n.kids)
<1>7. DOMAIN more = 1 .. k + 1 /\ DOMAIN n.kids = 1 .. k /\ k \in Nat /\ 1 .. k + 1 = (1 .. k) \cup {k + 1}
  BY <1>1, <1>3
<1>8. more[k + 1] = entry /\ \A i \in 1 .. k : more[i] = n.kids[i]
  BY <1>3
<1> HIDE DEF k
<1>9. \A c : c \in KidIds(more) <=> c \in KidIds(n.kids) \/ c = entry.id
  BY <1>7, <1>8 DEF KidIds
<1>10. n.level # 0 => DistinctIds(more)
  <2>1. ASSUME n.level # 0, NEW i \in 1 .. k + 1, NEW j \in 1 .. k + 1, more[i].id = more[j].id
        PROVE  i = j
    <3>1. DistinctIds(n.kids) /\ \A l \in 1 .. k : n.kids[l].id # entry.id
      BY <1>7, <2>1 DEF FitsIn, KidIds
    <3>2. QED
      BY <1>7, <1>8, <2>1, <3>1 DEF DistinctIds
  <2>2. QED
    BY <1>7, <2>1 DEF DistinctIds
<1>11. FitsIn(pages, m)
  BY <1>5, <1>6, <1>9, <1>10 DEF FitsIn, EntryAt
<1>12. \A c : c \in Children(m) <=> c \in Children(n) \/ (n.level # 0 /\ c = entry.id)
  BY <1>5, <1>9 DEF Children
<1>13. QED
  BY <1>2, <1>5, <1>11, <1>12

\* The running call's page is not below any page.
LEMMA HeldByTop ==
  ASSUME NEW pages, NEW root, NEW stack, Sound(pages, root, stack), stack # <<>>
  PROVE  OwnedOnce(pages, root, stack[1], Tail(stack))
<1>1. stack = <<stack[1]>> \o Tail(stack) /\ stack[1] \in Frame /\ Tail(stack) \in Seq(Frame)
  BY TopOf DEF Sound
<1>2. QED
  BY <1>1, Owners1 DEF Sound, TreeOK

LEMMA InsertFitsStep ==
  ASSUME TreeInv, InsertFits
  PROVE  TreeInv'
<1> DEFINE f == work[1]
           n == nodes[f.page]
           grown == [f.node EXCEPT !.kids = Append(@, f.entry), !.mbr = CombinedRegion(@, f.entry.mbr)]
           up == AdjustParent(f.page, grown.mbr, f.path, FALSE)
           go == ~ContainsRegion(f.node.mbr, f.entry.mbr) \/ f.recomputed
<1>1. /\ Step("insertData") /\ ~Full(f.node) /\ nodes' = [nodes EXCEPT ![f.page] = grown]
      /\ work' = (IF go THEN up ELSE <<>>) \o Tail(work)
  BY DEF InsertFits, Become
<1>2. f \in InsertFrames /\ InsertOK(nodes, m_rootID, f)
  BY <1>1, InStep, FrameKinds DEF FrameOK
<1>3. /\ f.entry \in Entry /\ f.path \in Path /\ f.fn = "insertData" /\ f.node \in Nodes
      /\ f.page \in DOMAIN nodes /\ Route(nodes, m_rootID, f.path, f.page)
      /\ f.node.level = n.level /\ SameIds(f.node.kids, n.kids) /\ EntryAt(nodes, f.entry, f.node.level)
  BY <1>2, SMTT(30) DEF InsertFrames, InsertOK, Route
<1>4. n \in Nodes /\ n.kids \in Seq(Entry) /\ n.level \in Nat /\ FitsIn(nodes, n)
  BY <1>1, <1>3, InStep, NodesTyped
<1>5. f.node.kids \in Seq(Entry)
  BY <1>3 DEF Nodes
<1>6. FitsIn(nodes, f.node) /\ KidIds(f.node.kids) = KidIds(n.kids)
  BY <1>3, <1>4, <1>5, SameIdsSame DEF FitsIn
<1>7. \A c : c \in HeldPages(f) <=> n.level # 0 /\ c = f.entry.id
  BY <1>3 DEF HeldPages
<1>8. f.node.level # 0 => f.entry.id \notin KidIds(f.node.kids)
  <2>1. OwnedOnce(nodes, m_rootID, f, Tail(work))
    BY <1>1, InStep, HeldByTop
  <2>2. \A c \in Children(n) : c \notin HeldPages(f)
    BY <1>3, <2>1, SMTT(30) DEF OwnedOnce
  <2>3. QED
    BY <1>3, <1>6, <1>7, <2>2 DEF Children
<1>9. /\ FitsIn(nodes, grown) /\ grown.level = f.node.level /\ grown.mbr \in Regions
      /\ \A c : c \in Children(grown) <=> c \in Children(f.node) \/ (f.node.level # 0 /\ c = f.entry.id)
  <2>1. grown = WithEntry(f.node, f.entry)
    BY DEF WithEntry
  <2> HIDE DEF grown
  <2>2. /\ FitsIn(nodes, f.node) /\ ~Full(f.node) /\ f.entry \in Entry
        /\ f.node.level # 0 => f.entry.id \notin KidIds(f.node.kids)
        /\ EntryAt(nodes, f.entry, f.node.level)
    BY <1>1, <1>3, <1>6, <1>8, Zenon
  <2> DEFINE node == f.node
             entry == f.entry
  <2>3. /\ FitsIn(nodes, node) /\ ~Full(node) /\ entry \in Entry
        /\ node.level # 0 => entry.id \notin KidIds(node.kids)
        /\ EntryAt(nodes, entry, node.level) /\ grown = WithEntry(node, entry)
    BY <2>1, <2>2, Zenon
  <2> HIDE DEF node, entry
  <2>4. /\ FitsIn(nodes, grown) /\ grown.level = node.level /\ grown.mbr \in Regions
        /\ \A c : c \in Children(grown) <=> c \in Children(node) \/ (node.level # 0 /\ c = entry.id)
    BY <2>3, Grown
  <2>5. QED
    BY <2>4, Zenon DEF node, entry
<1> HIDE DEF grown
<1>10. \A c : c \in Children(grown) <=> c \in Children(n) \/ c \in HeldPages(f)
  BY <1>3, <1>6, <1>7, <1>9 DEF Children
<1>11. go \in BOOLEAN
  OBVIOUS
<1> HIDE DEF go
<1> DEFINE force == FALSE
<1>12. force \in BOOLEAN /\ work' = (IF go THEN AdjustParent(f.page, grown.mbr, f.path, force) ELSE <<>>) \o Tail(work)
  BY <1>1
<1> HIDE DEF force
<1>13. QED
  BY <1>1, <1>3, <1>9, <1>10, <1>11, <1>12, InStep, WriteAndAdjust

------------------------------------------------------------------------------
(***************************************************************************)
(* A node without one of its entries.                                      *)
(***************************************************************************)
WithoutEntry(kids, k) == Front([kids EXCEPT ![k] = Last(kids)])

OneLess(kids, k, rest) ==
  /\ rest \in Seq(Entry) /\ Len(rest) = Len(kids) - 1
  /\ \A i \in 1 .. Len(kids) - 1 : rest[i] = IF i = k THEN kids[Len(kids)] ELSE kids[i]

LEMMA OneOut ==
  ASSUME NEW kids \in Seq(Entry), NEW k \in DOMAIN kids
  PROVE  OneLess(kids, k, WithoutEntry(kids, k))
<1> DEFINE n == Len(kids)
           rest == WithoutEntry(kids, k)
           swapped == [kids EXCEPT ![k] = Last(kids)]
<1>1. /\ n \in Nat /\ n >= 1 /\ DOMAIN kids = 1 .. n /\ k \in 1 .. n
      /\ \A i \in 1 .. n : kids[i] \in Entry
      /\ kids # <<>>
  OBVIOUS
<1>2. Last(kids) = kids[n] /\ kids[n] \in Entry
  BY <1>1, FrontOf
<1>3. swapped = [i \in 1 .. n |-> IF i = k THEN kids[n] ELSE kids[i]]
  BY <1>1, <1>2
<1>4. swapped \in Seq(Entry) /\ Len(swapped) = n /\ swapped # <<>>
  <2>1. swapped \in [1 .. n -> Entry]
    BY <1>1, <1>2, <1>3
  <2> HIDE DEF swapped
  <2>2. swapped \in Seq(Entry)
    BY <1>1, <2>1
  <2>3. DOMAIN swapped = 1 .. n
    BY <2>1
  <2>4. QED
    BY <1>1, <2>2, <2>3
<1>5. \A i \in 1 .. n - 1 : swapped[i] = IF i = k THEN kids[n] ELSE kids[i]
  BY <1>1, <1>3
<1>6. rest = Front(swapped)
  BY DEF WithoutEntry
<1> HIDE DEF swapped
<1>7. /\ Front(swapped) \in Seq(Entry) /\ Len(Front(swapped)) = Len(swapped) - 1
      /\ \A i \in 1 .. Len(swapped) - 1 : Front(swapped)[i] = swapped[i]
  BY <1>4, FrontOf
<1> HIDE DEF rest
<1>8. OneLess(kids, k, rest)
  BY <1>4, <1>5, <1>6, <1>7 DEF OneLess
<1>9. QED
  BY <1>8 DEF rest

LEMMA Shorter ==
  ASSUME NEW pages, NEW n, FitsIn(pages, n), NEW k \in DOMAIN n.kids
  PROVE  /\ FitsIn(pages, DeleteEntry(n, k))
         /\ DeleteEntry(n, k).level = n.level
         /\ \A c : c \in Children(DeleteEntry(n, k)) <=> c \in Children(n) /\ c # n.kids[k].id
<1> DEFINE rest == WithoutEntry(n.kids, k)
           mbr == IF rest = <<>> \/ (TightMBRs /\ TouchesRegion(n.mbr, n.kids[k].mbr))
                    THEN NodeBox(rest) ELSE n.mbr
           m == [n EXCEPT !.kids = rest, !.mbr = mbr]
           l == Len(n.kids)
<1>1. DeleteEntry(n, k) = m
  BY DEF DeleteEntry, WithoutEntry
<1>2. n \in Nodes /\ n.kids \in Seq(Entry) /\ n.mbr \in Regions /\ n.level \in Nat
  BY DEF FitsIn, Nodes
<1>3. /\ rest \in Seq(Entry) /\ Len(rest) = l - 1
      /\ \A i \in 1 .. l - 1 : rest[i] = IF i = k THEN n.kids[l] ELSE n.kids[i]
  <2>1. OneLess(n.kids, k, rest)
    BY <1>2, OneOut
  <2> HIDE DEF rest
  <2>2. QED
    BY <2>1 DEF OneLess
<1>4. /\ l \in Nat /\ l >= 1 /\ k \in 1 .. l /\ DOMAIN n.kids = 1 .. l /\ DOMAIN rest = 1 .. l - 1
  BY <1>2, <1>3
<1> HIDE DEF rest, l
<1>5. mbr \in Regions
  BY <1>2, <1>3, NodeBoxType
<1> HIDE DEF mbr
<1>6. m \in Nodes /\ m.level = n.level /\ m.kids = rest
  BY <1>2, <1>3, <1>5 DEF Nodes
<1> HIDE DEF m
<1>7. Len(rest) <= Capacity(n.level)
  <2>1. Capacity(n.level) \in Nat /\ l <= Capacity(n.level)
    BY CapacityAtLeastFour DEF FitsIn, l
  <2>2. \A x \in Nat : l <= x => l - 1 <= x
    BY <1>4
  <2>3. QED
    BY <1>3, <2>1, <2>2
<1>8. \A i \in 1 .. l - 1 : i \in 1 .. l /\ l \in 1 .. l /\ i # l
  BY <1>4
<1>9. \A c \in KidIds(rest) : c \in KidIds(n.kids)
  BY <1>3, <1>4, <1>8 DEF KidIds
<1>10. ASSUME n.level # 0
       PROVE  DistinctIds(rest) /\ \A c : c \in KidIds(rest) <=> c \in KidIds(n.kids) /\ c # n.kids[k].id
  <2>1. \A i, j \in 1 .. l : n.kids[i].id = n.kids[j].id => i = j
    BY <1>4, <1>10 DEF FitsIn, DistinctIds
  <2>2. DistinctIds(rest)
    <3>1. ASSUME NEW i \in 1 .. l - 1, NEW j \in 1 .. l - 1, rest[i].id = rest[j].id
          PROVE  i = j
      BY <1>3, <1>8, <2>1, <3>1
    <3>2. QED
      BY <1>4, <3>1 DEF DistinctIds
  <2>3. ASSUME NEW c \in KidIds(rest)
        PROVE  c # n.kids[k].id
    <3>1. PICK i \in 1 .. l - 1 : c = rest[i].id
      BY <1>4 DEF KidIds
    <3>2. CASE i = k
      BY <1>3, <1>4, <1>8, <2>1, <3>1, <3>2
    <3>3. CASE i # k
      BY <1>3, <1>4, <1>8, <2>1, <3>1, <3>3
    <3>4. QED
      BY <3>2, <3>3
  <2>4. ASSUME NEW c \in KidIds(n.kids), c # n.kids[k].id
        PROVE  c \in KidIds(rest)
    <3>1. PICK i \in 1 .. l : c = n.kids[i].id
      BY <1>4 DEF KidIds
    <3>2. CASE i = l
      <4>1. k \in 1 .. l - 1
        BY <1>4, <2>4, <3>1, <3>2
      <4>2. rest[k].id = c
        BY <1>3, <3>1, <3>2, <4>1
      <4>3. QED
        BY <1>4, <4>1, <4>2 DEF KidIds
    <3>3. CASE i # l
      <4>1. i \in 1 .. l - 1 /\ i # k
        BY <1>4, <2>4, <3>1, <3>3
      <4>2. rest[i].id = c
        BY <1>3, <3>1, <4>1
      <4>3. QED
        BY <1>4, <4>1, <4>2 DEF KidIds
    <3>4. QED
      BY <3>2, <3>3
  <2>5. QED
    BY <1>9, <2>2, <2>3, <2>4
<1>11. FitsIn(pages, m)
  BY <1>6, <1>7, <1>9, <1>10 DEF FitsIn
<1>12. \A c : c \in Children(m) <=> c \in Children(n) /\ c # n.kids[k].id
  BY <1>6, <1>10 DEF Children
<1>13. QED
  BY <1>1, <1>6, <1>11, <1>12

------------------------------------------------------------------------------
(***************************************************************************)
(* Condensation.                                                           *)
(***************************************************************************)
LEMMA AppendedOne ==
  ASSUME NEW T, NEW s \in Seq(T), NEW x
  PROVE  /\ \A c : (\E i \in DOMAIN Append(s, x) : c = Append(s, x)[i]) <=> (\E i \in DOMAIN s : c = s[i]) \/ c = x
         /\ \A i \in DOMAIN Append(s, x) : \/ i \in DOMAIN s /\ Append(s, x)[i] = s[i]
                                           \/ i = Len(s) + 1 /\ Append(s, x)[i] = x
         /\ DOMAIN s \subseteq DOMAIN Append(s, x)
<1> DEFINE n == Len(s)
           t == Append(s, x)
<1>1. DOMAIN s = 1 .. n /\ n \in Nat /\ DOMAIN t = 1 .. n + 1 /\ 1 .. n + 1 = (1 .. n) \cup {n + 1}
  OBVIOUS
<1>2. t[n + 1] = x /\ \A i \in 1 .. n : t[i] = s[i]
  OBVIOUS
<1> HIDE DEF n, t
<1>3. QED
  BY <1>1, <1>2 DEF n, t

LEMMA CondenseTreeStep ==
  ASSUME TreeInv, CondenseTree
  PROVE  TreeInv'
<1> DEFINE f == work[1]
           n == nodes[f.page]
           parent == Last(f.path)
           up == Front(f.path)
           p == nodes[parent]
           low == Underfull(n)
           at == PositionOf(p.kids, f.page)
           condensed == IF low THEN DeleteEntry(p, at)
                               ELSE Adjusted(p, Updated(p.kids, f.page, n.mbr), TightMBRs)
           list == IF low THEN Append(f.toReinsert, f.page) ELSE f.toReinsert
           g == CondenseFrame(parent, up, list)
<1>1. /\ Step("condenseTree") /\ f.path # <<>> /\ nodes' = [nodes EXCEPT ![parent] = condensed]
      /\ work' = <<g>> \o Tail(work)
  BY DEF CondenseTree, Become
<1>2. f \in CondenseFrames /\ CondenseOK(nodes, m_rootID, f)
  BY <1>1, InStep, FrameKinds DEF FrameOK
<1>3. /\ f.path \in Path /\ f.fn = "condenseTree" /\ f.toReinsert \in Seq(Nat)
      /\ Route(nodes, m_rootID, f.path, f.page) /\ Lineage(nodes, f.path, f.page)
  BY <1>2 DEF CondenseFrames, CondenseOK
<1>4. /\ parent \in DOMAIN nodes /\ parent \in Nat /\ up \in Path /\ f.page \in DOMAIN nodes
      /\ p.level = n.level + 1 /\ Route(nodes, m_rootID, up, parent)
  BY <1>1, <1>3, InStep, RouteUp
<1>5. /\ Len(f.path) \in Nat /\ Len(f.path) >= 1 /\ Len(up) = Len(f.path) - 1
      /\ parent = f.path[Len(f.path)] /\ \A i \in 1 .. Len(f.path) - 1 : up[i] = f.path[i]
  BY <1>1, <1>3, PathFront
<1> HIDE DEF parent, up
<1>6. f.page \in Children(p)
  BY <1>1, <1>3, <1>5 DEF Lineage
<1>7. /\ n \in Nodes /\ n.level \in Nat /\ n.mbr \in Regions /\ f.page \in Nat
      /\ p \in Nodes /\ p.level \in Nat /\ p.kids \in Seq(Entry) /\ FitsIn(nodes, p)
  BY <1>1, <1>4, InStep, NodesTyped
<1>8. at \in DOMAIN p.kids /\ p.kids[at].id = f.page
  <2>1. PICK i \in DOMAIN p.kids : f.page = p.kids[i].id
    BY <1>4, <1>6, <1>7 DEF Children, KidIds
  <2>2. QED
    BY <1>7, <2>1, PositionFound
<1> HIDE DEF at
<1>9. OwnedOnce(nodes, m_rootID, f, Tail(work))
  BY <1>1, InStep, HeldByTop
<1>10. \A c : c \in HeldPages(f) <=> \E i \in DOMAIN f.toReinsert : c = f.toReinsert[i]
  BY <1>3 DEF HeldPages
<1>11. low \in BOOLEAN
  BY DEF Underfull
<1> HIDE DEF low
<1>12. FitsIn(nodes, condensed) /\ condensed.level = p.level
       /\ \A c : c \in Children(condensed) <=> c \in Children(p) /\ ~(low /\ c = f.page)
  <2>1. CASE low
    <3>1. condensed = DeleteEntry(p, at)
      BY <2>1
    <3> HIDE DEF condensed
    <3>2. QED
      BY <1>7, <1>8, <2>1, <3>1, Shorter
  <2>2. CASE ~low
    <3> DEFINE kids == Updated(p.kids, f.page, n.mbr)
    <3>1. condensed = Adjusted(p, kids, TightMBRs)
      BY <2>2
    <3>2. kids \in Seq(Entry) /\ SameIds(kids, p.kids) /\ TightMBRs \in BOOLEAN
      BY <1>7, UpdatedIds, RTreeAssumption
    <3> HIDE DEF condensed, kids
    <3>3. QED
      BY <1>7, <2>2, <3>1, <3>2, AdjustedNode
  <2>3. QED
    BY <1>11, <2>1, <2>2
<1> HIDE DEF condensed
<1>13. /\ list \in Seq(Nat)
       /\ \A c : (\E i \in DOMAIN list : c = list[i])
                   <=> (\E i \in DOMAIN f.toReinsert : c = f.toReinsert[i]) \/ (low /\ c = f.page)
       /\ \A i \in DOMAIN list : \/ i \in DOMAIN f.toReinsert /\ list[i] = f.toReinsert[i]
                                 \/ i = Len(f.toReinsert) + 1 /\ list[i] = f.page
       /\ DOMAIN f.toReinsert \subseteq DOMAIN list
  <2>1. CASE low
    <3>1. list = Append(f.toReinsert, f.page)
      BY <2>1
    <3> HIDE DEF list
    <3>2. list \in Seq(Nat)
      BY <1>3, <1>7, <3>1
    <3> DEFINE old == f.toReinsert
               x == f.page
    <3>3. old \in Seq(Nat)
      BY <1>3
    <3> HIDE DEF old, x
    <3>4. list = Append(old, x)
      BY <3>1 DEF old, x
    <3>5. /\ \A c : (\E i \in DOMAIN list : c = list[i]) <=> (\E i \in DOMAIN old : c = old[i]) \/ c = x
          /\ \A i \in DOMAIN list : \/ i \in DOMAIN old /\ list[i] = old[i]
                                    \/ i = Len(old) + 1 /\ list[i] = x
          /\ DOMAIN old \subseteq DOMAIN list
      BY <3>3, <3>4, AppendedOne
    <3>6. QED
      BY <2>1, <3>2, <3>5 DEF old, x
  <2>2. CASE ~low
    <3>1. list = f.toReinsert
      BY <2>2
    <3> HIDE DEF list
    <3>2. QED
      BY <1>3, <2>2, <3>1
  <2>3. QED
    BY <1>11, <2>1, <2>2
<1>14. OnlyAt(parent, condensed, nodes, nodes')
  BY <1>1, <1>4 DEF OnlyAt
<1>15. TreeOK(nodes', m_rootID) /\ SameLevels(nodes, nodes')
  BY <1>1, <1>4, <1>12, <1>14, InStep, PageChanged
<1>16. \A i \in DOMAIN list :
         /\ list[i] \in DOMAIN nodes
         /\ nodes[list[i]].level < p.level
         /\ \A j \in 1 .. i - 1 : nodes[list[j]].level < nodes[list[i]].level
  <2> DEFINE old == f.toReinsert
  <2>1. \A i \in DOMAIN old : /\ old[i] \in DOMAIN nodes /\ nodes[old[i]].level < n.level
                              /\ \A j \in 1 .. i - 1 : nodes[old[j]].level < nodes[old[i]].level
    BY <1>2 DEF CondenseOK
  <2>2. DOMAIN old = 1 .. Len(old) /\ Len(old) \in Nat
    BY <1>3
  <2> HIDE DEF old
  <2>3. \A i \in DOMAIN list : /\ \/ i \in DOMAIN old /\ list[i] = old[i]
                                  \/ i = Len(old) + 1 /\ list[i] = f.page
                               /\ \A j \in 1 .. i - 1 : j \in DOMAIN old /\ j \in DOMAIN list
    <3>1. \A i \in DOMAIN list : \/ i \in DOMAIN old /\ list[i] = old[i]
                                 \/ i = Len(old) + 1 /\ list[i] = f.page
      BY <1>13 DEF old
    <3>2. \A i : i \in 1 .. Len(old) \/ i = Len(old) + 1 => \A j \in 1 .. i - 1 : j \in 1 .. Len(old)
      BY <2>2
    <3>3. \A j \in DOMAIN old : j \in DOMAIN list
      BY <1>13 DEF old
    <3>4. QED
      BY <2>2, <3>1, <3>2, <3>3
  <2>4. \A j \in DOMAIN old : j \in DOMAIN list /\ j # Len(old) + 1 /\ list[j] = old[j]
    <3>1. \A j \in DOMAIN old : j # Len(old) + 1
      BY <2>2
    <3>2. QED
      BY <1>13, <2>3, <3>1 DEF old
  <2> HIDE DEF list
  <2>5. ASSUME NEW i \in DOMAIN list
        PROVE  /\ list[i] \in DOMAIN nodes /\ nodes[list[i]].level < p.level
               /\ \A j \in 1 .. i - 1 : nodes[list[j]].level < nodes[list[i]].level
    <3>1. CASE i \in DOMAIN old /\ list[i] = old[i]
      <4>1. old[i] \in DOMAIN nodes /\ nodes[old[i]].level \in Nat /\ nodes[old[i]].level < n.level
        BY <1>1, <2>1, <3>1, InStep, NodesTyped
      <4>2. \A x, y \in Nat : x < y => x < y + 1
        OBVIOUS
      <4>3. nodes[old[i]].level < p.level
        BY <1>4, <1>7, <4>1, <4>2
      <4>4. QED
        BY <2>1, <2>3, <2>4, <3>1, <4>1, <4>3
    <3>2. CASE i = Len(old) + 1 /\ list[i] = f.page
      <4>1. n.level < p.level
        BY <1>4, <1>7
      <4>2. QED
        BY <1>4, <2>1, <2>3, <2>4, <3>2, <4>1
    <3>3. QED
      BY <2>3, <3>1, <3>2
  <2>6. QED
    BY <2>5
<1>17. Lineage(nodes', up, parent)
  <2> DEFINE m == Len(f.path)
  <2>1. /\ \A i \in 1 .. m - 1 : f.path[i + 1] \in Children(nodes[f.path[i]])
        /\ \A i \in 1 .. m : f.path[i] \in DOMAIN nodes /\ nodes[f.path[i]].level = nodes[m_rootID].level + 1 - i
    BY <1>3 DEF Lineage, Route
  <2>2. nodes[m_rootID].level \in Nat
    BY <1>1, InStep
  <2>3. \A i \in 1 .. m - 1 : i \in 1 .. m /\ m \in 1 .. m /\ \A x \in Nat : x + 1 - i # x + 1 - m
    <3>1. m \in Nat /\ m >= 1
      BY <1>5
    <3> HIDE DEF m
    <3>2. QED
      BY <3>1
  <2>4. \A i \in 1 .. m - 1 : f.path[i] \in DOMAIN nodes /\ f.path[i] # parent
    <3>1. parent = f.path[m]
      BY <1>5
    <3> HIDE DEF m
    <3>2. QED
      BY <2>1, <2>2, <2>3, <3>1
  <2>5. \A i \in 1 .. m - 1 : nodes'[f.path[i]] = nodes[f.path[i]]
    BY <1>14, <2>4 DEF OnlyAt
  <2>6. Len(up) = m - 1 /\ (up # <<>> => m - 1 \in 1 .. m - 1)
    BY <1>4, <1>5 DEF Path
  <2>7. \A i \in 1 .. m - 1 : up[i] = f.path[i]
    BY <1>5
  <2>8. parent = f.path[m] /\ m \in Nat
    BY <1>5
  <2> HIDE DEF m
  <2>9. \A i \in 1 .. m - 1 - 1 : i \in 1 .. m - 1 /\ i + 1 \in 1 .. m - 1
    BY <2>8
  <2>10. \A i \in 1 .. m - 1 - 1 : up[i + 1] \in Children(nodes'[up[i]])
    BY <2>1, <2>5, <2>7, <2>9
  <2>11. m - 1 + 1 = m
    BY <2>8
  <2>12. up # <<>> => parent \in Children(nodes'[up[m - 1]])
    BY <2>1, <2>5, <2>6, <2>7, <2>8, <2>11
  <2>13. /\ \A i \in 1 .. Len(up) - 1 : up[i + 1] \in Children(nodes'[up[i]])
         /\ up # <<>> => parent \in Children(nodes'[up[Len(up)]])
    BY <2>6, <2>10, <2>12
  <2>14. QED
    BY <2>13 DEF Lineage
<1>18. Route(nodes', m_rootID, up, parent)
  <2>1. m_rootID \in DOMAIN nodes
    BY <1>1, InStep
  <2>2. QED
    BY <1>4, <1>15, <2>1, SameRoute
<1> HIDE DEF list
<1>19. g \in Frame /\ \A c : c \in HeldPages(g) <=> \E i \in DOMAIN list : c = list[i]
  BY <1>4, <1>13, CondenseFrameOf
<1>20. CondenseOK(nodes', m_rootID, g)
  <2>1. \A i \in DOMAIN list : list[i] \in DOMAIN nodes' /\ nodes'[list[i]].level = nodes[list[i]].level
    BY <1>15, <1>16 DEF SameLevels
  <2>2. nodes'[parent].level = p.level
    BY <1>4, <1>15 DEF SameLevels
  <2>3. \A i \in DOMAIN list : \A j \in 1 .. i - 1 : j \in DOMAIN list
    BY <1>13
  <2>4. QED
    BY <1>16, <1>17, <1>18, <2>1, <2>2, <2>3 DEF CondenseFrame, CondenseOK
<1>21. FrameOK(nodes', m_rootID, g) /\ g.fn = "condenseTree"
  BY <1>20 DEF CondenseFrame, FrameOK
<1> HIDE DEF g
<1>22. SamePages(nodes, <<f>>, parent, condensed, <<g>>)
  <2>1. f \in Frame
    BY <1>1, InStep
  <2>2. /\ Disjoint(<<g>>) /\ \A c : Holds(<<g>>, c) <=> c \in HeldPages(g)
        /\ \A c : Holds(<<f>>, c) <=> c \in HeldPages(f)
    BY <1>19, <2>1, OneFrame
  <2>3. \A c \in Children(p) : c \notin HeldPages(f)
    BY <1>4, <1>9 DEF OwnedOnce
  <2>4. \A c : c \in HeldPages(g) <=> c \in HeldPages(f) \/ (low /\ c = f.page)
    BY <1>10, <1>13, <1>19
  <2>5. QED
    BY <1>6, <1>12, <2>2, <2>3, <2>4 DEF SamePages
<1>23. /\ <<g>> \in Seq(Frame) /\ Len(<<g>>) = 1
       /\ \A k \in DOMAIN <<g>> : FrameOK(nodes', m_rootID, <<g>>[k]) /\ (k # 1 => Waiting(<<g>>[k]))
  BY <1>19, <1>21
<1>24. Sound(nodes', m_rootID, <<g>> \o Tail(work))
  BY <1>1, <1>3, <1>4, <1>12, <1>14, <1>22, <1>23, InStep, OnePageStep
<1>25. QED
  BY <1>1, <1>24, InStep DEF TreeInv

\* The calls to delete the nodes that were cut off.
LEMMA DisposalsOf ==
  ASSUME NEW list \in Seq(Nat), \A i, j \in DOMAIN list : list[i] = list[j] => i = j
  PROVE  /\ Disposals(list) \in Seq(Frame) /\ Disjoint(Disposals(list))
         /\ \A k \in DOMAIN Disposals(list) :
              /\ Disposals(list)[k].fn = "deleteNode" /\ Waiting(Disposals(list)[k])
              /\ \E i \in DOMAIN list : Disposals(list)[k].page = list[i]
         /\ \A c : Holds(Disposals(list), c) <=> \E i \in DOMAIN list : c = list[i]
<1> DEFINE n == Len(list)
           D == Disposals(list)
           F(k) == [fn |-> "deleteNode", page |-> list[n + 1 - k]]
<1>1. n \in Nat /\ DOMAIN list = 1 .. n /\ \A i \in 1 .. n : list[i] \in Nat
  OBVIOUS
<1>2. \A k \in 1 .. n : Reverse(list)[k] = list[n + 1 - k]
  BY ReverseOf
<1>3. D = [k \in 1 .. n |-> F(k)]
  BY <1>1, <1>2 DEF Disposals
<1>4. \A k \in 1 .. n : n + 1 - k \in 1 .. n /\ n + 1 - (n + 1 - k) = k
  BY <1>1
<1> HIDE DEF n, D
<1>5. \A k \in 1 .. n : /\ F(k) \in Frame /\ HeldPages(F(k)) = {list[n + 1 - k]} /\ Waiting(F(k))
                        /\ F(k).fn = "deleteNode" /\ F(k).page = list[n + 1 - k]
  <2>1. \A k \in 1 .. n : F(k) \in DeleteFrames
    BY <1>1, <1>4 DEF DeleteFrames
  <2>2. QED
    BY <2>1 DEF Frame, HeldPages, Waiting
<1> HIDE DEF F
<1>6. D \in Seq(Frame) /\ DOMAIN D = 1 .. n /\ \A k \in 1 .. n : D[k] = F(k)
  BY <1>1, <1>3, <1>5
<1>7. Disjoint(D)
  <2>1. \A j, k \in 1 .. n : n + 1 - j = n + 1 - k => j = k
    BY <1>1
  <2>2. \A j, k \in 1 .. n : list[j] = list[k] => j = k
    BY <1>1
  <2>3. ASSUME NEW j \in 1 .. n, NEW k \in 1 .. n, NEW c \in HeldPages(D[j]), c \in HeldPages(D[k])
        PROVE  j = k
    <3>1. list[n + 1 - j] = list[n + 1 - k]
      BY <1>5, <1>6, <2>3
    <3>2. QED
      BY <1>4, <2>1, <2>2, <3>1
  <2>4. QED
    BY <1>6, <2>3 DEF Disjoint
<1>8. \A c : Holds(D, c) <=> \E i \in 1 .. n : c = list[i]
  <2>1. ASSUME NEW c
        PROVE  Holds(D, c) <=> \E k \in 1 .. n : c = list[n + 1 - k]
    <3>1. \A k \in 1 .. n : c \in HeldPages(D[k]) <=> c = list[n + 1 - k]
      BY <1>5, <1>6
    <3>2. Holds(D, c) <=> \E k \in 1 .. n : c \in HeldPages(D[k])
      BY <1>6 DEF Holds
    <3>3. QED
      BY <3>1, <3>2
  <2>2. ASSUME NEW i \in 1 .. n
        PROVE  \E k \in 1 .. n : list[i] = list[n + 1 - k]
    <3>1. n + 1 - i \in 1 .. n /\ list[i] = list[n + 1 - (n + 1 - i)]
      BY <1>4
    <3>2. QED
      BY <3>1
  <2>3. \A k \in 1 .. n : n + 1 - k \in 1 .. n
    BY <1>4
  <2>4. QED
    BY <2>1, <2>2, <2>3
<1>9. \A k \in DOMAIN D : /\ D[k].fn = "deleteNode" /\ Waiting(D[k])
                          /\ \E i \in 1 .. n : D[k].page = list[i]
  BY <1>4, <1>5, <1>6
<1>10. QED
  BY <1>1, <1>6, <1>7, <1>8, <1>9 DEF D

\* What the call that condenses the root has to hand on.
LEMMA AtTheRoot ==
  ASSUME TreeInv, Step("condenseTree"), work[1].path = <<>>
  PROVE  LET list == work[1].toReinsert
         IN  /\ work[1].page = m_rootID /\ list \in Seq(Nat)
             /\ \A i, j \in DOMAIN list : list[i] = list[j] => i = j
             /\ \A i \in DOMAIN list : /\ list[i] \in DOMAIN nodes
                                       /\ nodes[list[i]].level < nodes[m_rootID].level
                                       /\ \A j \in 1 .. i - 1 : nodes[list[j]].level < nodes[list[i]].level
             /\ \A c : c \in HeldPages(work[1]) <=> \E i \in DOMAIN list : c = list[i]
             /\ \A k \in DOMAIN Tail(work) : Tail(work)[k].fn = "return"
<1> DEFINE f == work[1]
           list == f.toReinsert
<1>1. f \in CondenseFrames /\ CondenseOK(nodes, m_rootID, f) /\ f.fn = "condenseTree"
  BY InStep, FrameKinds DEF FrameOK
<1>2. list \in Seq(Nat) /\ Route(nodes, m_rootID, <<>>, f.page)
  BY <1>1 DEF CondenseFrames, CondenseOK
<1>3. f.page = m_rootID
  BY <1>2 DEF Route
<1>4. \A i \in DOMAIN list : /\ list[i] \in DOMAIN nodes
                             /\ nodes[list[i]].level < nodes[m_rootID].level
                             /\ \A j \in 1 .. i - 1 : nodes[list[j]].level < nodes[list[i]].level
  BY <1>1, <1>3 DEF CondenseOK
<1>5. \A c : c \in HeldPages(f) <=> \E i \in DOMAIN list : c = list[i]
  BY <1>1 DEF HeldPages
<1>6. \A i, j \in DOMAIN list : list[i] = list[j] => i = j
  <2>1. \A i, j \in DOMAIN list : i \in 1 .. j - 1 \/ j \in 1 .. i - 1 \/ i = j
    BY <1>2
  <2>2. \A i \in DOMAIN list : nodes[list[i]].level \in Nat
    BY <1>4, InStep, NodesTyped
  <2>3. \A x \in Nat : ~(x < x)
    OBVIOUS
  <2> HIDE DEF list
  <2>4. QED
    BY <1>4, <2>1, <2>2, <2>3
<1>7. \A k \in DOMAIN Tail(work) : Tail(work)[k].fn = "return"
  BY <1>1, InStep, TopOf
<1>8. QED
  BY <1>2, <1>3, <1>4, <1>5, <1>6, <1>7

LEMMA CondenseRootStep ==
  ASSUME TreeInv, CondenseRoot
  PROVE  TreeInv'
<1> DEFINE f == work[1]
           list == f.toReinsert
           n == nodes[m_rootID]
           node == Adjusted(n, n.kids, TightMBRs)
           new == Disposals(list)
<1>1. /\ Step("condenseTree") /\ f.path = <<>> /\ nodes' = [nodes EXCEPT ![m_rootID] = node]
      /\ work' = new \o Tail(work)
  BY DEF CondenseRoot, Become, AtRoot
<1>2. /\ list \in Seq(Nat)
      /\ \A i, j \in DOMAIN list : list[i] = list[j] => i = j
      /\ \A i \in DOMAIN list : list[i] \in DOMAIN nodes
      /\ \A c : c \in HeldPages(f) <=> \E i \in DOMAIN list : c = list[i]
  BY <1>1, AtTheRoot
<1> HIDE DEF list
<1>3. /\ new \in Seq(Frame) /\ Disjoint(new)
      /\ \A k \in DOMAIN new : /\ new[k].fn = "deleteNode" /\ Waiting(new[k])
                               /\ \E i \in DOMAIN list : new[k].page = list[i]
      /\ \A c : Holds(new, c) <=> \E i \in DOMAIN list : c = list[i]
  BY <1>2, DisposalsOf
<1> HIDE DEF new
<1>4. n.kids \in Seq(Entry) /\ FitsIn(nodes, n) /\ m_rootID \in DOMAIN nodes
  BY <1>1, InStep, NodesTyped
<1>5. SameIds(n.kids, n.kids) /\ TightMBRs \in BOOLEAN
  BY RTreeAssumption DEF SameIds
<1>6. FitsIn(nodes, node) /\ node.level = n.level /\ Children(node) = Children(n)
  BY <1>4, <1>5, AdjustedNode
<1> HIDE DEF node
<1>7. OnlyAt(m_rootID, node, nodes, nodes')
  BY <1>1, <1>4 DEF OnlyAt
<1>8. OwnedOnce(nodes, m_rootID, f, Tail(work))
  BY <1>1, InStep, HeldByTop
<1>9. SamePages(nodes, <<f>>, m_rootID, node, new)
  <2>1. \A c : Holds(<<f>>, c) <=> c \in HeldPages(f)
    BY DEF Holds
  <2>2. \A c \in Children(n) : c \notin HeldPages(f)
    BY <1>4, <1>8 DEF OwnedOnce
  <2>3. QED
    BY <1>2, <1>3, <1>6, <2>1, <2>2 DEF SamePages
<1>10. \A k \in DOMAIN new : FrameOK(nodes', m_rootID, new[k]) /\ (k # 1 => Waiting(new[k]))
  <2>1. DOMAIN nodes' = DOMAIN nodes
    BY <1>7 DEF OnlyAt
  <2>2. QED
    BY <1>2, <1>3, <2>1 DEF FrameOK
<1>11. new # <<>> /\ new[1].fn = "condenseTree" => Len(new) = 1 /\ work[1].fn = "condenseTree"
  <2>1. new # <<>> => 1 \in DOMAIN new
    BY <1>3
  <2>2. QED
    BY <1>3, <2>1
<1>12. Sound(nodes', m_rootID, new \o Tail(work))
  BY <1>1, <1>3, <1>4, <1>6, <1>7, <1>9, <1>10, <1>11, InStep, OnePageStep
<1>13. QED
  BY <1>1, <1>12, InStep DEF TreeInv

\* Only the root is at its level: any other page is an entry's or a waiting
\* call's.
LEMMA RootIsHighest ==
  ASSUME NEW pages, NEW root, NEW f, NEW tail, TreeOK(pages, root), OwnedOnce(pages, root, f, tail),
         \A c \in HeldPages(f) : c \in DOMAIN pages => pages[c].level < pages[root].level,
         \A k \in DOMAIN tail : HeldPages(tail[k]) = {},
         NEW c \in DOMAIN pages \ {root}
  PROVE  pages[c].level < pages[root].level
<1>1. pages[root].level \in Nat /\ \A p \in DOMAIN pages : pages[p].level \in Nat
  BY NodesTyped DEF TreeOK
<1>2. ~Holds(tail, c)
  BY DEF Holds
<1>3. CASE c \in HeldPages(f)
  BY <1>3
<1>4. CASE \E p \in DOMAIN pages : c \in Children(pages[p])
  <2>1. PICK p \in DOMAIN pages : c \in Children(pages[p])
    BY <1>4
  <2>2. /\ pages[c].level = pages[p].level - 1 /\ pages[p].level <= pages[root].level
    BY <2>1 DEF Children, TreeOK, FitsIn
  <2>3. \A x, y \in Nat : x <= y => x - 1 < y
    OBVIOUS
  <2>4. QED
    BY <1>1, <2>2, <2>3
<1>5. QED
  BY <1>2, <1>3, <1>4 DEF OwnedOnce

LEMMA NothingHeld ==
  ASSUME NEW f, f.fn = "return"
  PROVE  HeldPages(f) = {}
BY DEF HeldPages

LEMMA CollapseRootStep ==
  ASSUME TreeInv, CollapseRoot
  PROVE  TreeInv'
<1> DEFINE f == work[1]
           tail == Tail(work)
           list == f.toReinsert
           root == m_rootID
           n == nodes[root]
           child == n.kids[1].id
           m == nodes[child]
           new == Disposals(list)
<1>1. /\ Step("condenseTree") /\ f.path = <<>> /\ n.level # 0 /\ Len(n.kids) = 1
      /\ nodes' = [WithoutPage(child) EXCEPT ![root] = m]
      /\ work' = new \o tail
  BY DEF CollapseRoot, Become, AtRoot, OneChildLeft
<1>2. /\ list \in Seq(Nat)
      /\ \A i, j \in DOMAIN list : list[i] = list[j] => i = j
      /\ \A i \in DOMAIN list : list[i] \in DOMAIN nodes /\ nodes[list[i]].level < n.level
      /\ \A c : c \in HeldPages(f) <=> \E i \in DOMAIN list : c = list[i]
      /\ \A k \in DOMAIN tail : tail[k].fn = "return"
  BY <1>1, AtTheRoot
<1>3. /\ tail \in Seq(Frame) /\ work = <<f>> \o tail /\ <<f>> \in Seq(Frame)
  BY <1>1, InStep, TopOf
<1>4. /\ TreeOK(nodes, root) /\ root \in DOMAIN nodes /\ DOMAIN nodes \subseteq Nat
      /\ FitsIn(nodes, n) /\ n.kids \in Seq(Entry) /\ n.level \in Nat
  BY <1>1, InStep, NodesTyped DEF TreeOK
<1>5. OwnedOnce(nodes, root, f, tail)
  BY <1>1, InStep, HeldByTop
<1> HIDE DEF list, tail
<1>6. /\ new \in Seq(Frame) /\ Disjoint(new)
      /\ \A k \in DOMAIN new : /\ new[k].fn = "deleteNode" /\ Waiting(new[k])
                               /\ \E i \in DOMAIN list : new[k].page = list[i]
      /\ \A c : Holds(new, c) <=> \E i \in DOMAIN list : c = list[i]
  BY <1>2, DisposalsOf
<1> HIDE DEF new
<1>7. \A c : c \in Children(n) <=> c = child
  BY <1>1, <1>4 DEF Children, KidIds
<1> HIDE DEF child
<1>8. child \in DOMAIN nodes /\ child # root /\ m.level = n.level - 1 /\ child \notin HeldPages(f)
  <2>1. child \in Children(n)
    BY <1>7
  <2>2. QED
    BY <1>1, <1>4, <1>5, <2>1 DEF OwnedOnce, FitsIn, Children
<1>9. /\ DOMAIN nodes' = DOMAIN nodes \ {child} /\ nodes'[root] = m
      /\ \A p \in DOMAIN nodes \ {root, child} : nodes'[p] = nodes[p]
  BY <1>1, <1>4, <1>8 DEF WithoutPage
<1>10. \A c \in DOMAIN nodes \ {root} : nodes[c].level < n.level
  <2>1. \A c \in HeldPages(f) : nodes[c].level < n.level
    BY <1>2
  <2>2. \A k \in DOMAIN tail : HeldPages(tail[k]) = {}
    BY <1>2, NothingHeld
  <2>3. QED
    BY <1>4, <1>5, <2>1, <2>2, RootIsHighest
<1>11. \A p \in DOMAIN nodes : nodes[p].level \in Nat /\ FitsIn(nodes, nodes[p])
  BY <1>4, NodesTyped
<1>12. TreeOK(nodes', root)
  <2>1. root \in DOMAIN nodes' /\ DOMAIN nodes' \subseteq Nat
    BY <1>4, <1>8, <1>9
  <2>2. IsFiniteSet(DOMAIN nodes')
    BY <1>4, <1>9, FS_RemoveElement DEF TreeOK
  <2>3. \A p \in DOMAIN nodes' : nodes'[p].level <= nodes'[root].level
    <3>1. \A x, y \in Nat : x < y => x <= y - 1
      OBVIOUS
    <3>2. QED
      BY <1>4, <1>8, <1>9, <1>10, <1>11, <3>1
  <2>4. \A p \in DOMAIN nodes : p # root => \A c \in Children(nodes[p]) : c # child /\ c # root
    BY <1>4, <1>5, <1>7 DEF OwnedOnce
  <2>5. ASSUME NEW p \in DOMAIN nodes, p # root
        PROVE  FitsIn(nodes', nodes[p])
    <3>1. FitsIn(nodes, nodes[p])
      BY <1>11
    <3>2. nodes[p].level # 0 =>
            \A c \in KidIds(nodes[p].kids) : c \in DOMAIN nodes' /\ nodes'[c] = nodes[c]
      BY <1>9, <2>4, <2>5, <3>1 DEF Children, FitsIn
    <3>3. QED
      BY <3>1, <3>2 DEF FitsIn
  <2>6. \A p \in DOMAIN nodes' : FitsIn(nodes', nodes'[p])
    BY <1>8, <1>9, <2>5
  <2>7. QED
    BY <2>1, <2>2, <2>3, <2>6 DEF TreeOK
<1>13. Partition(Own(nodes', new \o tail), DOMAIN nodes' \ {root})
  <2> DEFINE changed == {root, child}
  <2>1. \A c : Has(c, nodes', changed, new) <=> c \in Children(m) \/ c \in HeldPages(f)
    <3>1. \A c : (\E p \in changed \cap DOMAIN nodes' : c \in Children(nodes'[p])) <=> c \in Children(m)
      BY <1>4, <1>8, <1>9
    <3>2. QED
      BY <1>2, <1>6, <3>1 DEF Has, Holds
  <2>2. \A c : Has(c, nodes, changed, <<f>>)
                 <=> c \in Children(m) \/ c \in HeldPages(f) \/ c = child
    <3>1. \A c : (\E p \in changed \cap DOMAIN nodes : c \in Children(nodes[p]))
                   <=> c \in Children(m) \/ c = child
      BY <1>4, <1>7, <1>8
    <3>2. \A c : (\E k \in DOMAIN <<f>> : c \in HeldPages(<<f>>[k])) <=> c \in HeldPages(f)
      OBVIOUS
    <3>3. QED
      BY <3>1, <3>2 DEF Has
  <2>3. \A c \in Children(m) : c \in DOMAIN nodes /\ c # root /\ c # child /\ c \notin HeldPages(f)
    <3>1. \A c \in Children(m) : c # child
      BY <1>4, <1>5, <1>7, <1>8 DEF OwnedOnce
    <3>2. QED
      BY <1>5, <1>8, <3>1 DEF OwnedOnce
  <2>4. \A c \in HeldPages(f) : c \in DOMAIN nodes /\ c # root /\ c # child
    BY <1>5, <1>8 DEF OwnedOnce
  <2>5. Apart(nodes', changed, new)
    <3>1. \A p \in changed \cap DOMAIN nodes' : p = root /\ nodes'[p] = m
      BY <1>9
    <3>2. \A k \in DOMAIN new : \A c \in HeldPages(new[k]) : c \in HeldPages(f)
      BY <1>2, <1>6 DEF Holds
    <3>3. QED
      BY <1>6, <2>3, <3>1, <3>2 DEF Apart, Disjoint
  <2>6. \A c : Has(c, nodes', changed, new) =>
                 /\ c \in DOMAIN nodes' /\ c # root
                 /\ c \in DOMAIN nodes => Has(c, nodes, changed, <<f>>)
    BY <1>9, <2>1, <2>2, <2>3, <2>4
  <2>7. \A c \in DOMAIN nodes' :
          c # root /\ (c \notin DOMAIN nodes \/ Has(c, nodes, changed, <<f>>))
            => Has(c, nodes', changed, new)
    BY <1>9, <2>1, <2>2
  <2>8. \A c \in DOMAIN nodes \ DOMAIN nodes' : c # root => Has(c, nodes, changed, <<f>>)
    BY <1>9, <2>2
  <2>9. \A p \in Nat \ changed : p \in DOMAIN nodes <=> p \in DOMAIN nodes'
    BY <1>9
  <2>10. \A p \in DOMAIN nodes \ changed : Children(nodes'[p]) = Children(nodes[p])
    BY <1>9
  <2>11. Partition(Own(nodes, <<f>> \o tail), DOMAIN nodes \ {root})
    BY <1>1, <1>3, InStep DEF Sound
  <2>12. DOMAIN nodes' \subseteq Nat
    BY <1>4, <1>9
  <2> HIDE DEF changed
  <2>13. QED
    BY <1>3, <1>4, <1>6, <2>5, <2>6, <2>7, <2>8, <2>9, <2>10, <2>11, <2>12, Rearrange
<1>14. StackOK(nodes', root, new \o tail)
  <2>1. \A k \in DOMAIN new : FrameOK(nodes', root, new[k]) /\ (k # 1 => Waiting(new[k]))
    <3>1. \A i \in DOMAIN list : list[i] \in DOMAIN nodes'
      BY <1>2, <1>8, <1>9
    <3>2. QED
      BY <1>6, <3>1 DEF FrameOK
  <2>2. \A k \in DOMAIN tail : FrameOK(nodes', root, tail[k]) /\ Waiting(tail[k])
    BY <1>2 DEF FrameOK, Waiting
  <2>3. ~(new # <<>> /\ new[1].fn = "condenseTree")
    <3>1. new # <<>> => 1 \in DOMAIN new
      BY <1>6
    <3>2. QED
      BY <1>6, <3>1
  <2>4. QED
    BY <1>3, <1>6, <2>1, <2>2, <2>3, PutOnTop
<1>15. QED
  BY <1>1, <1>12, <1>13, <1>14, InStep DEF TreeInv, Sound

------------------------------------------------------------------------------
(***************************************************************************)
(* Reinsertions.                                                           *)
(***************************************************************************)
Impls(kids, level, fresh) == [k \in DOMAIN kids |-> InsertAtLevel(kids[k], level, fresh)]

LEMMA ImplsOf ==
  ASSUME NEW kids \in Seq(Entry), NEW level \in Nat, NEW fresh \in BOOLEAN,
         level # 0 => DistinctIds(kids)
  PROVE  /\ Impls(kids, level, fresh) \in Seq(Frame) /\ Disjoint(Impls(kids, level, fresh))
         /\ DOMAIN Impls(kids, level, fresh) = DOMAIN kids
         /\ \A k \in DOMAIN kids :
              /\ Impls(kids, level, fresh)[k].fn = "insertData_impl"
              /\ Waiting(Impls(kids, level, fresh)[k])
              /\ Impls(kids, level, fresh)[k].level = level
              /\ Impls(kids, level, fresh)[k].entry = kids[k]
         /\ \A c : Holds(Impls(kids, level, fresh), c) <=> level # 0 /\ c \in KidIds(kids)
<1> DEFINE F(k) == InsertAtLevel(kids[k], level, fresh)
           I == Impls(kids, level, fresh)
           n == Len(kids)
<1>1. n \in Nat /\ DOMAIN kids = 1 .. n /\ I = [k \in 1 .. n |-> F(k)]
  BY DEF Impls
<1>2. \A k \in 1 .. n : /\ F(k) \in Frame /\ Waiting(F(k))
                        /\ \A c : c \in HeldPages(F(k)) <=> level # 0 /\ c = kids[k].id
  BY ImplFrameOf
<1>3. \A k \in 1 .. n : F(k).fn = "insertData_impl" /\ F(k).level = level /\ F(k).entry = kids[k]
  BY DEF InsertAtLevel
<1> HIDE DEF F, I, n
<1>4. I \in Seq(Frame) /\ DOMAIN I = 1 .. n /\ \A k \in 1 .. n : I[k] = F(k)
  BY <1>1, <1>2
<1>5. \A c : Holds(I, c) <=> level # 0 /\ c \in KidIds(kids)
  BY <1>1, <1>2, <1>4 DEF Holds, KidIds
<1>6. Disjoint(I)
  BY <1>1, <1>2, <1>4 DEF Disjoint, DistinctIds
<1>7. \A k \in DOMAIN kids : /\ I[k].fn = "insertData_impl" /\ Waiting(I[k])
                             /\ I[k].level = level /\ I[k].entry = kids[k]
  BY <1>1, <1>2, <1>3, <1>4
<1>8. QED
  BY <1>1, <1>4, <1>5, <1>6, <1>7 DEF I

LEMMA DeleteNodeStep ==
  ASSUME TreeInv, DeleteNode
  PROVE  TreeInv'
<1> DEFINE f == work[1]
           tail == Tail(work)
           page == f.page
           n == nodes[page]
           root == m_rootID
           fresh == TRUE
           new == Impls(n.kids, n.level, fresh)
<1>1. Step("deleteNode") /\ nodes' = WithoutPage(page) /\ work' = new \o tail
  BY Zenon DEF DeleteNode, Become, ReinsertEntries, Impls
<1>2. fresh \in BOOLEAN
  OBVIOUS
<1> HIDE DEF fresh
<1>3. f \in Frame /\ f.fn = "deleteNode" /\ page \in DOMAIN nodes /\ \A c : c \in HeldPages(f) <=> c = page
  BY <1>1, InStep DEF FrameOK, HeldPages
<1>4. /\ tail \in Seq(Frame) /\ work = <<f>> \o tail /\ <<f>> \in Seq(Frame)
      /\ \A k \in DOMAIN tail : FrameOK(nodes, root, tail[k]) /\ Waiting(tail[k])
  BY <1>1, InStep, TopOf
<1>5. /\ TreeOK(nodes, root) /\ root \in DOMAIN nodes /\ DOMAIN nodes \subseteq Nat
      /\ FitsIn(nodes, n) /\ n.kids \in Seq(Entry) /\ n.level \in Nat
  BY <1>1, <1>3, InStep, NodesTyped DEF TreeOK
<1>6. OwnedOnce(nodes, root, f, tail)
  BY <1>1, InStep, HeldByTop
<1> HIDE DEF tail, page
<1>7. /\ page # root /\ ~Holds(tail, page)
      /\ \A p \in DOMAIN nodes : page \notin Children(nodes[p])
  BY <1>3, <1>6 DEF OwnedOnce
<1>8. /\ new \in Seq(Frame) /\ Disjoint(new) /\ DOMAIN new = DOMAIN n.kids
      /\ \A k \in DOMAIN n.kids : /\ new[k].fn = "insertData_impl" /\ Waiting(new[k])
                                  /\ new[k].level = n.level /\ new[k].entry = n.kids[k]
      /\ \A c : Holds(new, c) <=> n.level # 0 /\ c \in KidIds(n.kids)
  <2>1. n.level # 0 => DistinctIds(n.kids)
    BY <1>5 DEF FitsIn
  <2>2. QED
    BY <1>2, <1>5, <2>1, ImplsOf
<1> HIDE DEF new
<1>9. DOMAIN nodes' = DOMAIN nodes \ {page} /\ \A p \in DOMAIN nodes \ {page} : nodes'[p] = nodes[p]
  BY <1>1 DEF WithoutPage
<1>10. TreeOK(nodes', root)
  <2>1. root \in DOMAIN nodes' /\ DOMAIN nodes' \subseteq Nat
    BY <1>5, <1>7, <1>9
  <2>2. IsFiniteSet(DOMAIN nodes')
    BY <1>5, <1>9, FS_RemoveElement DEF TreeOK
  <2>3. ASSUME NEW p \in DOMAIN nodes'
        PROVE  FitsIn(nodes', nodes'[p]) /\ nodes'[p].level <= nodes'[root].level
    <3>1. FitsIn(nodes, nodes[p]) /\ nodes[p].level <= nodes[root].level
      BY <1>5, <1>9 DEF TreeOK
    <3>2. nodes[p].level # 0 =>
            \A c \in KidIds(nodes[p].kids) : c \in DOMAIN nodes' /\ nodes'[c] = nodes[c]
      BY <1>7, <1>9, <3>1 DEF Children, FitsIn
    <3>3. FitsIn(nodes', nodes[p])
      BY <3>1, <3>2 DEF FitsIn
    <3>4. QED
      BY <1>9, <2>1, <3>1, <3>3
  <2>4. QED
    BY <2>1, <2>2, <2>3 DEF TreeOK
<1>11. Partition(Own(nodes', new \o tail), DOMAIN nodes' \ {root})
  <2> DEFINE changed == {page}
  <2>1. \A c : Has(c, nodes', changed, new) <=> c \in Children(n)
    BY <1>8, <1>9 DEF Has, Holds, Children
  <2>2. \A c : Has(c, nodes, changed, <<f>>) <=> c \in Children(n) \/ c = page
    <3>1. \A c : (\E k \in DOMAIN <<f>> : c \in HeldPages(<<f>>[k])) <=> c = page
      BY <1>3
    <3>2. QED
      BY <1>3, <3>1 DEF Has
  <2>3. \A c \in Children(n) : c \in DOMAIN nodes /\ c # root /\ c # page
    BY <1>3, <1>6, <1>7 DEF OwnedOnce
  <2>4. Apart(nodes', changed, new)
    BY <1>8, <1>9 DEF Apart, Disjoint
  <2>5. \A c : Has(c, nodes', changed, new) =>
                 /\ c \in DOMAIN nodes' /\ c # root
                 /\ c \in DOMAIN nodes => Has(c, nodes, changed, <<f>>)
    BY <1>9, <2>1, <2>2, <2>3
  <2>6. \A c \in DOMAIN nodes' :
          c # root /\ (c \notin DOMAIN nodes \/ Has(c, nodes, changed, <<f>>))
            => Has(c, nodes', changed, new)
    BY <1>9, <2>1, <2>2
  <2>7. \A c \in DOMAIN nodes \ DOMAIN nodes' : c # root => Has(c, nodes, changed, <<f>>)
    BY <1>9, <2>2
  <2>8. \A p \in Nat \ changed : p \in DOMAIN nodes <=> p \in DOMAIN nodes'
    BY <1>9
  <2>9. \A p \in DOMAIN nodes \ changed : Children(nodes'[p]) = Children(nodes[p])
    BY <1>9
  <2>10. Partition(Own(nodes, <<f>> \o tail), DOMAIN nodes \ {root})
    BY <1>1, <1>4, InStep DEF Sound
  <2>11. DOMAIN nodes' \subseteq Nat
    BY <1>5, <1>9
  <2> HIDE DEF changed
  <2>12. QED
    BY <1>4, <1>5, <1>8, <2>4, <2>5, <2>6, <2>7, <2>8, <2>9, <2>10, <2>11, Rearrange
<1>12. StackOK(nodes', root, new \o tail)
  <2>1. \A k \in DOMAIN new : FrameOK(nodes', root, new[k]) /\ (k # 1 => Waiting(new[k]))
    <3>1. n.level <= nodes'[root].level
      BY <1>3, <1>5, <1>7, <1>9 DEF TreeOK
    <3>2. ASSUME NEW k \in DOMAIN n.kids
          PROVE  EntryAt(nodes', n.kids[k], n.level)
      <4>1. n.level # 0 => /\ n.kids[k].id \in Children(n)
                           /\ n.kids[k].id \in DOMAIN nodes
                           /\ nodes[n.kids[k].id].level = n.level - 1
        BY <1>5 DEF FitsIn, Children, KidIds
      <4>2. QED
        BY <1>3, <1>7, <1>9, <4>1 DEF EntryAt
    <3>3. QED
      BY <1>8, <3>1, <3>2 DEF FrameOK, ImplOK
  <2>2. ASSUME NEW k \in DOMAIN tail
        PROVE  FrameOK(nodes', root, tail[k]) /\ Waiting(tail[k])
    <3>1. tail[k] \in Frame /\ FrameOK(nodes, root, tail[k]) /\ Waiting(tail[k])
      BY <1>4
    <3>2. \A p \in HeldPages(tail[k]) : p \in DOMAIN nodes' /\ nodes'[p].level = nodes[p].level
      BY <1>6, <1>7, <1>9 DEF OwnedOnce, Holds
    <3>3. /\ nodes[root].level \in Nat /\ nodes'[root].level \in Nat
          /\ nodes[root].level <= nodes'[root].level
      <4>1. nodes[root].level \in Nat /\ nodes'[root] = nodes[root]
        BY <1>5, <1>7, <1>9, NodesTyped
      <4>2. QED
        BY <4>1
    <3>4. QED
      BY <3>1, <3>2, <3>3, StillWaiting
  <2>3. ~(new # <<>> /\ new[1].fn = "condenseTree")
    <3>1. new # <<>> => 1 \in DOMAIN new
      BY <1>8
    <3>2. QED
      BY <1>8, <3>1
  <2>4. QED
    BY <1>4, <1>8, <2>1, <2>2, <2>3, PutOnTop
<1>13. QED
  BY <1>1, <1>10, <1>11, <1>12, InStep, Zenon DEF TreeInv, Sound

------------------------------------------------------------------------------
(***************************************************************************)
(* A full node's entries and a new one, in two groups.                     *)
(***************************************************************************)
InGroups(kids, g) ==
  /\ g[1] \in Seq(Entry) /\ g[2] \in Seq(Entry)
  /\ Len(g[1]) >= 1 /\ Len(g[2]) >= 1 /\ Len(g[1]) + Len(g[2]) = Len(kids)
  /\ \A c : c \in KidIds(kids) <=> c \in KidIds(g[1]) \/ c \in KidIds(g[2])
  /\ DistinctIds(kids) => /\ DistinctIds(g[1]) /\ DistinctIds(g[2])
                          /\ \A c \in KidIds(g[1]) : c \notin KidIds(g[2])

LEMMA GroupsOf ==
  ASSUME NEW kids \in Seq(Entry), NEW g, NEW least, Distributes(kids, g, least)
  PROVE  InGroups(kids, g)
<1> DEFINE n == Len(kids)
<1>1. n \in Nat /\ DOMAIN kids = 1 .. n /\ \A i \in 1 .. n : kids[i] \in Entry
  OBVIOUS
<1>2. PICK o \in Orderings(n) : \E p \in 1 .. n - 1 :
        g = <<FirstGroup(kids, o, p), SecondGroup(kids, o, p)>>
  BY DEF Distributes
<1>3. PICK p \in 1 .. n - 1 : g = <<FirstGroup(kids, o, p), SecondGroup(kids, o, p)>>
  BY <1>2
<1>4. o \in [1 .. n -> 1 .. n] /\ \A j, k \in 1 .. n : o[j] = o[k] => j = k
  BY DEF Orderings
<1>5. \A i \in 1 .. n : \E k \in 1 .. n : o[k] = i
  BY <1>1, <1>4, Onto
<1> DEFINE g1 == FirstGroup(kids, o, p)
           g2 == SecondGroup(kids, o, p)
<1>6. g1 = [k \in 1 .. p |-> kids[o[k]]] /\ g2 = [k \in 1 .. n - p |-> kids[o[p + k]]]
  BY DEF FirstGroup, SecondGroup
<1> HIDE DEF n
<1>7. /\ p \in Nat /\ p >= 1 /\ n - p \in Nat /\ n - p >= 1 /\ p + (n - p) = n
      /\ \A k \in 1 .. p : k \in 1 .. n
      /\ \A k \in 1 .. n - p : p + k \in 1 .. n
      /\ \A k \in 1 .. n : k \in 1 .. p \/ (k - p \in 1 .. n - p /\ k = p + (k - p))
      /\ \A j \in 1 .. p, k \in 1 .. n - p : j # p + k
      /\ \A j, k \in 1 .. n - p : p + j = p + k => j = k
  BY <1>1
<1>8. g1 \in [1 .. p -> Entry] /\ g2 \in [1 .. n - p -> Entry]
  <2>1. \A k \in 1 .. n : kids[o[k]] \in Entry
    BY <1>1, <1>4
  <2>2. \A k \in 1 .. p : kids[o[k]] \in Entry
    BY <1>7, <2>1
  <2>3. \A k \in 1 .. n - p : kids[o[p + k]] \in Entry
    BY <1>7, <2>1
  <2>4. QED
    BY <1>6, <2>2, <2>3
<1>9. /\ \A k \in 1 .. p : g1[k] = kids[o[k]]
      /\ \A k \in 1 .. n - p : g2[k] = kids[o[p + k]]
  BY <1>6
<1>10. g[1] = g1 /\ g[2] = g2
  BY <1>3
<1> HIDE DEF g1, g2
<1>11. /\ g1 \in Seq(Entry) /\ Len(g1) = p /\ DOMAIN g1 = 1 .. p
       /\ g2 \in Seq(Entry) /\ Len(g2) = n - p /\ DOMAIN g2 = 1 .. n - p
  BY <1>7, <1>8
<1>12. ASSUME NEW c
       PROVE  c \in KidIds(kids) <=> c \in KidIds(g1) \/ c \in KidIds(g2)
  <2>1. ASSUME c \in KidIds(kids)
        PROVE  c \in KidIds(g1) \/ c \in KidIds(g2)
    <3>1. PICK i \in 1 .. n : c = kids[i].id
      BY <1>1, <2>1 DEF KidIds
    <3>2. PICK k \in 1 .. n : o[k] = i
      BY <1>5
    <3>3. CASE k \in 1 .. p
      BY <1>9, <1>11, <3>1, <3>2, <3>3 DEF KidIds
    <3>4. CASE k - p \in 1 .. n - p /\ k = p + (k - p)
      <4>1. c = g2[k - p].id
        BY <1>9, <3>1, <3>2, <3>4
      <4>2. QED
        BY <1>11, <3>4, <4>1 DEF KidIds
    <3>5. QED
      BY <1>7, <3>3, <3>4
  <2>2. ASSUME NEW k \in 1 .. p, c = g1[k].id
        PROVE  c \in KidIds(kids)
    <3>1. o[k] \in DOMAIN kids
      BY <1>1, <1>4, <1>7
    <3>2. c = kids[o[k]].id
      BY <1>9, <2>2
    <3>3. QED
      BY <3>1, <3>2 DEF KidIds
  <2>3. ASSUME NEW k \in 1 .. n - p, c = g2[k].id
        PROVE  c \in KidIds(kids)
    <3>1. o[p + k] \in DOMAIN kids
      BY <1>1, <1>4, <1>7
    <3>2. c = kids[o[p + k]].id
      BY <1>9, <2>3
    <3>3. QED
      BY <3>1, <3>2 DEF KidIds
  <2>4. QED
    BY <1>11, <2>1, <2>2, <2>3 DEF KidIds
<1>13. ASSUME DistinctIds(kids)
       PROVE  /\ DistinctIds(g1) /\ DistinctIds(g2)
              /\ \A c \in KidIds(g1) : c \notin KidIds(g2)
  <2>1. \A j, k \in 1 .. n : kids[o[j]].id = kids[o[k]].id => j = k
    <3>1. \A j, k \in 1 .. n : kids[j].id = kids[k].id => j = k
      BY <1>1, <1>13 DEF DistinctIds
    <3>2. QED
      BY <1>4, <3>1
  <2>2. DistinctIds(g1)
    <3>1. \A j, k \in 1 .. p : g1[j].id = g1[k].id => j = k
      <4>1. TAKE j, k \in 1 .. p
      <4>2. HAVE g1[j].id = g1[k].id
      <4>3. j \in 1 .. n /\ k \in 1 .. n
        BY <1>7
      <4>4. kids[o[j]].id = kids[o[k]].id
        BY <1>9, <4>2
      <4>5. QED
        BY <2>1, <4>3, <4>4
    <3>2. QED
      BY <1>11, <3>1 DEF DistinctIds
  <2>3. DistinctIds(g2)
    <3>1. \A j, k \in 1 .. n - p : g2[j].id = g2[k].id => j = k
      <4>1. TAKE j, k \in 1 .. n - p
      <4>2. HAVE g2[j].id = g2[k].id
      <4>3. p + j = p + k
        BY <1>7, <1>9, <2>1, <4>2
      <4>4. QED
        BY <1>7, <4>3
    <3>2. QED
      BY <1>11, <3>1 DEF DistinctIds
  <2>4. ASSUME NEW j \in 1 .. p, NEW k \in 1 .. n - p, g1[j].id = g2[k].id
        PROVE  FALSE
    <3>1. j \in 1 .. n /\ p + k \in 1 .. n
      BY <1>7
    <3>2. kids[o[j]].id = kids[o[p + k]].id
      BY <1>9, <2>4
    <3>3. j = p + k
      BY <2>1, <3>1, <3>2
    <3>4. QED
      BY <1>7, <3>3
  <2>5. QED
    BY <1>11, <2>2, <2>3, <2>4 DEF KidIds
<1>14. QED
  BY <1>7, <1>10, <1>11, <1>12, <1>13 DEF InGroups, n

LEMMA OverflowOf ==
  ASSUME NEW pages, NEW node, FitsIn(pages, node), Full(node), NEW entry \in Entry
  PROVE  /\ Overflowing(node, entry) \in Seq(Entry)
         /\ Len(Overflowing(node, entry)) = Capacity(node.level) + 1
         /\ \A c : c \in KidIds(Overflowing(node, entry)) <=> c \in KidIds(node.kids) \/ c = entry.id
         /\ DistinctIds(node.kids) /\ entry.id \notin KidIds(node.kids)
              => DistinctIds(Overflowing(node, entry))
<1> DEFINE kids == node.kids
           n == Capacity(node.level)
           front == SubSeq(kids, 1, n)
           more == Append(front, entry)
<1>1. kids \in Seq(Entry) /\ Len(kids) \in Nat /\ DOMAIN kids = 1 .. Len(kids)
  BY DEF FitsIn, Nodes
<1>2. n \in Nat /\ Len(kids) <= n /\ Len(kids) >= n
  BY CapacityAtLeastFour DEF FitsIn, Full
<1>3. Len(kids) = n
  BY <1>1, <1>2
<1> HIDE DEF n, kids
<1>4. front \in Seq(Entry) /\ Len(front) = n /\ \A i \in 1 .. n : front[i] = kids[i]
  <2>1. n \in 0 .. Len(kids)
    BY <1>2, <1>3
  <2>2. QED
    BY <1>1, <2>1, PrefixOf
<1> HIDE DEF front
<1>5. /\ more \in Seq(Entry) /\ Len(more) = n + 1 /\ DOMAIN more = (1 .. n) \cup {n + 1}
      /\ more[n + 1] = entry
  BY <1>2, <1>4
<1>6. \A i \in 1 .. n : more[i] = kids[i]
  BY <1>2, <1>4
<1> HIDE DEF more
<1>7. DOMAIN kids = 1 .. n
  BY <1>1, <1>3
<1>8. \A c : c \in KidIds(more) <=> c \in KidIds(kids) \/ c = entry.id
  BY <1>5, <1>6, <1>7 DEF KidIds
<1>9. ASSUME DistinctIds(kids), entry.id \notin KidIds(kids)
      PROVE  DistinctIds(more)
  <2>1. \A i \in 1 .. n : kids[i].id # entry.id
    BY <1>7, <1>9 DEF KidIds
  <2>2. \A i, j \in 1 .. n : kids[i].id = kids[j].id => i = j
    BY <1>7, <1>9 DEF DistinctIds
  <2>3. QED
    BY <1>5, <1>6, <2>1, <2>2 DEF DistinctIds
<1>10. Overflowing(node, entry) = more
  BY DEF Overflowing, more, front, n, kids
<1>11. QED
  BY <1>5, <1>8, <1>9, <1>10 DEF n, kids

------------------------------------------------------------------------------
(***************************************************************************)
(* insertData on a full node.                                              *)
(***************************************************************************)
Inserting(f) ==
  /\ f \in InsertFrames /\ f.entry \in Entry /\ f.path \in Path /\ f.fn = "insertData"
  /\ f.page \in DOMAIN nodes /\ Route(nodes, m_rootID, f.path, f.page)
  /\ f.node.level = nodes[f.page].level /\ f.node.level \in Nat
  /\ FitsIn(nodes, f.node) /\ KidIds(f.node.kids) = KidIds(nodes[f.page].kids)
  /\ EntryAt(nodes, f.entry, f.node.level)
  /\ f.node.level # 0 => f.entry.id \notin KidIds(f.node.kids)
  /\ \A c : c \in HeldPages(f) <=> f.node.level # 0 /\ c = f.entry.id

LEMMA InsertingFacts ==
  ASSUME TreeInv, Step("insertData")
  PROVE  Inserting(work[1])
<1> DEFINE f == work[1]
           n == nodes[f.page]
<1>1. f \in InsertFrames /\ InsertOK(nodes, m_rootID, f)
  BY InStep, FrameKinds DEF FrameOK
<1>2. /\ f.entry \in Entry /\ f.path \in Path /\ f.fn = "insertData" /\ f.node \in Nodes
      /\ f.page \in DOMAIN nodes /\ Route(nodes, m_rootID, f.path, f.page)
      /\ f.node.level = n.level /\ SameIds(f.node.kids, n.kids) /\ EntryAt(nodes, f.entry, f.node.level)
  BY <1>1 DEF InsertFrames, InsertOK, Route
<1>3. n \in Nodes /\ n.kids \in Seq(Entry) /\ n.level \in Nat /\ FitsIn(nodes, n)
  BY <1>2, InStep, NodesTyped
<1>4. f.node.kids \in Seq(Entry)
  BY <1>2 DEF Nodes
<1>5. FitsIn(nodes, f.node) /\ KidIds(f.node.kids) = KidIds(n.kids)
  BY <1>2, <1>3, <1>4, SameIdsSame DEF FitsIn
<1>6. \A c : c \in HeldPages(f) <=> f.node.level # 0 /\ c = f.entry.id
  BY <1>2 DEF HeldPages
<1>7. f.node.level # 0 => f.entry.id \notin KidIds(f.node.kids)
  <2>1. OwnedOnce(nodes, m_rootID, f, Tail(work))
    BY InStep, HeldByTop
  <2>2. \A c \in Children(n) : c \notin HeldPages(f)
    BY <1>2, <2>1 DEF OwnedOnce
  <2>3. QED
    BY <1>2, <1>5, <1>6, <2>2 DEF Children
<1>8. QED
  BY <1>1, <1>2, <1>3, <1>5, <1>6, <1>7 DEF Inserting

\* Two nodes that have the children of a full one and the new entry's.
Parted(f, left, right) ==
  /\ FitsIn(nodes, left) /\ FitsIn(nodes, right)
  /\ left.level = f.node.level /\ right.level = f.node.level
  /\ left.mbr \in Regions /\ right.mbr \in Regions
  /\ \A c : c \in Children(left) => c \notin Children(right)
  /\ \A c : c \in Children(left) \/ c \in Children(right)
              <=> c \in Children(nodes[f.page]) \/ c \in HeldPages(f)

LEMMA PartsOf ==
  ASSUME NEW f, Inserting(f), Full(f.node), NEW g, NEW least,
         Distributes(Overflowing(f.node, f.entry), g, least)
  PROVE  /\ Parted(f, Node(f.node.level, g[1]), Node(f.node.level, g[2]))
         /\ g[1] \in Seq(Entry) /\ g[2] \in Seq(Entry)
         /\ f.node.level # 0 => DistinctIds(g[2])
<1> DEFINE level == f.node.level
           all == Overflowing(f.node, f.entry)
           left == Node(level, g[1])
           right == Node(level, g[2])
           n == nodes[f.page]
<1>1. /\ all \in Seq(Entry) /\ Len(all) = Capacity(level) + 1
      /\ \A c : c \in KidIds(all) <=> c \in KidIds(f.node.kids) \/ c = f.entry.id
      /\ DistinctIds(f.node.kids) /\ f.entry.id \notin KidIds(f.node.kids) => DistinctIds(all)
  BY OverflowOf DEF Inserting
<1>2. InGroups(all, g)
  BY <1>1, GroupsOf
<1>3. /\ level \in Nat /\ level = n.level /\ FitsIn(nodes, f.node)
      /\ KidIds(f.node.kids) = KidIds(n.kids) /\ EntryAt(nodes, f.entry, level)
      /\ level # 0 => f.entry.id \notin KidIds(f.node.kids)
      /\ \A c : c \in HeldPages(f) <=> level # 0 /\ c = f.entry.id
  BY DEF Inserting
<1> HIDE DEF all, level
<1>4. /\ g[1] \in Seq(Entry) /\ g[2] \in Seq(Entry) /\ Len(g[1]) >= 1 /\ Len(g[2]) >= 1
      /\ Len(g[1]) + Len(g[2]) = Capacity(level) + 1
      /\ \A c : c \in KidIds(all) <=> c \in KidIds(g[1]) \/ c \in KidIds(g[2])
      /\ DistinctIds(all) => /\ DistinctIds(g[1]) /\ DistinctIds(g[2])
                             /\ \A c \in KidIds(g[1]) : c \notin KidIds(g[2])
  BY <1>1, <1>2 DEF InGroups
<1>5. level # 0 => DistinctIds(all)
  BY <1>1, <1>3 DEF FitsIn, level
<1>6. Len(g[1]) <= Capacity(level) /\ Len(g[2]) <= Capacity(level)
  <2>1. Len(g[1]) \in Nat /\ Len(g[2]) \in Nat /\ Capacity(level) \in Nat
    BY <1>4, CapacityAtLeastFour
  <2>2. \A x, y, z \in Nat : x >= 1 /\ y >= 1 /\ x + y = z + 1 => x <= z /\ y <= z
    OBVIOUS
  <2>3. QED
    BY <1>4, <2>1, <2>2
<1>7. /\ left \in Nodes /\ left.level = level /\ left.kids = g[1] /\ left.mbr \in Regions
      /\ right \in Nodes /\ right.level = level /\ right.kids = g[2] /\ right.mbr \in Regions
  BY <1>3, <1>4, NodeOf
<1> HIDE DEF left, right
<1>8. level # 0 => \A c \in KidIds(all) : c \in DOMAIN nodes /\ nodes[c].level = level - 1
  BY <1>1, <1>3 DEF FitsIn, EntryAt, level
<1>9. FitsIn(nodes, left) /\ FitsIn(nodes, right)
  BY <1>4, <1>5, <1>6, <1>7, <1>8 DEF FitsIn
<1>10. \A c : c \in Children(left) => c \notin Children(right)
  BY <1>4, <1>5, <1>7 DEF Children
<1>11. \A c : c \in Children(left) \/ c \in Children(right)
                <=> c \in Children(n) \/ c \in HeldPages(f)
  <2>1. CASE level = 0
    BY <1>3, <1>7, <2>1 DEF Children
  <2>2. CASE level # 0
    BY <1>1, <1>3, <1>4, <1>7, <2>2 DEF Children
  <2>3. QED
    BY <2>1, <2>2
<1>12. QED
  BY <1>4, <1>5, <1>7, <1>9, <1>10, <1>11 DEF Parted, left, right, level

(***************************************************************************)
(* A forced reinsertion takes at least one entry out: true of every        *)
(* capacity with the default factor, and not enforced for others.          *)
(***************************************************************************)
ReinsertsSome ==
  Variant = "rstar" =>
    \A capacity \in {IndexCapacity, LeafCapacity} : Floor(capacity + 1, ReinsertFactor) >= 1

LEMMA ForcedReinsertStep ==
  ASSUME ReinsertsSome, TreeInv, ForcedReinsert
  PROVE  TreeInv'
<1> DEFINE f == work[1]
           level == f.node.level
           all == Overflowing(f.node, f.entry)
           root == m_rootID
           n == nodes[f.page]
<1>1. /\ Step("insertData") /\ Variant = "rstar" /\ Full(f.node) /\ f.path # <<>>
  BY DEF ForcedReinsert
<1>2. PICK r \in Reinsertions(all, f.node.mbr) :
        /\ nodes' = [nodes EXCEPT ![f.page] = Node(level, r[1])]
        /\ Become(AdjustParent(f.page, Node(level, r[1]).mbr, f.path, TRUE)
                    \o [k \in DOMAIN r[2] |-> InsertAtLevel(r[2][k], level, FALSE)])
  BY DEF ForcedReinsert
<1>3. Inserting(f)
  BY <1>1, InsertingFacts
<1> DEFINE kept == Node(level, r[1])
           rest == Node(level, r[2])
           force == TRUE
           fresh == FALSE
           up == AdjustParent(f.page, kept.mbr, f.path, force)
           impls == Impls(r[2], level, fresh)
<1>4. /\ nodes' = [nodes EXCEPT ![f.page] = kept] /\ work' = (up \o impls) \o Tail(work)
  BY <1>2 DEF Become, Impls
<1>5. Distributes(all, r, 1)
  <2>1. all \in Seq(Entry) /\ Len(all) = Capacity(level) + 1
    BY <1>1, <1>3, OverflowOf DEF Inserting
  <2>2. Capacity(level) \in {IndexCapacity, LeafCapacity} /\ Capacity(level) \in Nat
    BY CapacityAtLeastFour DEF Capacity
  <2>3. Floor(Len(all), ReinsertFactor) >= 1 /\ Len(all) >= 1
    BY <1>1, <2>1, <2>2 DEF ReinsertsSome
  <2> HIDE DEF all
  <2>4. QED
    BY <1>2, <2>1, <2>3, ReinsertionsDistribute
<1>6. /\ Parted(f, kept, rest) /\ r[1] \in Seq(Entry) /\ r[2] \in Seq(Entry)
      /\ level # 0 => DistinctIds(r[2])
  BY <1>1, <1>3, <1>5, PartsOf
<1>7. /\ f.page \in DOMAIN nodes /\ Route(nodes, root, f.path, f.page) /\ level = n.level
      /\ level \in Nat /\ f.path \in Path
  BY <1>3 DEF Inserting
<1>8. rest.kids = r[2] /\ rest.level = level
  BY <1>6, <1>7, NodeOf
<1>9. force \in BOOLEAN /\ fresh \in BOOLEAN
  OBVIOUS
<1> HIDE DEF all, kept, rest, force, fresh, level
<1>10. /\ impls \in Seq(Frame) /\ Disjoint(impls) /\ DOMAIN impls = DOMAIN r[2]
       /\ \A k \in DOMAIN r[2] : /\ impls[k].fn = "insertData_impl" /\ Waiting(impls[k])
                                 /\ impls[k].level = level /\ impls[k].entry = r[2][k]
       /\ \A c : Holds(impls, c) <=> level # 0 /\ c \in KidIds(r[2])
  BY <1>6, <1>7, <1>9, ImplsOf
<1>11. FitsIn(nodes, kept) /\ kept.level = n.level /\ kept.mbr \in Regions
  BY <1>6, <1>7 DEF Parted, level
<1>12. OnlyAt(f.page, kept, nodes, nodes')
  BY <1>4, <1>7 DEF OnlyAt
<1>13. TreeOK(nodes', root) /\ SameLevels(nodes, nodes') /\ f.page \in Nat /\ root \in DOMAIN nodes
  BY <1>1, <1>7, <1>11, <1>12, InStep, PageChanged, NodesTyped
<1>14. Route(nodes', root, f.path, f.page)
  BY <1>7, <1>13, SameRoute
<1>15. /\ up \in Seq(Frame) /\ Len(up) = 1
       /\ \A k \in DOMAIN up : /\ up[k].fn = "adjustTree" /\ HeldPages(up[k]) = {}
                               /\ FrameOK(nodes', root, up[k])
  BY <1>1, <1>7, <1>9, <1>11, <1>13, <1>14, AdjustParentOf
<1> DEFINE new == up \o impls
<1> HIDE DEF up, impls
<1>16. DOMAIN up = {1} /\ \A k \in DOMAIN up : k = 1
  BY <1>15
<1>17. new \in Seq(Frame) /\ Len(new) = 1 + Len(impls) /\ new[1] = up[1]
       /\ (\A k \in 1 .. Len(impls) : new[1 + k] = impls[k])
  BY <1>10, <1>15, Concatenated
<1> HIDE DEF new
<1>18. DOMAIN impls = 1 .. Len(impls) /\ Len(impls) \in Nat
  BY <1>10
<1>19. \A k \in DOMAIN new : k = 1 \/ \E j \in DOMAIN impls : k = 1 + j /\ new[k] = impls[j]
  <2>1. ASSUME NEW k \in DOMAIN new, k # 1
        PROVE  k - 1 \in DOMAIN impls /\ k = 1 + (k - 1)
    BY <1>17, <1>18, <2>1
  <2>2. QED
    BY <1>17, <1>18, <2>1
<1>20. \A c : Holds(new, c) <=> Holds(impls, c)
  <2>1. \A j \in DOMAIN impls : 1 + j \in DOMAIN new /\ new[1 + j] = impls[j]
    BY <1>17, <1>18
  <2>2. HeldPages(new[1]) = {}
    BY <1>15, <1>16, <1>17
  <2>3. QED
    BY <1>19, <2>1, <2>2 DEF Holds
<1>21. Disjoint(new)
  <2>1. HeldPages(new[1]) = {}
    BY <1>15, <1>16, <1>17
  <2>2. ASSUME NEW j \in DOMAIN new, NEW k \in DOMAIN new, NEW c \in HeldPages(new[j]),
               c \in HeldPages(new[k])
        PROVE  j = k
    <3>1. PICK i \in DOMAIN impls : j = 1 + i /\ new[j] = impls[i]
      BY <1>19, <2>1, <2>2
    <3>2. PICK l \in DOMAIN impls : k = 1 + l /\ new[k] = impls[l]
      BY <1>19, <2>1, <2>2
    <3>3. i = l
      BY <1>10, <2>2, <3>1, <3>2 DEF Disjoint
    <3>4. QED
      BY <3>1, <3>2, <3>3
  <2>3. QED
    BY <2>2 DEF Disjoint
<1>22. SamePages(nodes, <<f>>, f.page, kept, new)
  <2>1. \A c : Holds(new, c) <=> c \in Children(rest)
    BY <1>8, <1>10, <1>20 DEF Children
  <2>2. \A c : Holds(<<f>>, c) <=> c \in HeldPages(f)
    BY DEF Holds
  <2>3. QED
    BY <1>6, <1>21, <2>1, <2>2 DEF SamePages, Parted
<1>23. \A k \in DOMAIN new : FrameOK(nodes', root, new[k]) /\ (k # 1 => Waiting(new[k]))
  <2>1. FrameOK(nodes', root, new[1])
    BY <1>15, <1>16, <1>17
  <2>2. level <= nodes'[root].level
    <3>1. n.level <= nodes[root].level /\ nodes'[root].level = nodes[root].level
      BY <1>1, <1>7, <1>13, InStep, NodesTyped DEF SameLevels
    <3>2. QED
      BY <1>7, <3>1
  <2>3. ASSUME NEW j \in DOMAIN impls
        PROVE  FrameOK(nodes', root, impls[j]) /\ Waiting(impls[j])
    <3>1. /\ impls[j].fn = "insertData_impl" /\ Waiting(impls[j])
          /\ impls[j].level = level /\ impls[j].entry = r[2][j]
      BY <1>10
    <3>2. level # 0 => r[2][j].id \in DOMAIN nodes /\ nodes[r[2][j].id].level = level - 1
      <4>1. level # 0 => \A c \in KidIds(rest.kids) : c \in DOMAIN nodes /\ nodes[c].level = level - 1
        BY <1>6, <1>8 DEF Parted, FitsIn
      <4>2. r[2][j].id \in KidIds(rest.kids)
        BY <1>8, <1>10 DEF KidIds
      <4>3. QED
        BY <4>1, <4>2
    <3>3. EntryAt(nodes', r[2][j], level)
      BY <1>13, <3>2 DEF EntryAt, SameLevels
    <3>4. QED
      BY <2>2, <3>1, <3>3 DEF FrameOK, ImplOK
  <2>4. QED
    BY <1>19, <2>1, <2>3
<1>24. new # <<>> => new[1].fn # "condenseTree"
  BY <1>15, <1>16, <1>17
<1>25. Sound(nodes', root, new \o Tail(work))
  BY <1>1, <1>7, <1>11, <1>12, <1>17, <1>22, <1>23, <1>24, InStep, OnePageStep
<1>26. QED
  BY <1>1, <1>4, <1>25, InStep DEF TreeInv, new

LEMMA Adjust2FrameOf ==
  ASSUME NEW page \in Nat, NEW child \in Nat, NEW mbr \in Regions, NEW entry \in Entry,
         NEW path \in Path, NEW f, f = [fn |-> "adjustTree2", page |-> page, child |-> child,
                                        mbr |-> mbr, entry |-> entry, path |-> path]
  PROVE  /\ f \in Frame /\ f.fn = "adjustTree2" /\ f.page = page /\ f.entry = entry /\ f.path = path
         /\ \A c : c \in HeldPages(f) <=> c = entry.id
<1>1. f \in Adjust2Frames
  BY DEF Adjust2Frames
<1>2. /\ f.fn = "adjustTree2" /\ f.page = page /\ f.entry = entry /\ f.path = path
  OBVIOUS
<1> HIDE DEF Adjust2Frames
<1>3. f \in Frame
  BY <1>1 DEF Frame
<1>4. QED
  BY <1>2, <1>3 DEF HeldPages

\* A new page, and another node in the place of one.
TwoPages(p, left, q, right, pages, pages2) ==
  /\ DOMAIN pages2 = DOMAIN pages \cup {q}
  /\ pages2[p] = left /\ pages2[q] = right
  /\ \A x \in DOMAIN pages \ {p} : pages2[x] = pages[x]

LEMMA SplitNodeStep ==
  ASSUME TreeInv, SplitNode
  PROVE  TreeInv'
<1> DEFINE f == work[1]
           tail == Tail(work)
           level == f.node.level
           all == Overflowing(f.node, f.entry)
           root == m_rootID
           n == nodes[f.page]
           nn == NewPageBeside(DOMAIN nodes)
<1>1. Step("insertData") /\ Full(f.node) /\ f.path # <<>>
  BY DEF SplitNode, MustSplit
<1>2. PICK g \in Splits(level, all) :
        /\ nodes' = [p \in DOMAIN nodes \cup {nn} |->
                       CASE p = nn -> Node(level, g[2])
                         [] p = f.page -> Node(level, g[1])
                         [] OTHER -> nodes[p]]
        /\ Become(<<[fn |-> "adjustTree2", page |-> Last(f.path),
                     child |-> f.page, mbr |-> Node(level, g[1]).mbr,
                     entry |-> [id |-> nn, mbr |-> Node(level, g[2]).mbr],
                     path |-> Front(f.path)]>>)
  BY DEF SplitNode
<1> DEFINE left == Node(level, g[1])
           right == Node(level, g[2])
           entry == [id |-> nn, mbr |-> right.mbr]
           up == [fn |-> "adjustTree2", page |-> Last(f.path), child |-> f.page, mbr |-> left.mbr,
                  entry |-> entry, path |-> Front(f.path)]
<1>3. Inserting(f)
  BY <1>1, InsertingFacts
<1>4. Parted(f, left, right)
  <2>1. all \in Seq(Entry) /\ Len(all) = Capacity(level) + 1
    BY <1>1, <1>3, OverflowOf DEF Inserting
  <2>2. level \in Nat
    BY <1>3 DEF Inserting
  <2> HIDE DEF all
  <2>3. Distributes(all, g, LeastShare(level))
    BY <1>2, <2>1, <2>2, SplitsDistribute
  <2>4. QED
    BY <1>1, <1>3, <2>3, PartsOf DEF all
<1>5. /\ f.page \in DOMAIN nodes /\ Route(nodes, root, f.path, f.page) /\ level = n.level
      /\ level \in Nat /\ f.path \in Path
  BY <1>3 DEF Inserting
<1>6. /\ TreeOK(nodes, root) /\ DOMAIN nodes \subseteq Nat /\ root \in DOMAIN nodes /\ f.page \in Nat
      /\ IsFiniteSet(DOMAIN nodes)
  BY <1>1, <1>5, InStep DEF TreeOK
<1>7. nn \in Nat /\ nn \notin DOMAIN nodes
  <2> DEFINE used == DOMAIN nodes
  <2>1. used \in SUBSET Nat /\ IsFiniteSet(used)
    BY <1>6
  <2> HIDE DEF used
  <2>2. NewPageBeside(used) \in Nat \ used
    BY <2>1, NewPageIsNew
  <2>3. QED
    BY <2>2 DEF used
<1> HIDE DEF left, right, nn
<1>8. TwoPages(f.page, left, nn, right, nodes, nodes')
  <2>1. nodes' = [p \in DOMAIN nodes \cup {nn} |->
                    CASE p = nn -> right [] p = f.page -> left [] OTHER -> nodes[p]]
    BY <1>2 DEF left, right
  <2>2. QED
    BY <1>5, <1>7, <2>1 DEF TwoPages
<1>9. work' = <<up>> \o tail
  BY <1>2 DEF Become, left, right
<1>10. /\ FitsIn(nodes, left) /\ FitsIn(nodes, right) /\ left.level = level /\ right.level = level
       /\ left.mbr \in Regions /\ right.mbr \in Regions
       /\ \A c : c \in Children(left) => c \notin Children(right)
       /\ \A c : c \in Children(left) \/ c \in Children(right) <=> c \in Children(n) \/ c \in HeldPages(f)
  BY <1>4 DEF Parted
<1>11. entry \in Entry /\ entry.id = nn
  BY <1>7, <1>10 DEF Entry, Regions
<1> HIDE DEF entry, level
<1>12. SameLevels(nodes, nodes')
  BY <1>5, <1>8, <1>10 DEF SameLevels, TwoPages
<1>13. TreeOK(nodes', root)
  <2>1. root \in DOMAIN nodes' /\ DOMAIN nodes' \subseteq Nat
    BY <1>6, <1>7, <1>8 DEF TwoPages
  <2>2. IsFiniteSet(DOMAIN nodes')
    BY <1>6, <1>8, FS_AddElement DEF TwoPages
  <2>3. ASSUME NEW p \in DOMAIN nodes'
        PROVE  FitsIn(nodes', nodes'[p]) /\ nodes'[p].level <= nodes'[root].level
    <3>1. /\ FitsIn(nodes, nodes'[p])
          /\ \/ p = nn /\ nodes'[p].level = level
             \/ p \in DOMAIN nodes /\ nodes'[p].level = nodes[p].level
      BY <1>5, <1>6, <1>8, <1>10 DEF TreeOK, TwoPages
    <3>2. nodes'[p].level <= nodes[root].level
      BY <1>5, <1>6, <3>1 DEF TreeOK
    <3>3. nodes'[root].level = nodes[root].level
      BY <1>6, <1>12 DEF SameLevels
    <3>4. QED
      BY <1>12, <3>1, <3>2, <3>3, StillFits
  <2>4. QED
    BY <2>1, <2>2, <2>3 DEF TreeOK
<1>14. /\ tail \in Seq(Frame) /\ work = <<f>> \o tail /\ <<f>> \in Seq(Frame) /\ f \in Frame
       /\ \A k \in DOMAIN tail : FrameOK(nodes, root, tail[k]) /\ Waiting(tail[k])
  BY <1>1, InStep, TopOf
<1>15. OwnedOnce(nodes, root, f, tail)
  BY <1>1, InStep, HeldByTop
<1> HIDE DEF tail
<1>16. /\ Last(f.path) \in DOMAIN nodes' /\ Last(f.path) \in Nat /\ Front(f.path) \in Path
       /\ nodes'[Last(f.path)].level = nodes'[f.page].level + 1
       /\ Route(nodes', root, Front(f.path), Last(f.path))
  BY <1>1, <1>5, <1>6, <1>12, <1>13, SameRoute, RouteUp
<1>17. /\ up \in Frame /\ up.fn = "adjustTree2" /\ up.page = Last(f.path) /\ up.entry = entry
       /\ up.path = Front(f.path) /\ \A c : c \in HeldPages(up) <=> c = nn
  BY <1>6, <1>10, <1>11, <1>16, Adjust2FrameOf
<1> HIDE DEF up
<1>18. FrameOK(nodes', root, up)
  <2>1. nodes'[f.page].level = level /\ nodes'[nn].level = level
    BY <1>8, <1>10 DEF TwoPages
  <2>2. nodes'[Last(f.path)].level # 0 /\ level = nodes'[Last(f.path)].level - 1
    BY <1>5, <1>16, <2>1
  <2>3. nn \in DOMAIN nodes'
    BY <1>8 DEF TwoPages
  <2>4. QED
    BY <1>11, <1>16, <1>17, <2>1, <2>2, <2>3 DEF FrameOK, Adjust2OK, EntryAt
<1>19. Partition(Own(nodes', <<up>> \o tail), DOMAIN nodes' \ {root})
  <2> DEFINE changed == {f.page, nn}
  <2>1. \A c : Has(c, nodes', changed, <<up>>) <=> c \in Children(left) \/ c \in Children(right) \/ c = nn
    <3>1. \A c : (\E k \in DOMAIN <<up>> : c \in HeldPages(<<up>>[k])) <=> c = nn
      BY <1>17
    <3>2. QED
      BY <1>5, <1>8, <3>1 DEF Has, TwoPages
  <2>2. \A c : Has(c, nodes, changed, <<f>>) <=> c \in Children(n) \/ c \in HeldPages(f)
    <3>1. \A c : (\E k \in DOMAIN <<f>> : c \in HeldPages(<<f>>[k])) <=> c \in HeldPages(f)
      OBVIOUS
    <3>2. QED
      BY <1>5, <1>7, <3>1 DEF Has
  <2>3. \A c : c \in Children(n) \/ c \in HeldPages(f) => c \in DOMAIN nodes /\ c # root /\ c # nn
    BY <1>5, <1>7, <1>15 DEF OwnedOnce
  <2>4. Apart(nodes', changed, <<up>>)
    <3>1. \A c : c \in Children(left) \/ c \in Children(right) => c # nn
      BY <1>10, <2>3
    <3>2. \A k \in DOMAIN <<up>> : k = 1 /\ <<up>>[k] = up
      OBVIOUS
    <3>3. \A p \in changed \cap DOMAIN nodes' : (p = f.page /\ nodes'[p] = left) \/ (p = nn /\ nodes'[p] = right)
      BY <1>8 DEF TwoPages
    <3> HIDE DEF changed
    <3>4. \A p, q \in changed \cap DOMAIN nodes' :
            \A c \in Children(nodes'[p]) : c \in Children(nodes'[q]) => p = q
      BY <1>10, <3>3
    <3>5. \A p \in changed \cap DOMAIN nodes', k \in DOMAIN <<up>> :
            \A c \in Children(nodes'[p]) : c \notin HeldPages(<<up>>[k])
      BY <1>17, <3>1, <3>2, <3>3
    <3>6. QED
      BY <3>2, <3>4, <3>5 DEF Apart
  <2>5. \A c : Has(c, nodes', changed, <<up>>) =>
                 /\ c \in DOMAIN nodes' /\ c # root
                 /\ c \in DOMAIN nodes => Has(c, nodes, changed, <<f>>)
    BY <1>6, <1>7, <1>8, <1>10, <2>1, <2>2, <2>3 DEF TwoPages
  <2>6. \A c \in DOMAIN nodes' :
          c # root /\ (c \notin DOMAIN nodes \/ Has(c, nodes, changed, <<f>>))
            => Has(c, nodes', changed, <<up>>)
    BY <1>8, <1>10, <2>1, <2>2 DEF TwoPages
  <2>7. \A c \in DOMAIN nodes \ DOMAIN nodes' : c # root => Has(c, nodes, changed, <<f>>)
    BY <1>8 DEF TwoPages
  <2>8. \A p \in Nat \ changed : p \in DOMAIN nodes <=> p \in DOMAIN nodes'
    BY <1>8 DEF TwoPages
  <2>9. \A p \in DOMAIN nodes \ changed : Children(nodes'[p]) = Children(nodes[p])
    BY <1>8 DEF TwoPages
  <2>10. Partition(Own(nodes, <<f>> \o tail), DOMAIN nodes \ {root})
    BY <1>1, <1>14, InStep DEF Sound
  <2>11. DOMAIN nodes' \subseteq Nat
    BY <1>13 DEF TreeOK
  <2>12. <<up>> \in Seq(Frame)
    BY <1>17
  <2> HIDE DEF changed
  <2>13. QED
    BY <1>6, <1>14, <2>4, <2>5, <2>6, <2>7, <2>8, <2>9, <2>10, <2>11, <2>12, Rearrange
<1>20. StackOK(nodes', root, <<up>> \o tail)
  <2>1. \A k \in DOMAIN <<up>> : FrameOK(nodes', root, <<up>>[k]) /\ (k # 1 => Waiting(<<up>>[k]))
    BY <1>18
  <2>2. \A k \in DOMAIN tail : FrameOK(nodes', root, tail[k]) /\ Waiting(tail[k])
    BY <1>6, <1>12, <1>14, <1>15, StillWaitingAll
  <2>3. <<up>>[1].fn # "condenseTree" /\ <<up>> \in Seq(Frame)
    BY <1>17
  <2>4. QED
    BY <1>14, <2>1, <2>2, <2>3, PutOnTop
<1>21. QED
  BY <1>1, <1>9, <1>13, <1>19, <1>20, InStep DEF TreeInv, Sound, tail

\* An index node for two pages.
TwoKids(n, b1, nn, b2) == <<[id |-> n, mbr |-> b1], [id |-> nn, mbr |-> b2]>>

LEMMA TwoKidsOf ==
  ASSUME NEW n \in Nat, NEW nn \in Nat, n # nn, NEW b1 \in Regions, NEW b2 \in Regions
  PROVE  /\ TwoKids(n, b1, nn, b2) \in Seq(Entry) /\ Len(TwoKids(n, b1, nn, b2)) = 2
         /\ DistinctIds(TwoKids(n, b1, nn, b2))
         /\ \A c : c \in KidIds(TwoKids(n, b1, nn, b2)) <=> c = n \/ c = nn
<1> DEFINE e1 == [id |-> n, mbr |-> b1]
           e2 == [id |-> nn, mbr |-> b2]
<1>1. e1 \in Entry /\ e2 \in Entry /\ e1.id = n /\ e2.id = nn
  BY DEF Entry, Regions
<1>2. TwoKids(n, b1, nn, b2) = <<e1, e2>>
  BY DEF TwoKids
<1> HIDE DEF e1, e2
<1>3. /\ <<e1, e2>> \in Seq(Entry) /\ Len(<<e1, e2>>) = 2
      /\ <<e1, e2>>[1] = e1 /\ <<e1, e2>>[2] = e2 /\ DOMAIN <<e1, e2>> = {1, 2}
  BY <1>1
<1>4. QED
  BY <1>1, <1>2, <1>3 DEF DistinctIds, KidIds

ThreePages(p, node, n, left, nn, right, pages, pages2) ==
  /\ DOMAIN pages2 = DOMAIN pages \cup {n, nn}
  /\ pages2[p] = node /\ pages2[n] = left /\ pages2[nn] = right
  /\ \A x \in DOMAIN pages \ {p} : pages2[x] = pages[x]

LEMMA SplitRootStep ==
  ASSUME TreeInv, SplitRoot
  PROVE  TreeInv'
<1> DEFINE f == work[1]
           tail == Tail(work)
           level == f.node.level
           all == Overflowing(f.node, f.entry)
           root == m_rootID
           n  == NewPageBeside(DOMAIN nodes)
           nn == NewPageBeside(DOMAIN nodes \cup {n})
<1>1. Step("insertData") /\ Full(f.node) /\ f.path = <<>> /\ work' = <<>> \o tail
  BY DEF SplitRoot, MustSplit, Become
<1>2. PICK g \in Splits(level, all) :
        nodes' = [p \in DOMAIN nodes \cup {n, nn} |->
                   CASE p = n -> Node(level, g[1])
                     [] p = nn -> Node(level, g[2])
                     [] p = m_rootID -> Node(level + 1, TwoKids(n, Node(level, g[1]).mbr,
                                                                nn, Node(level, g[2]).mbr))
                     [] OTHER -> nodes[p]]
  BY DEF SplitRoot, TwoKids
<1> DEFINE left == Node(level, g[1])
           right == Node(level, g[2])
           kids == TwoKids(n, left.mbr, nn, right.mbr)
           ptrR == Node(level + 1, kids)
<1>3. Inserting(f)
  BY <1>1, InsertingFacts
<1>4. Parted(f, left, right)
  <2>1. all \in Seq(Entry) /\ Len(all) = Capacity(level) + 1
    BY <1>1, <1>3, OverflowOf DEF Inserting
  <2>2. level \in Nat
    BY <1>3 DEF Inserting
  <2> HIDE DEF all
  <2>3. Distributes(all, g, LeastShare(level))
    BY <1>2, <2>1, <2>2, SplitsDistribute
  <2>4. QED
    BY <1>1, <1>3, <2>3, PartsOf DEF all
<1>5. f.page = root /\ level = nodes[root].level /\ level \in Nat
  BY <1>1, <1>3 DEF Inserting, Route
<1>6. /\ TreeOK(nodes, root) /\ DOMAIN nodes \subseteq Nat /\ root \in DOMAIN nodes
      /\ IsFiniteSet(DOMAIN nodes)
  BY <1>1, <1>5, InStep DEF TreeOK
<1>7. n \in Nat /\ n \notin DOMAIN nodes /\ nn \in Nat /\ nn \notin DOMAIN nodes /\ nn # n
  <2> DEFINE used == DOMAIN nodes
  <2>1. used \in SUBSET Nat /\ IsFiniteSet(used)
    BY <1>6
  <2> HIDE DEF used
  <2>2. NewPageBeside(used) \in Nat \ used
    BY <2>1, NewPageIsNew
  <2>3. n \in Nat \ used
    BY <2>2 DEF used
  <2> HIDE DEF n
  <2> DEFINE more == used \cup {n}
  <2>4. more \in SUBSET Nat /\ IsFiniteSet(more)
    BY <2>1, <2>3, FS_AddElement
  <2> HIDE DEF more
  <2>5. NewPageBeside(more) \in Nat \ more
    BY <2>4, NewPageIsNew
  <2>6. QED
    BY <2>3, <2>5 DEF used, more
<1> HIDE DEF left, right, n, nn, kids, ptrR
<1>8. ThreePages(root, ptrR, n, left, nn, right, nodes, nodes')
  <2>1. nodes' = [p \in DOMAIN nodes \cup {n, nn} |->
                    CASE p = n -> left [] p = nn -> right [] p = root -> ptrR [] OTHER -> nodes[p]]
    BY <1>2 DEF left, right, ptrR, kids
  <2>2. QED
    BY <1>6, <1>7, <2>1 DEF ThreePages
<1>9. /\ FitsIn(nodes, left) /\ FitsIn(nodes, right) /\ left.level = level /\ right.level = level
      /\ left.mbr \in Regions /\ right.mbr \in Regions
      /\ \A c : c \in Children(left) => c \notin Children(right)
      /\ \A c : c \in Children(left) \/ c \in Children(right)
                  <=> c \in Children(nodes[root]) \/ c \in HeldPages(f)
  BY <1>4, <1>5 DEF Parted
<1>10. /\ kids \in Seq(Entry) /\ Len(kids) = 2 /\ DistinctIds(kids)
       /\ \A c : c \in KidIds(kids) <=> c = n \/ c = nn
  BY <1>7, <1>9, TwoKidsOf DEF kids
<1> HIDE DEF level
<1>11. /\ ptrR \in Nodes /\ ptrR.level = level + 1 /\ ptrR.kids = kids
       /\ \A c : c \in Children(ptrR) <=> c = n \/ c = nn
  <2>1. level + 1 \in Nat /\ level + 1 # 0
    BY <1>5
  <2>2. ptrR \in Nodes /\ ptrR.level = level + 1 /\ ptrR.kids = kids
    BY <1>10, <2>1, NodeOf DEF ptrR
  <2>3. QED
    BY <1>10, <2>1, <2>2 DEF Children
<1>12. /\ tail \in Seq(Frame) /\ work = <<f>> \o tail /\ <<f>> \in Seq(Frame) /\ f \in Frame
       /\ \A k \in DOMAIN tail : FrameOK(nodes, root, tail[k]) /\ Waiting(tail[k])
  BY <1>1, InStep, TopOf
<1>13. OwnedOnce(nodes, root, f, tail)
  BY <1>1, InStep, HeldByTop
<1> HIDE DEF tail
<1>14. /\ \A p \in DOMAIN nodes : \A c \in Children(nodes[p]) : c \in DOMAIN nodes /\ nodes'[c] = nodes[c]
       /\ \A c \in Children(left) \cup Children(right) : c \in DOMAIN nodes /\ nodes'[c] = nodes[c]
       /\ \A c \in Children(left) \cup Children(right) : c # root /\ c # n /\ c # nn
  <2>1. \A p \in DOMAIN nodes : \A c \in Children(nodes[p]) : c \in DOMAIN nodes /\ c # root
    BY <1>13 DEF OwnedOnce
  <2>2. \A c \in HeldPages(f) : c \in DOMAIN nodes /\ c # root
    BY <1>13 DEF OwnedOnce
  <2>3. \A c \in Children(left) \cup Children(right) : c \in DOMAIN nodes /\ c # root
    BY <1>6, <1>9, <2>1, <2>2
  <2>4. QED
    BY <1>7, <1>8, <2>1, <2>3 DEF ThreePages
<1>15. \A node : FitsIn(nodes, node) /\ (\A c \in Children(node) : c \in DOMAIN nodes' /\ nodes'[c] = nodes[c])
                   => FitsIn(nodes', node)
  BY DEF FitsIn, Children
<1>16. FitsIn(nodes', ptrR)
  <2>1. Len(kids) <= Capacity(level + 1)
    BY <1>10, CapacityAtLeastFour
  <2>2. ptrR.level - 1 = level
    BY <1>5, <1>11
  <2>3. \A c \in KidIds(ptrR.kids) : c \in DOMAIN nodes' /\ nodes'[c].level = ptrR.level - 1
    BY <1>8, <1>9, <1>10, <1>11, <2>2 DEF ThreePages
  <2>4. Len(ptrR.kids) <= Capacity(ptrR.level) /\ DistinctIds(ptrR.kids)
    BY <1>10, <1>11, <2>1
  <2>5. QED
    BY <1>11, <2>3, <2>4 DEF FitsIn
<1>17. nodes'[root].level = level + 1 /\ root \in DOMAIN nodes'
  BY <1>6, <1>8, <1>11 DEF ThreePages
<1>18. TreeOK(nodes', root)
  <2>1. DOMAIN nodes' \subseteq Nat
    BY <1>6, <1>7, <1>8 DEF ThreePages
  <2>2. IsFiniteSet(DOMAIN nodes')
    <3>1. IsFiniteSet(DOMAIN nodes \cup {n})
      BY <1>6, FS_AddElement
    <3>2. IsFiniteSet((DOMAIN nodes \cup {n}) \cup {nn})
      BY <3>1, FS_AddElement
    <3>3. DOMAIN nodes' = (DOMAIN nodes \cup {n}) \cup {nn}
      BY <1>8 DEF ThreePages
    <3>4. QED
      BY <3>2, <3>3
  <2>3. ASSUME NEW p \in DOMAIN nodes'
        PROVE  FitsIn(nodes', nodes'[p]) /\ nodes'[p].level <= nodes'[root].level
    <3>1. CASE p = root
      BY <1>5, <1>8, <1>11, <1>16, <1>17, <3>1 DEF ThreePages
    <3>2. CASE p = n \/ p = nn
      <4>1. nodes'[p] = left \/ nodes'[p] = right
        BY <1>8, <3>2 DEF ThreePages
      <4>2. DOMAIN nodes \subseteq DOMAIN nodes'
        BY <1>8 DEF ThreePages
      <4>3. FitsIn(nodes', nodes'[p])
        BY <1>9, <1>14, <1>15, <4>1, <4>2
      <4>4. nodes'[p].level = level
        BY <1>9, <4>1
      <4>5. QED
        BY <1>5, <1>17, <4>3, <4>4
    <3>3. CASE p \notin {root, n, nn}
      <4>1. p \in DOMAIN nodes /\ nodes'[p] = nodes[p] /\ DOMAIN nodes \subseteq DOMAIN nodes'
        BY <1>8, <3>3 DEF ThreePages
      <4>2. FitsIn(nodes, nodes[p]) /\ nodes[p].level <= level /\ nodes[p].level \in Nat
        BY <1>5, <1>6, <4>1, NodesTyped
      <4>3. FitsIn(nodes', nodes'[p])
        BY <1>14, <1>15, <4>1, <4>2
      <4>4. QED
        BY <1>5, <1>17, <4>1, <4>2, <4>3
    <3>4. QED
      BY <3>1, <3>2, <3>3
  <2>4. QED
    BY <1>17, <2>1, <2>2, <2>3 DEF TreeOK
<1>19. Partition(Own(nodes', <<>> \o tail), DOMAIN nodes' \ {root})
  <2> DEFINE changed == {root, n, nn}
             none == <<>>
  <2>1. none \in Seq(Frame) /\ DOMAIN none = {}
    OBVIOUS
  <2> HIDE DEF none
  <2>2. \A c : Has(c, nodes', changed, none)
                 <=> c \in Children(left) \/ c \in Children(right) \/ c = n \/ c = nn
    BY <1>6, <1>8, <1>11, <2>1 DEF Has, ThreePages
  <2>3. \A c : Has(c, nodes, changed, <<f>>) <=> c \in Children(nodes[root]) \/ c \in HeldPages(f)
    <3>1. \A c : (\E k \in DOMAIN <<f>> : c \in HeldPages(<<f>>[k])) <=> c \in HeldPages(f)
      OBVIOUS
    <3>2. QED
      BY <1>6, <1>7, <3>1 DEF Has
  <2>4. Apart(nodes', changed, none)
    <3>1. \A p \in changed \cap DOMAIN nodes' :
            (p = root /\ nodes'[p] = ptrR) \/ (p = n /\ nodes'[p] = left) \/ (p = nn /\ nodes'[p] = right)
      BY <1>8 DEF ThreePages
    <3> HIDE DEF changed
    <3>2. \A c \in Children(ptrR) : c \notin Children(left) /\ c \notin Children(right)
      BY <1>11, <1>14
    <3>3. \A p, q \in changed \cap DOMAIN nodes' :
            \A c \in Children(nodes'[p]) : c \in Children(nodes'[q]) => p = q
      BY <1>9, <3>1, <3>2
    <3>4. QED
      BY <2>1, <3>3 DEF Apart
  <2>5. \A c : Has(c, nodes', changed, none) =>
                 /\ c \in DOMAIN nodes' /\ c # root
                 /\ c \in DOMAIN nodes => Has(c, nodes, changed, <<f>>)
    BY <1>6, <1>7, <1>8, <1>9, <1>14, <2>2, <2>3 DEF ThreePages
  <2>6. \A c \in DOMAIN nodes' :
          c # root /\ (c \notin DOMAIN nodes \/ Has(c, nodes, changed, <<f>>))
            => Has(c, nodes', changed, none)
    BY <1>8, <1>9, <2>2, <2>3 DEF ThreePages
  <2>7. \A c \in DOMAIN nodes \ DOMAIN nodes' : c # root => Has(c, nodes, changed, <<f>>)
    BY <1>8 DEF ThreePages
  <2>8. \A p \in Nat \ changed : p \in DOMAIN nodes <=> p \in DOMAIN nodes'
    BY <1>8 DEF ThreePages
  <2>9. \A p \in DOMAIN nodes \ changed : Children(nodes'[p]) = Children(nodes[p])
    BY <1>8 DEF ThreePages
  <2>10. Partition(Own(nodes, <<f>> \o tail), DOMAIN nodes \ {root})
    BY <1>1, <1>12, InStep DEF Sound
  <2>11. DOMAIN nodes' \subseteq Nat
    BY <1>18 DEF TreeOK
  <2> HIDE DEF changed
  <2>12. Partition(Own(nodes', none \o tail), DOMAIN nodes' \ {root})
    BY <1>6, <1>12, <2>1, <2>4, <2>5, <2>6, <2>7, <2>8, <2>9, <2>10, <2>11, Rearrange
  <2>13. QED
    BY <2>12 DEF none
<1>20. StackOK(nodes', root, <<>> \o tail)
  <2> DEFINE none == <<>>
  <2>1. none \in Seq(Frame) /\ DOMAIN none = {} /\ none = <<>>
    OBVIOUS
  <2> HIDE DEF none
  <2>2. ASSUME NEW k \in DOMAIN tail
        PROVE  FrameOK(nodes', root, tail[k]) /\ Waiting(tail[k])
    <3>1. tail[k] \in Frame /\ FrameOK(nodes, root, tail[k]) /\ Waiting(tail[k])
      BY <1>12
    <3>2. \A p \in HeldPages(tail[k]) : p \in DOMAIN nodes' /\ nodes'[p].level = nodes[p].level
      BY <1>8, <1>13 DEF OwnedOnce, ThreePages
    <3>3. /\ nodes[root].level \in Nat /\ nodes'[root].level \in Nat
          /\ nodes[root].level <= nodes'[root].level
      BY <1>5, <1>17
    <3>4. QED
      BY <3>1, <3>2, <3>3, StillWaiting
  <2>3. StackOK(nodes', root, none \o tail)
    BY <1>12, <2>1, <2>2, PutOnTop
  <2>4. QED
    BY <2>3 DEF none
<1>21. QED
  BY <1>1, <1>18, <1>19, <1>20, InStep DEF TreeInv, Sound, tail

------------------------------------------------------------------------------
(***************************************************************************)
(* The calls of the client.                                                *)
(***************************************************************************)
LEMMA IdleStep ==
  ASSUME NEW pages, NEW root, Sound(pages, root, <<>>), NEW p \in DOMAIN pages, NEW node,
         FitsIn(pages, node), node.level = pages[p].level, Children(node) = Children(pages[p]),
         NEW pages2, OnlyAt(p, node, pages, pages2), NEW new \in Seq(Frame),
         \A k \in DOMAIN new : FrameOK(pages2, root, new[k]) /\ HeldPages(new[k]) = {},
         \A k \in DOMAIN new \ {1} : new[k].fn = "return"
  PROVE  Sound(pages2, root, new)
<1> DEFINE none == <<>>
<1>1. none \in Seq(Frame) /\ DOMAIN none = {} /\ none \o none = none /\ new \o none = new
  OBVIOUS
<1>2. TreeOK(pages, root) /\ DOMAIN pages \subseteq Nat
  BY DEF Sound, TreeOK
<1>3. Partition(Own(pages, none \o none), DOMAIN pages \ {root})
  BY <1>1 DEF Sound
<1> HIDE DEF none
<1>4. TreeOK(pages2, root)
  BY <1>2, PageChanged
<1>5. SamePages(pages, none, p, node, new)
  BY <1>1 DEF SamePages, Disjoint, Holds
<1>6. Partition(Own(pages2, new \o none), DOMAIN pages2 \ {root})
  BY <1>1, <1>2, <1>3, <1>5, OnePageChanges
<1>7. StackOK(pages2, root, new \o none)
  <2>1. \A k \in DOMAIN new : FrameOK(pages2, root, new[k]) /\ (k # 1 => Waiting(new[k]))
    BY DEF Waiting
  <2>2. QED
    BY <1>1, <2>1, PutOnTop
<1>8. QED
  BY <1>1, <1>4, <1>6, <1>7 DEF Sound

LEMMA ReturnOf ==
  ASSUME NEW delta \in {-1, 1}
  PROVE  /\ Return(delta) \in Frame /\ Return(delta).fn = "return" /\ HeldPages(Return(delta)) = {}
         /\ \A pages, root : FrameOK(pages, root, Return(delta))
<1>1. Return(delta) \in ReturnFrames /\ Return(delta).fn = "return"
  BY DEF Return, ReturnFrames
<1>2. QED
  BY <1>1 DEF Frame, HeldPages, FrameOK

LEMMA TwoFrames ==
  ASSUME NEW f \in Frame, NEW g \in Frame
  PROVE  /\ <<f, g>> \in Seq(Frame) /\ DOMAIN <<f, g>> = {1, 2}
         /\ <<f, g>>[1] = f /\ <<f, g>>[2] = g
OBVIOUS

LEMMA InsertDataStep ==
  ASSUME TreeInv, todo \in Seq(Object), InsertData
  PROVE  TreeInv'
<1> DEFINE root == m_rootID
           entry == todo[1]
           level == 0
           path == <<>>
           delta == 1
           f == ChooseFrame(root, entry, level, path)
           g == Return(delta)
           node == nodes[root]
<1>1. /\ work = <<>> /\ todo # <<>> /\ work' = <<f, g>> /\ root' = root /\ nodes' = nodes
  BY DEF InsertData
<1>2. /\ Sound(nodes, root, <<>>) /\ TreeOK(nodes, root) /\ root \in DOMAIN nodes /\ root \in Nat
      /\ FitsIn(nodes, node) /\ node.level \in Nat
  BY <1>1, NodesTyped DEF TreeInv, Sound, TreeOK
<1>3. entry \in Entry
  BY <1>1, RTreeAssumption
<1>4. level \in Nat /\ path \in Path /\ delta \in {-1, 1} /\ path = <<>> /\ level = 0
  BY DEF Path
<1> HIDE DEF level, path, delta
<1>5. f \in Frame /\ HeldPages(f) = {}
  BY <1>2, <1>3, <1>4, ChooseFrameOf
<1>6. g \in Frame /\ g.fn = "return" /\ HeldPages(g) = {} /\ FrameOK(nodes, root, g)
  BY <1>4, ReturnOf
<1>7. FrameOK(nodes, root, f)
  <2>1. Route(nodes, root, path, root)
    BY <1>2, <1>4, RootRoute
  <2>2. /\ f.fn = "chooseSubtree" /\ f.page = root /\ f.entry = entry /\ f.level = level /\ f.path = path
    BY DEF ChooseFrame
  <2> HIDE DEF f
  <2>3. QED
    BY <1>2, <1>4, <2>1, <2>2 DEF FrameOK, ChooseOK, EntryAt
<1> HIDE DEF f, g
<1>8. Sound(nodes, root, <<f, g>>)
  <2>1. OnlyAt(root, node, nodes, nodes)
    BY DEF OnlyAt
  <2>2. /\ <<f, g>> \in Seq(Frame)
        /\ \A k \in DOMAIN <<f, g>> : FrameOK(nodes, root, <<f, g>>[k]) /\ HeldPages(<<f, g>>[k]) = {}
        /\ \A k \in DOMAIN <<f, g>> \ {1} : <<f, g>>[k].fn = "return"
    BY <1>5, <1>6, <1>7, TwoFrames
  <2> DEFINE new == <<f, g>>
  <2> HIDE DEF new
  <2>3. /\ new \in Seq(Frame)
        /\ \A k \in DOMAIN new : FrameOK(nodes, root, new[k]) /\ HeldPages(new[k]) = {}
        /\ \A k \in DOMAIN new \ {1} : new[k].fn = "return"
    BY <2>2 DEF new
  <2>4. Sound(nodes, root, new)
    BY <1>2, <2>1, <2>3, IdleStep
  <2>5. QED
    BY <2>4 DEF new
<1>9. QED
  BY <1>1, <1>8 DEF TreeInv

LEMMA InitSound ==
  ASSUME Init
  PROVE  TreeInv
<1> DEFINE level == 0
           kids == <<>>
           root == m_rootID
           node == Node(level, kids)
<1>1. nodes = [p \in {root} |-> node] /\ root = 0 /\ work = <<>>
  BY DEF Init
<1>2. level \in Nat /\ level = 0 /\ kids \in Seq(Entry) /\ Len(kids) = 0
  OBVIOUS
<1> HIDE DEF level, kids
<1>3. node \in Nodes /\ node.level = level /\ node.kids = kids
  BY <1>2, NodeOf
<1> HIDE DEF node, root
<1>4. DOMAIN nodes = {root} /\ nodes[root] = node /\ root \in Nat
  BY <1>1
<1>5. FitsIn(nodes, node)
  <2>1. Len(kids) <= Capacity(level)
    BY <1>2, CapacityAtLeastFour
  <2>2. QED
    BY <1>2, <1>3, <2>1 DEF FitsIn
<1>6. TreeOK(nodes, root)
  <2>1. IsFiniteSet({root})
    BY FS_Singleton
  <2>2. QED
    BY <1>2, <1>3, <1>4, <1>5, <2>1 DEF TreeOK
<1>7. Children(node) = {}
  BY <1>2, <1>3 DEF Children
<1>8. Partition(Own(nodes, work), DOMAIN nodes \ {root})
  <2> DEFINE none == <<>>
  <2>1. Len(none) = 0 /\ none = <<>>
    OBVIOUS
  <2> HIDE DEF none
  <2>2. Owners(nodes, none) = {root}
    <3>1. 1 .. 0 = {}
      OBVIOUS
    <3>2. QED
      BY <1>4, <2>1, <3>1 DEF Owners
  <2>3. DOMAIN Own(nodes, none) = {root} /\ Own(nodes, none)[root] = {}
    BY <1>4, <1>7, <2>2 DEF Own
  <2>4. QED
    BY <1>1, <1>4, <2>1, <2>3 DEF Partition
<1>9. StackOK(nodes, root, work)
  BY <1>1 DEF StackOK
<1>10. QED
  BY <1>6, <1>8, <1>9 DEF TreeInv, Sound, root

(***************************************************************************)
(* Where findLeaf goes, and what it finds.                                 *)
(***************************************************************************)
LEMMA PathAppended ==
  ASSUME NEW path \in Path, NEW page \in Nat
  PROVE  /\ Front(Append(path, page)) = path /\ Last(Append(path, page)) = page
         /\ Append(path, page) \in Path /\ Len(Append(path, page)) = Len(path) + 1
<1> DEFINE m == Len(path)
           p == Append(path, page)
<1>1. /\ path \in Seq(Nat) /\ m \in Nat /\ p \in Seq(Nat) /\ Len(p) = m + 1 /\ p # <<>>
      /\ p[m + 1] = page /\ \A i \in 1 .. m : p[i] = path[i]
  BY DEF Path
<1> HIDE DEF p
<1>2. /\ Front(p) \in Seq(Nat) /\ Len(Front(p)) = Len(p) - 1
      /\ \A i \in 1 .. Len(p) - 1 : Front(p)[i] = p[i]
      /\ Last(p) = p[Len(p)]
  BY <1>1, FrontOf
<1>3. Len(p) - 1 = m /\ Last(p) = page
  BY <1>1, <1>2
<1>4. Front(p) = path
  <2> DEFINE front == Front(p)
  <2>1. front \in Seq(Nat) /\ Len(front) = m /\ \A i \in 1 .. m : front[i] = path[i]
    BY <1>1, <1>2, <1>3
  <2> HIDE DEF front
  <2>2. front = [i \in 1 .. m |-> front[i]] /\ path = [i \in 1 .. m |-> path[i]]
    BY <1>1, <2>1
  <2>3. front = path
    BY <2>1, <2>2
  <2>4. QED
    BY <2>3 DEF front
<1>5. QED
  BY <1>1, <1>3, <1>4 DEF p, Path

LEMMA LineageDown ==
  ASSUME NEW pages, NEW path \in Path, NEW page \in Nat, Lineage(pages, path, page),
         NEW c \in Children(pages[page])
  PROVE  Lineage(pages, Append(path, page), c)
<1> DEFINE m == Len(path)
           p == Append(path, page)
<1>1. /\ m \in Nat /\ Len(p) = m + 1 /\ p[m + 1] = page /\ \A i \in 1 .. m : p[i] = path[i]
      /\ m = 0 <=> path = <<>>
  BY DEF Path
<1> HIDE DEF p
<1>2. ASSUME NEW i \in 1 .. m
      PROVE  p[i + 1] \in Children(pages[p[i]])
  <2>1. CASE i \in 1 .. m - 1
    <3>1. i + 1 \in 1 .. m
      BY <1>1, <2>1
    <3>2. QED
      BY <1>1, <2>1, <3>1 DEF Lineage
  <2>2. CASE i = m
    BY <1>1, <2>2 DEF Lineage
  <2>3. QED
    BY <1>1, <2>1, <2>2
<1>3. Len(p) - 1 = m /\ p[Len(p)] = page
  BY <1>1
<1>4. QED
  BY <1>2, <1>3 DEF Lineage, p

\* A way down from the root to a page, both included.
WayDown(p, m) ==
  \E path \in Path, page \in Nat :
    /\ p = Append(path, page) /\ Len(path) = m
    /\ Route(nodes, m_rootID, path, page) /\ Lineage(nodes, path, page)

\* What Paths builds, level by level, for the object that findLeaf looks for.
Entering(q, o) == {x \in ToSet(nodes[Last(q)].kids) : ContainsRegion(x.mbr, o.mbr)}
Longer(Q, o)   == UNION {{Append(q, e.id) : e \in Entering(q, o)} : q \in Q}
WaysFor(o)     == Paths(LAMBDA e : ContainsRegion(e.mbr, o.mbr))

LEMMA WaysBuilt ==
  ASSUME TreeOK(nodes, m_rootID), NEW o
  PROVE  LET L == nodes[m_rootID].level
         IN  /\ WaysFor(o)[0] = {<<m_rootID>>}
             /\ \A k \in 1 .. L : WaysFor(o)[k] = Longer(WaysFor(o)[k - 1], o)
             /\ LeafPaths(o) = {q \in WaysFor(o)[L] : o \in ToSet(nodes[Last(q)].kids)}
<1> DEFINE L == nodes[m_rootID].level
           longer(Q) == Longer(Q, o)
           Fits(f, n) == f = [k \in 0 .. n |-> IF k = 0 THEN {<<m_rootID>>} ELSE longer(f[k - 1])]
           path == CHOOSE f : Fits(f, L)
<1>1. /\ L \in Nat /\ m_rootID \in DOMAIN nodes /\ m_rootID \in Nat
  BY NodesTyped DEF TreeOK
<1>2. WaysFor(o) = path
  BY DEF WaysFor, Paths, Longer, Entering
<1>3. \E f : Fits(f, L)
  <2> HIDE DEF longer, L
  <2> DEFINE S == {n \in 0 .. L : \E f : Fits(f, n)}
  <2>1. 0 \in S
    <3>1. Fits([k \in 0 .. 0 |-> {<<m_rootID>>}], 0)
      OBVIOUS
    <3>2. 0 \in 0 .. L
      BY <1>1
    <3> HIDE DEF Fits
    <3>3. QED
      BY <3>1, <3>2
  <2>2. ASSUME NEW n \in 0 .. L - 1, n \in S
        PROVE  n + 1 \in S
    <3>1. PICK f : Fits(f, n)
      BY <2>2
    <3> DEFINE g == [k \in 0 .. n + 1 |-> IF k = n + 1 THEN longer(f[n]) ELSE f[k]]
    <3>2. \A k \in 0 .. n : g[k] = f[k]
      BY <1>1
    <3>3. ASSUME NEW k \in 0 .. n + 1
          PROVE  g[k] = IF k = 0 THEN {<<m_rootID>>} ELSE longer(g[k - 1])
      <4>1. CASE k = n + 1
        <5>1. k # 0 /\ k - 1 = n /\ n \in 0 .. n
          BY <1>1, <4>1
        <5>2. QED
          BY <3>2, <4>1, <5>1
      <4>2. CASE k = 0
        BY <1>1, <3>1, <4>2
      <4>3. CASE k \in 1 .. n
        <5>1. k \in 0 .. n /\ k - 1 \in 0 .. n /\ k # 0
          BY <1>1, <4>3
        <5>2. f[k] = longer(f[k - 1])
          BY <3>1, <5>1
        <5>3. QED
          BY <3>2, <5>1, <5>2
      <4>4. QED
        BY <1>1, <4>1, <4>2, <4>3
    <3>4. g = [k \in 0 .. n + 1 |-> g[k]]
      OBVIOUS
    <3> HIDE DEF g
    <3>5. Fits(g, n + 1)
      BY <3>3, <3>4
    <3>6. n + 1 \in 0 .. L
      BY <1>1
    <3> HIDE DEF Fits
    <3>7. QED
      BY <3>5, <3>6
  <2> HIDE DEF S
  <2>3. L \in S
    <3>1. \A k \in 0 .. L : k \in S
      BY <1>1, <2>1, <2>2, UpTo
    <3>2. QED
      BY <1>1, <3>1
  <2>4. QED
    BY <2>3 DEF S
<1>4. Fits(path, L)
  <2> HIDE DEF Fits
  <2>1. QED
    BY <1>3
<1>5. path[0] = {<<m_rootID>>} /\ \A k \in 1 .. L : path[k] = longer(path[k - 1])
  <2> HIDE DEF longer, L, path
  <2>1. \A k \in 0 .. L : path[k] = IF k = 0 THEN {<<m_rootID>>} ELSE longer(path[k - 1])
    BY <1>4, Zenon
  <2>2. 0 \in 0 .. L /\ \A k \in 1 .. L : k \in 0 .. L /\ k # 0
    BY <1>1
  <2>3. QED
    BY <2>1, <2>2, Zenon
<1>6. LeafPaths(o) = {q \in WaysFor(o)[L] : o \in ToSet(nodes[Last(q)].kids)}
  BY DEF LeafPaths, WaysFor
<1> HIDE DEF path
<1>7. QED
  BY <1>2, <1>5, <1>6

LEMMA LeafPathsOf ==
  ASSUME TreeOK(nodes, m_rootID), NEW o, NEW p \in LeafPaths(o)
  PROVE  /\ Front(p) \in Path /\ Last(p) \in DOMAIN nodes /\ nodes[Last(p)].level = 0
         /\ Route(nodes, m_rootID, Front(p), Last(p)) /\ Lineage(nodes, Front(p), Last(p))
         /\ o \in ToSet(nodes[Last(p)].kids)
<1> DEFINE L == nodes[m_rootID].level
           path == WaysFor(o)
<1>1. /\ L \in Nat /\ m_rootID \in DOMAIN nodes /\ m_rootID \in Nat
  BY NodesTyped DEF TreeOK
<1>2. /\ path[0] = {<<m_rootID>>}
      /\ \A k \in 1 .. L : path[k] = Longer(path[k - 1], o)
      /\ p \in path[L] /\ o \in ToSet(nodes[Last(p)].kids)
  BY WaysBuilt
<1> HIDE DEF path
<1> DEFINE S == {m \in 0 .. L : \A q \in path[m] : WayDown(q, m)}
<1>3. 0 \in S
  <2>1. path[0] = {<<m_rootID>>}
    BY <1>2
  <2>2. <<m_rootID>> = Append(<<>>, m_rootID) /\ Len(<<>>) = 0 /\ <<>> \in Path
    BY DEF Path
  <2>3. Route(nodes, m_rootID, <<>>, m_rootID) /\ Lineage(nodes, <<>>, m_rootID)
    <3>1. Lineage(nodes, <<>>, m_rootID)
      BY DEF Lineage
    <3>2. QED
      BY <1>1, <3>1, RootRoute
  <2>4. WayDown(<<m_rootID>>, 0)
    BY <1>1, <2>2, <2>3 DEF WayDown
  <2>5. QED
    BY <1>1, <2>1, <2>4
<1>4. ASSUME NEW m \in 0 .. L - 1, m \in S
      PROVE  m + 1 \in S
  <2>1. m + 1 \in 0 .. L /\ m + 1 # 0 /\ (m + 1) - 1 = m
    BY <1>1
  <2>2. path[m + 1] = Longer(path[m], o)
    <3>1. m + 1 \in 1 .. L
      BY <2>1
    <3>2. QED
      BY <1>2, <2>1, <3>1
  <2>3. ASSUME NEW q \in path[m], NEW e \in Entering(q, o)
        PROVE  WayDown(Append(q, e.id), m + 1)
    <3>1. PICK way \in Path, page \in Nat :
            /\ q = Append(way, page) /\ Len(way) = m
            /\ Route(nodes, m_rootID, way, page) /\ Lineage(nodes, way, page)
      BY <1>4 DEF WayDown
    <3>2. Last(q) = page /\ q \in Path /\ Len(q) = m + 1
      BY <3>1, PathAppended
    <3>3. page \in DOMAIN nodes /\ nodes[page].level = L - m
      BY <3>1 DEF Route
    <3>4. nodes[page].level # 0
      BY <1>1, <3>3
    <3>5. e \in ToSet(nodes[page].kids)
      BY <3>2 DEF Entering
    <3>6. e.id \in Children(nodes[page])
      BY <3>4, <3>5 DEF ToSet, Children, KidIds
    <3>7. e.id \in DOMAIN nodes /\ e.id \in Nat /\ nodes[e.id].level = nodes[page].level - 1
      BY <3>3, <3>4, <3>6 DEF TreeOK, FitsIn, Children
    <3>8. Route(nodes, m_rootID, Append(way, page), e.id)
      BY <3>1, <3>7, RouteDown
    <3>9. Lineage(nodes, Append(way, page), e.id)
      BY <3>1, <3>6, LineageDown
    <3>10. QED
      BY <3>1, <3>2, <3>7, <3>8, <3>9 DEF WayDown
  <2>4. \A q \in path[m + 1] : WayDown(q, m + 1)
    BY <2>2, <2>3 DEF Longer
  <2>5. QED
    BY <2>1, <2>4
<1>5. L \in S
  <2> HIDE DEF S
  <2>1. \A k \in 0 .. L : k \in S
    BY <1>1, <1>3, <1>4, UpTo
  <2>2. QED
    BY <1>1, <2>1
<1>6. WayDown(p, L)
  BY <1>2, <1>5
<1>7. PICK way \in Path, page \in Nat :
        /\ p = Append(way, page) /\ Len(way) = L
        /\ Route(nodes, m_rootID, way, page) /\ Lineage(nodes, way, page)
  BY <1>6 DEF WayDown
<1>8. Front(p) = way /\ Last(p) = page
  BY <1>7, PathAppended
<1>9. page \in DOMAIN nodes /\ nodes[page].level = 0
  BY <1>1, <1>7 DEF Route
<1>10. QED
  BY <1>2, <1>7, <1>8, <1>9

PlaceOf(kids, o) == SelectInSeq(kids, LAMBDA e : e = o)

LEMMA PositionOfObject ==
  ASSUME NEW kids \in Seq(Entry), NEW o, o \in ToSet(kids)
  PROVE  PlaceOf(kids, o) \in DOMAIN kids /\ kids[PlaceOf(kids, o)] = o
<1> DEFINE I == {j \in 1 .. Len(kids) : kids[j] = o}
<1>1. I \in SUBSET Nat /\ I # {} /\ DOMAIN kids = 1 .. Len(kids)
  BY DEF ToSet
<1>2. PlaceOf(kids, o) = Min(I)
  BY <1>1 DEF SelectInSeq, PlaceOf
<1> DEFINE m == Min(I)
<1>3. m \in I
  <2> HIDE DEF I
  <2>1. QED
    BY <1>1, LeastOf
<1>4. PlaceOf(kids, o) = m
  BY <1>2
<1> HIDE DEF m
<1>5. m \in DOMAIN kids /\ kids[m] = o
  BY <1>1, <1>3
<1>6. QED
  BY <1>4, <1>5

LEMMA DeleteDataStep ==
  ASSUME TreeInv, NEW o \in Object, DeleteData(o)
  PROVE  TreeInv'
<1> DEFINE root == m_rootID
<1>1. PICK p \in FindLeaf(o) :
        LET leaf == nodes[Last(p)]
            child == SelectInSeq(leaf.kids, LAMBDA e : e = o)
        IN  /\ nodes' = [nodes EXCEPT ![Last(p)] = DeleteEntry(leaf, child)]
            /\ work' = <<CondenseFrame(Last(p), Front(p), <<>>), Return(-1)>>
  BY DEF DeleteData
<1>2. work = <<>> /\ root' = root
  BY DEF DeleteData
<1>3. /\ Sound(nodes, root, <<>>) /\ TreeOK(nodes, root) /\ root \in DOMAIN nodes
  BY <1>2 DEF TreeInv, Sound, TreeOK
<1> DEFINE page == Last(p)
           path == Front(p)
           leaf == nodes[page]
           child == PlaceOf(leaf.kids, o)
           node == DeleteEntry(leaf, child)
           list == <<>>
           delta == -1
           f == CondenseFrame(page, path, list)
           g == Return(delta)
<1>4. nodes' = [nodes EXCEPT ![page] = node] /\ work' = <<f, g>>
  BY <1>1 DEF PlaceOf
<1>5. /\ path \in Path /\ page \in DOMAIN nodes /\ leaf.level = 0
      /\ Route(nodes, root, path, page) /\ Lineage(nodes, path, page) /\ o \in ToSet(leaf.kids)
  <2>1. p \in LeafPaths(o)
    BY DEF FindLeaf
  <2>2. QED
    BY <1>3, <2>1, LeafPathsOf
<1> HIDE DEF page, path
<1>6. FitsIn(nodes, leaf) /\ leaf.kids \in Seq(Entry) /\ page \in Nat
  BY <1>3, <1>5, NodesTyped
<1>7. child \in DOMAIN leaf.kids
  BY <1>5, <1>6, PositionOfObject
<1> HIDE DEF child
<1>8. FitsIn(nodes, node) /\ node.level = leaf.level
  BY <1>6, <1>7, Shorter
<1> HIDE DEF node
<1>9. Children(node) = {} /\ Children(leaf) = {}
  BY <1>5, <1>8 DEF Children
<1>10. OnlyAt(page, node, nodes, nodes')
  BY <1>4, <1>5 DEF OnlyAt
<1>11. SameLevels(nodes, nodes')
  BY <1>3, <1>5, <1>6, <1>8, <1>10, PageChanged
<1>12. list \in Seq(Nat) /\ DOMAIN list = {} /\ delta \in {-1, 1}
  OBVIOUS
<1> HIDE DEF list, delta
<1>13. /\ f \in Frame /\ HeldPages(f) = {} /\ f.fn = "condenseTree"
       /\ f.page = page /\ f.path = path /\ f.toReinsert = list
  <2>1. f \in Frame /\ HeldPages(f) = {}
    BY <1>5, <1>6, <1>12, CondenseFrameOf
  <2>2. QED
    BY <2>1 DEF CondenseFrame
<1>14. g \in Frame /\ g.fn = "return" /\ HeldPages(g) = {} /\ FrameOK(nodes', root, g)
  BY <1>12, ReturnOf
<1> HIDE DEF f, g
<1>15. FrameOK(nodes', root, f)
  <2>1. Route(nodes', root, path, page)
    BY <1>3, <1>5, <1>11, SameRoute
  <2>2. \A q \in DOMAIN nodes : Children(nodes'[q]) = Children(nodes[q])
    BY <1>9, <1>10 DEF OnlyAt
  <2>3. \A i \in 1 .. Len(path) : path[i] \in DOMAIN nodes
    BY <1>5 DEF Route
  <2>4. Lineage(nodes', path, page)
    <3>1. Len(path) \in Nat /\ path \in Seq(Nat)
      BY <1>5 DEF Path
    <3>2. \A i \in 1 .. Len(path) - 1 : i \in 1 .. Len(path)
      BY <3>1
    <3>3. path # <<>> => Len(path) \in 1 .. Len(path)
      BY <3>1
    <3>4. QED
      BY <1>5, <2>2, <2>3, <3>2, <3>3 DEF Lineage
  <2>5. QED
    BY <1>12, <1>13, <2>1, <2>4 DEF FrameOK, CondenseOK
<1> DEFINE new == <<f, g>>
<1>16. /\ new \in Seq(Frame)
       /\ \A k \in DOMAIN new : FrameOK(nodes', root, new[k]) /\ HeldPages(new[k]) = {}
       /\ \A k \in DOMAIN new \ {1} : new[k].fn = "return"
  BY <1>13, <1>14, <1>15, TwoFrames
<1> HIDE DEF new, leaf
<1>17. node.level = nodes[page].level /\ Children(node) = Children(nodes[page])
  BY <1>8, <1>9 DEF leaf
<1>18. Sound(nodes', root, new)
  BY <1>3, <1>5, <1>8, <1>10, <1>16, <1>17, IdleStep
<1>19. QED
  BY <1>2, <1>4, <1>18 DEF TreeInv, new

LEMMA NothingStep ==
  ASSUME TreeInv, UNCHANGED <<nodes, m_rootID, work>>
  PROVE  TreeInv'
BY DEF TreeInv

------------------------------------------------------------------------------
(***************************************************************************)
(* Every step of every call.                                               *)
(***************************************************************************)
Answers == {<<"none">>} \cup {"inserted", "deleted", "not found"} \X Object

ClientOK == todo \in Seq(Object) /\ answer \in Answers

LEMMA AnswersOf ==
  ASSUME NEW o \in Object
  PROVE  <<"inserted", o>> \in Answers /\ <<"deleted", o>> \in Answers /\ <<"not found", o>> \in Answers
BY DEF Answers

\* No step of a call under way concerns the client.
LEMMA ClientWaits ==
  ASSUME Execute
  PROVE  UNCHANGED client
<1>1. \A fn : Step(fn) => UNCHANGED client
  BY Zenon DEF Step
<1> HIDE DEF client
<1>2. CASE Reinsert \/ Descend \/ Arrive \/ InsertFits
  BY <1>1, <1>2, Zenon DEF Reinsert, Descend, Arrive, InsertFits
<1>3. CASE ForcedReinsert \/ SplitRoot \/ SplitNode
  BY <1>1, <1>3, Zenon DEF ForcedReinsert, SplitRoot, SplitNode
<1>4. CASE AdjustTree \/ AdjustTreeAfterSplit \/ CondenseTree
  BY <1>1, <1>4, Zenon DEF AdjustTree, AdjustTreeAfterSplit, CondenseTree
<1>5. CASE CollapseRoot \/ CondenseRoot \/ DeleteNode \/ Finish
  BY <1>1, <1>5, Zenon DEF CollapseRoot, CondenseRoot, DeleteNode, Finish
<1>6. QED
  BY <1>2, <1>3, <1>4, <1>5, Zenon DEF Execute

LEMMA ClientStep ==
  ASSUME ClientOK, [Next]_vars
  PROVE  ClientOK'
<1>1. CASE InsertData
  <2>1. todo[1] \in Object /\ Tail(todo) \in Seq(Object)
    BY <1>1 DEF ClientOK, InsertData
  <2>2. todo' = Tail(todo) /\ answer' = <<"inserted", todo[1]>>
    BY <1>1 DEF InsertData
  <2>3. answer' \in Answers
    BY <2>1, <2>2, AnswersOf
  <2>4. QED
    BY <2>1, <2>2, <2>3 DEF ClientOK
<1>2. ASSUME NEW o \in Object, DeleteData(o) \/ DeleteNothing(o)
      PROVE  ClientOK'
  <2>1. todo' = todo /\ (answer' = <<"deleted", o>> \/ answer' = <<"not found", o>>)
    BY <1>2 DEF DeleteData, DeleteNothing
  <2>2. answer' \in Answers
    BY <2>1, AnswersOf
  <2>3. QED
    BY <2>1, <2>2 DEF ClientOK
<1>3. CASE Execute
  <2>1. UNCHANGED client
    BY <1>3, ClientWaits
  <2>2. QED
    BY <2>1, Zenon DEF client, ClientOK
<1>4. CASE UNCHANGED vars
  BY <1>4 DEF vars, client, ClientOK
<1>5. QED
  BY <1>1, <1>2, <1>3, <1>4 DEF Next, Call

LEMMA TreeStep ==
  ASSUME ReinsertsSome, TreeInv, ClientOK, [Next]_vars
  PROVE  TreeInv'
<1>1. CASE InsertData
  BY <1>1, InsertDataStep DEF ClientOK
<1>2. ASSUME NEW o \in Object, DeleteData(o)
      PROVE  TreeInv'
  BY <1>2, DeleteDataStep
<1>3. ASSUME NEW o \in Object, DeleteNothing(o)
      PROVE  TreeInv'
  BY <1>3, NothingStep DEF DeleteNothing
<1>4. CASE Execute
  <2>1. CASE Reinsert
    BY <2>1, ReinsertStep
  <2>2. CASE Descend
    BY <2>2, DescendStep
  <2>3. CASE Arrive
    BY <2>3, ArriveStep
  <2>4. CASE InsertFits
    BY <2>4, InsertFitsStep
  <2>5. CASE ForcedReinsert
    BY <2>5, ForcedReinsertStep
  <2>6. CASE SplitRoot
    BY <2>6, SplitRootStep
  <2>7. CASE SplitNode
    BY <2>7, SplitNodeStep
  <2>8. CASE AdjustTree
    BY <2>8, AdjustTreeStep
  <2>9. CASE AdjustTreeAfterSplit
    BY <2>9, AdjustTreeAfterSplitStep
  <2>10. CASE CondenseTree
    BY <2>10, CondenseTreeStep
  <2>11. CASE CollapseRoot
    BY <2>11, CollapseRootStep
  <2>12. CASE CondenseRoot
    BY <2>12, CondenseRootStep
  <2>13. CASE DeleteNode
    BY <2>13, DeleteNodeStep
  <2>14. CASE Finish
    BY <2>14, FinishStep
  <2>15. QED
    BY <1>4, <2>1, <2>2, <2>3, <2>4, <2>5, <2>6, <2>7, <2>8, <2>9, <2>10, <2>11, <2>12, <2>13,
       <2>14 DEF Execute
<1>5. CASE UNCHANGED vars
  BY <1>5, NothingStep DEF vars
<1>6. QED
  BY <1>1, <1>2, <1>3, <1>4, <1>5 DEF Next, Call

LEMMA InitClient == Init => ClientOK
BY RTreeAssumption DEF Init, ClientOK, Answers

(***************************************************************************)
(* At every step of every call the pages form a tree: every page but the   *)
(* root's is in one entry of one page, one level up, or in the hands of    *)
(* one call, and the calls on the stack are about pages that are there.    *)
(***************************************************************************)
THEOREM CallsKeepTheTree ==
  ASSUME ReinsertsSome
  PROVE  Spec => [](TreeInv /\ ClientOK)
<1>1. Init => TreeInv /\ ClientOK
  BY InitSound, InitClient
<1>2. TreeInv /\ ClientOK /\ [Next]_vars => (TreeInv /\ ClientOK)'
  BY TreeStep, ClientStep
<1>3. QED
  BY <1>1, <1>2, PTL DEF Spec

(***************************************************************************)
(* The root is still at least as high as the level that a reinsertion goes *)
(* to, however the tree was split or collapsed since the level was noted   *)
(* down (the assertion of rtree/RTree.cc:1276).                            *)
(***************************************************************************)
THEOREM ReinsertionsReachTheirLevel ==
  ASSUME ReinsertsSome
  PROVE  Spec => []ReinsertionReachesItsLevel
<1>1. TreeInv => ReinsertionReachesItsLevel
  <2> SUFFICES ASSUME TreeInv, Running("insertData_impl")
               PROVE  nodes[m_rootID].level >= work[1].level
    BY DEF ReinsertionReachesItsLevel
  <2>1. StackOK(nodes, m_rootID, work) /\ TreeOK(nodes, m_rootID) /\ work # <<>>
        /\ work[1].fn = "insertData_impl"
    BY DEF TreeInv, Sound, Running
  <2>2. work[1] \in Frame /\ FrameOK(nodes, m_rootID, work[1])
    BY <2>1, TopOf
  <2>3. work[1] \in ImplFrames /\ work[1].level <= nodes[m_rootID].level
    BY <2>1, <2>2, FrameKinds DEF FrameOK, ImplOK
  <2>4. work[1].level \in Nat /\ nodes[m_rootID].level \in Nat
    BY <2>1, <2>3, NodesTyped DEF ImplFrames, TreeOK
  <2>5. QED
    BY <2>3, <2>4
<1>2. QED
  BY <1>1, CallsKeepTheTree, PTL

------------------------------------------------------------------------------
(***************************************************************************)
(* No page is orphaned and none is shared.                                 *)
(***************************************************************************)
OneOwner(pages, root, stack) ==
  /\ \A p \in DOMAIN pages : \A c \in Children(pages[p]) :
       /\ c \in DOMAIN pages /\ c # root /\ ~Holds(stack, c)
       /\ \A q \in DOMAIN pages : c \in Children(pages[q]) => p = q
  /\ \A j \in DOMAIN stack : \A c \in HeldPages(stack[j]) :
       /\ c \in DOMAIN pages /\ c # root
       /\ \A k \in DOMAIN stack : c \in HeldPages(stack[k]) => j = k
  /\ \A c \in DOMAIN pages \ {root} :
       (\E p \in DOMAIN pages : c \in Children(pages[p])) \/ Holds(stack, c)

LEMMA OneOwnerEach ==
  ASSUME NEW stack \in Seq(Frame), NEW pages, DOMAIN pages \subseteq Nat, NEW root,
         Partition(Own(pages, stack), DOMAIN pages \ {root})
  PROVE  OneOwner(pages, root, stack)
<1> DEFINE n == Len(stack)
           own == Own(pages, stack)
<1>1. n \in Nat /\ DOMAIN stack = 1 .. n
  OBVIOUS
<1>2. DOMAIN own = DOMAIN pages \cup {-k : k \in 1 .. n}
  BY DEF Own, Owners
<1>3. \A p \in DOMAIN pages : p \in DOMAIN own /\ own[p] = Children(pages[p])
  BY DEF Own, Owners
<1>4. \A k \in 1 .. n : /\ -(n + 1 - k) \in DOMAIN own /\ own[-(n + 1 - k)] = HeldPages(stack[k])
                        /\ -(n + 1 - k) \notin DOMAIN pages
  <2>1. \A k \in 1 .. n : /\ n + 1 - k \in 1 .. n /\ n + 1 + (-(n + 1 - k)) = k
                          /\ -(n + 1 - k) \notin Nat
    BY <1>1
  <2>2. \A k \in 1 .. n : -(n + 1 - k) \in DOMAIN own /\ -(n + 1 - k) \notin DOMAIN pages
    BY <1>2, <2>1
  <2>3. \A x \in DOMAIN own \ DOMAIN pages : own[x] = HeldPages(stack[n + 1 + x])
    BY <1>1 DEF Own, Owners
  <2> HIDE DEF own, n
  <2>4. QED
    BY <2>1, <2>2, <2>3
<1>5. Partition(own, DOMAIN pages \ {root})
  OBVIOUS
<1> HIDE DEF own
<1>6. \A j, k \in 1 .. n : -(n + 1 - j) = -(n + 1 - k) => j = k
  BY <1>1
<1>7. \A x \in DOMAIN own : x \in DOMAIN pages \/ \E k \in 1 .. n : x = -(n + 1 - k)
  <2>1. \A k \in 1 .. n : n + 1 - k \in 1 .. n /\ k = n + 1 - (n + 1 - k)
    BY <1>1
  <2> HIDE DEF n
  <2>2. QED
    BY <1>2, <2>1
<1> HIDE DEF n
<1>8. ASSUME NEW p \in DOMAIN pages, NEW c \in Children(pages[p])
      PROVE  /\ c \in DOMAIN pages /\ c # root /\ ~Holds(stack, c)
             /\ \A q \in DOMAIN pages : c \in Children(pages[q]) => p = q
  <2>1. c \in own[p] /\ p \in DOMAIN own
    BY <1>3
  <2>2. c \in DOMAIN pages /\ c # root /\ \A x \in DOMAIN own : c \in own[x] => x = p
    BY <1>5, <2>1 DEF Partition
  <2>3. ~Holds(stack, c)
    BY <1>1, <1>4, <2>2 DEF Holds
  <2>4. \A q \in DOMAIN pages : c \in Children(pages[q]) => p = q
    BY <1>3, <2>2
  <2>5. QED
    BY <2>2, <2>3, <2>4
<1>9. ASSUME NEW j \in DOMAIN stack, NEW c \in HeldPages(stack[j])
      PROVE  /\ c \in DOMAIN pages /\ c # root
             /\ \A k \in DOMAIN stack : c \in HeldPages(stack[k]) => j = k
  <2>1. c \in own[-(n + 1 - j)] /\ -(n + 1 - j) \in DOMAIN own
    BY <1>1, <1>4
  <2>2. c \in DOMAIN pages /\ c # root /\ \A x \in DOMAIN own : c \in own[x] => x = -(n + 1 - j)
    BY <1>5, <2>1 DEF Partition
  <2>3. QED
    BY <1>1, <1>4, <1>6, <2>2
<1>10. ASSUME NEW c \in DOMAIN pages \ {root}
       PROVE  (\E p \in DOMAIN pages : c \in Children(pages[p])) \/ Holds(stack, c)
  <2>1. PICK x \in DOMAIN own : c \in own[x]
    BY <1>5 DEF Partition
  <2>2. CASE x \in DOMAIN pages
    BY <1>3, <2>1, <2>2
  <2>3. CASE \E k \in 1 .. n : x = -(n + 1 - k)
    BY <1>1, <1>4, <2>1, <2>3 DEF Holds
  <2>4. QED
    BY <1>7, <2>2, <2>3
<1>11. QED
  BY <1>8, <1>9, <1>10 DEF OneOwner

\* What a call has in hand is what it holds, unless it is there to delete.
Disposing(f) == f.fn \in {"condenseTree", "deleteNode"}

LEMMA HeldIsInHand ==
  ASSUME NEW f \in Frame, FrameOK(nodes, m_rootID, f), TreeOK(nodes, m_rootID), NEW p \in DOMAIN nodes
  PROVE  /\ ~Disposing(f) =>
              (p \in HeldPages(f) <=> /\ InHand(f) # <<>> /\ InHand(f)[1] = nodes[p].level + 1
                                      /\ InHand(f)[2].id = p)
         /\ Disposing(f) => InHand(f) = <<>>
<1>1. \A q \in DOMAIN nodes : nodes[q].level \in Nat
  BY NodesTyped
<1>2. nodes[p].level \in Nat /\ nodes[p].level + 1 # 0
  BY <1>1
<1>3. \A a, b : <<a, b>> # <<>> /\ <<a, b>>[1] = a /\ <<a, b>>[2] = b
  OBVIOUS
<1>4. \A l \in Nat : l # 0 => (nodes[p].level = l - 1 <=> l = nodes[p].level + 1)
  BY <1>2
<1>5. CASE f.fn \in {"insertData_impl", "chooseSubtree"}
  <2>1. f.level \in Nat /\ EntryAt(nodes, f.entry, f.level)
    BY <1>5, FrameKinds DEF FrameOK, ImplOK, ChooseOK, ImplFrames, ChooseFrames
  <2>2. InHand(f) = <<f.level, f.entry>> /\ ~Disposing(f)
    BY <1>5 DEF InHand, Disposing
  <2>3. p \in HeldPages(f) <=> f.level # 0 /\ f.entry.id = p
    BY <1>5 DEF HeldPages
  <2>4. QED
    BY <1>2, <1>3, <1>4, <2>1, <2>2, <2>3 DEF EntryAt
<1>6. CASE f.fn = "insertData"
  <2>1. f.node.level \in Nat /\ EntryAt(nodes, f.entry, f.node.level)
    BY <1>6, FrameKinds DEF FrameOK, InsertOK, InsertFrames, Nodes
  <2>2. InHand(f) = <<f.node.level, f.entry>> /\ ~Disposing(f)
    BY <1>6 DEF InHand, Disposing
  <2>3. p \in HeldPages(f) <=> f.node.level # 0 /\ f.entry.id = p
    BY <1>6 DEF HeldPages
  <2>4. QED
    BY <1>2, <1>3, <1>4, <2>1, <2>2, <2>3 DEF EntryAt
<1>7. CASE f.fn = "adjustTree2"
  <2> DEFINE l == nodes[f.page].level
  <2>1. f.page \in DOMAIN nodes /\ l # 0 /\ EntryAt(nodes, f.entry, l)
    BY <1>7 DEF FrameOK, Adjust2OK, Route
  <2>2. l \in Nat
    BY <1>1, <2>1
  <2>3. InHand(f) = <<l, f.entry>> /\ ~Disposing(f)
    BY <1>7 DEF InHand, Disposing
  <2>4. p \in HeldPages(f) <=> f.entry.id = p
    BY <1>7 DEF HeldPages
  <2> HIDE DEF l
  <2>5. QED
    BY <1>2, <1>3, <1>4, <2>1, <2>2, <2>3, <2>4 DEF EntryAt
<1>8. CASE f.fn \notin {"insertData_impl", "chooseSubtree", "insertData", "adjustTree2"}
  <2>1. InHand(f) = <<>>
    BY <1>8 DEF InHand
  <2>2. ~Disposing(f) => HeldPages(f) = {}
    BY <1>8 DEF HeldPages, Disposing
  <2>3. QED
    BY <2>1, <2>2
<1>9. QED
  BY <1>5, <1>6, <1>7, <1>8

\* The entries for a page, and the calls that have one in hand.
EntriesFor(p) ==
  {x \in UNION {{q} \X DOMAIN nodes[q].kids :
                  q \in {q \in DOMAIN nodes : nodes[q].level = nodes[p].level + 1}} :
     nodes[x[1]].kids[x[2]].id = p}

HandsFor(p) ==
  {k \in {k \in DOMAIN work : InHand(work[k]) # <<>> /\ InHand(work[k])[1] = nodes[p].level + 1} :
     InHand(work[k])[2].id = p}

LEMMA EntriesForOf ==
  ASSUME TreeOK(nodes, m_rootID), NEW p \in DOMAIN nodes
  PROVE  /\ (\A q \in DOMAIN nodes : p \notin Children(nodes[q])) => EntriesFor(p) = {}
         /\ \A q \in DOMAIN nodes :
              p \in Children(nodes[q]) /\ (\A r \in DOMAIN nodes : p \in Children(nodes[r]) => q = r)
                => \E x : EntriesFor(p) = {x}
<1>1. \A q \in DOMAIN nodes : nodes[q].level \in Nat /\ FitsIn(nodes, nodes[q])
  BY NodesTyped
<1>2. \A q \in DOMAIN nodes : \A i : <<q, i>>[1] = q /\ <<q, i>>[2] = i
  OBVIOUS
<1>3. ASSUME NEW x \in EntriesFor(p)
      PROVE  /\ x = <<x[1], x[2]>> /\ x[1] \in DOMAIN nodes /\ x[2] \in DOMAIN nodes[x[1]].kids
             /\ nodes[x[1]].kids[x[2]].id = p /\ p \in Children(nodes[x[1]])
  <2>1. PICK q \in {q \in DOMAIN nodes : nodes[q].level = nodes[p].level + 1} :
          x \in {q} \X DOMAIN nodes[q].kids
    BY DEF EntriesFor
  <2>2. x = <<x[1], x[2]>> /\ x[1] = q /\ x[2] \in DOMAIN nodes[q].kids
    BY <2>1
  <2>3. nodes[x[1]].kids[x[2]].id = p
    BY DEF EntriesFor
  <2>4. nodes[q].level # 0
    BY <1>1, <2>1
  <2>5. QED
    BY <2>2, <2>3, <2>4 DEF Children, KidIds
<1>4. ASSUME NEW q \in DOMAIN nodes, p \in Children(nodes[q]),
             \A r \in DOMAIN nodes : p \in Children(nodes[r]) => q = r
      PROVE  \E x : EntriesFor(p) = {x}
  <2>1. nodes[q].level # 0 /\ DistinctIds(nodes[q].kids) /\ nodes[p].level = nodes[q].level - 1
    BY <1>1, <1>4 DEF Children, FitsIn
  <2>2. PICK i \in DOMAIN nodes[q].kids : nodes[q].kids[i].id = p
    BY <1>4, <2>1 DEF Children, KidIds
  <2>3. nodes[q].level = nodes[p].level + 1
    BY <1>1, <2>1
  <2>4. <<q, i>> \in EntriesFor(p)
    BY <1>2, <2>2, <2>3 DEF EntriesFor
  <2>5. ASSUME NEW x \in EntriesFor(p)
        PROVE  x = <<q, i>>
    <3>1. x[1] = q
      BY <1>3, <1>4
    <3>2. x[2] = i
      BY <1>3, <2>1, <2>2, <3>1 DEF DistinctIds
    <3>3. QED
      BY <1>3, <3>1, <3>2
  <2>6. EntriesFor(p) = {<<q, i>>}
    BY <2>4, <2>5
  <2>7. QED
    BY <2>6
<1>5. QED
  BY <1>3, <1>4

LEMMA OneParent ==
  ASSUME TreeInv, NEW p \in DOMAIN nodes
  PROVE  Cardinality(EntriesFor(p)) + Cardinality(HandsFor(p))
           = IF p = m_rootID \/ p \in ToBeDeleted THEN 0 ELSE 1
<1>1. /\ TreeOK(nodes, m_rootID) /\ StackOK(nodes, m_rootID, work) /\ work \in Seq(Frame)
      /\ DOMAIN nodes \subseteq Nat
  BY DEF TreeInv, Sound, StackOK, TreeOK
<1>2. OneOwner(nodes, m_rootID, work)
  BY <1>1, OneOwnerEach DEF TreeInv, Sound
<1>3. \A k \in DOMAIN work : work[k] \in Frame /\ FrameOK(nodes, m_rootID, work[k])
  BY <1>1 DEF StackOK
<1>4. \A k \in DOMAIN work : k \in HandsFor(p) <=> p \in HeldPages(work[k]) /\ ~Disposing(work[k])
  BY <1>1, <1>3, HeldIsInHand DEF HandsFor
<1>5. p \in ToBeDeleted <=> \E k \in DOMAIN work : p \in HeldPages(work[k]) /\ Disposing(work[k])
  <2> DEFINE deleted(k) == CASE work[k].fn = "condenseTree" -> ToSet(work[k].toReinsert)
                             [] work[k].fn = "deleteNode" -> {work[k].page}
                             [] OTHER -> {}
  <2>1. ToBeDeleted = UNION {deleted(k) : k \in DOMAIN work}
    BY DEF ToBeDeleted
  <2>2. ASSUME NEW k \in DOMAIN work
        PROVE  p \in deleted(k) <=> p \in HeldPages(work[k]) /\ Disposing(work[k])
    <3>1. CASE work[k].fn = "condenseTree"
      BY <3>1 DEF HeldPages, Disposing, ToSet
    <3>2. CASE work[k].fn = "deleteNode"
      BY <3>2 DEF HeldPages, Disposing
    <3>3. CASE work[k].fn \notin {"condenseTree", "deleteNode"}
      BY <3>3 DEF Disposing
    <3>4. QED
      BY <3>1, <3>2, <3>3
  <2> HIDE DEF deleted
  <2>3. QED
    BY <2>1, <2>2
<1>6. Cardinality({}) = 0 /\ \A x : Cardinality({x}) = 1
  BY FS_EmptySet, FS_Singleton
<1>7. HandsFor(p) \subseteq DOMAIN work
  BY DEF HandsFor
<1>8. CASE p = m_rootID
  <2>1. \A q \in DOMAIN nodes : p \notin Children(nodes[q])
    BY <1>2, <1>8 DEF OneOwner
  <2>2. EntriesFor(p) = {}
    BY <1>1, <2>1, EntriesForOf
  <2>3. HandsFor(p) = {}
    BY <1>2, <1>4, <1>7, <1>8 DEF OneOwner
  <2>4. QED
    BY <1>6, <1>8, <2>2, <2>3
<1>9. CASE p # m_rootID /\ \E q \in DOMAIN nodes : p \in Children(nodes[q])
  <2>1. PICK q \in DOMAIN nodes : p \in Children(nodes[q])
    BY <1>9
  <2>2. ~Holds(work, p) /\ \A r \in DOMAIN nodes : p \in Children(nodes[r]) => q = r
    BY <1>2, <2>1 DEF OneOwner
  <2>3. \E x : EntriesFor(p) = {x}
    BY <1>1, <2>1, <2>2, EntriesForOf
  <2>4. HandsFor(p) = {} /\ p \notin ToBeDeleted
    BY <1>4, <1>5, <1>7, <2>2 DEF Holds
  <2>5. Cardinality(EntriesFor(p)) = 1 /\ Cardinality(HandsFor(p)) = 0
    BY <1>6, <2>3, <2>4
  <2>6. QED
    BY <1>9, <2>4, <2>5
<1>10. CASE p # m_rootID /\ ~\E q \in DOMAIN nodes : p \in Children(nodes[q])
  <2>1. EntriesFor(p) = {}
    BY <1>1, <1>10, EntriesForOf
  <2>2. PICK k \in DOMAIN work : p \in HeldPages(work[k])
    BY <1>2, <1>10 DEF OneOwner, Holds
  <2>3. \A j \in DOMAIN work : p \in HeldPages(work[j]) => j = k
    BY <1>2, <2>2 DEF OneOwner
  <2>4. CASE Disposing(work[k])
    <3>1. HandsFor(p) = {} /\ p \in ToBeDeleted
      BY <1>4, <1>5, <1>7, <2>2, <2>3, <2>4
    <3>2. QED
      BY <1>6, <2>1, <3>1
  <2>5. CASE ~Disposing(work[k])
    <3>1. HandsFor(p) = {k} /\ p \notin ToBeDeleted
      BY <1>4, <1>5, <1>7, <2>2, <2>3, <2>5
    <3>2. Cardinality(EntriesFor(p)) = 0 /\ Cardinality(HandsFor(p)) = 1
      BY <1>6, <2>1, <3>1
    <3>3. QED
      BY <1>10, <3>1, <3>2
  <2>6. QED
    BY <2>4, <2>5
<1>11. QED
  BY <1>8, <1>9, <1>10

(***************************************************************************)
(* No page is orphaned and none is shared, and no node outgrows its        *)
(* capacity: at every step of every call.                                  *)
(***************************************************************************)
THEOREM PagesHaveOneParent ==
  ASSUME ReinsertsSome
  PROVE  Spec => [](EveryPageHasOneParent /\ NodesWithinCapacity)
<1>1. TreeInv => EveryPageHasOneParent
  <2> SUFFICES ASSUME TreeInv, NEW p \in DOMAIN nodes
               PROVE  Occurrences(nodes[p].level + 1, LAMBDA e : e.id = p)
                        = IF p = m_rootID \/ p \in ToBeDeleted THEN 0 ELSE 1
    BY DEF EveryPageHasOneParent
  <2>1. Occurrences(nodes[p].level + 1, LAMBDA e : e.id = p)
          = Cardinality(EntriesFor(p)) + Cardinality(HandsFor(p))
    BY DEF Occurrences, EntriesFor, HandsFor
  <2>2. QED
    BY <2>1, OneParent
<1>2. TreeInv => NodesWithinCapacity
  BY DEF TreeInv, Sound, TreeOK, FitsIn, NodesWithinCapacity
<1>3. QED
  BY <1>1, <1>2, CallsKeepTheTree, PTL

==============================================================================
