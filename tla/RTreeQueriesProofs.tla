-------------------------- MODULE RTreeQueriesProofs --------------------------
(***************************************************************************)
(* Proofs about the queries of RTree, on top of RTreeBoxProofs: what they  *)
(* show is exactly what qualifies.                                         *)
(***************************************************************************)
EXTENDS RTreeBoxProofs, RTreeQueries
LOCAL INSTANCE SequencesExt
LOCAL INSTANCE FiniteSetsExt

------------------------------------------------------------------------------
(***************************************************************************)
(* Searching a tree, of pages or of pairs of pages: what was visited, what *)
(* is still to be visited, and what is worth a visit.                      *)
(***************************************************************************)
Forest(X, root, kids, level) ==
  /\ root \in X /\ kids \in [X -> SUBSET X] /\ level \in [X -> Nat]
  /\ \A x \in X : level[x] <= level[root] /\ root \notin kids[x]
  /\ \A x, y \in X : \A c \in kids[x] : level[c] < level[x] /\ (c \in kids[y] => x = y)
  /\ \A c \in X \ {root} : \E x \in X : c \in kids[x]

Searched(X, root, kids, V, P, R) ==
  /\ V \subseteq X /\ P \subseteq X /\ V \cap P = {}
  /\ \A x \in V \cup P : x = root \/ \E y \in V : x \in kids[y]
  /\ \A x \in V : kids[x] \cap R \subseteq V \cup P
  /\ root \in R => root \in V \cup P

\* x is visited, and new are those to be visited for it.
Advances(kids, V, P, R, x, new, U, Q) ==
  /\ x \in P /\ new \subseteq kids[x] /\ kids[x] \cap R \subseteq new
  /\ U = V \cup {x} /\ Q = (P \ {x}) \cup new

LEMMA SearchGoesOn ==
  ASSUME NEW X, NEW root, NEW kids, NEW level, Forest(X, root, kids, level),
         NEW V, NEW P, NEW R, Searched(X, root, kids, V, P, R),
         NEW x, NEW new, NEW U, NEW Q, Advances(kids, V, P, R, x, new, U, Q)
  PROVE  /\ new \cap P = {} /\ x \in X /\ x \notin V
         /\ Searched(X, root, kids, U, Q, R)
<1>0. /\ x \in P /\ new \subseteq kids[x] /\ kids[x] \cap R \subseteq new
      /\ U = V \cup {x} /\ Q = (P \ {x}) \cup new
  BY DEF Advances
<1>1. x \in X /\ x \notin V /\ kids[x] \subseteq X
  BY <1>0 DEF Searched, Forest
<1>2. ASSUME NEW c \in kids[x]
      PROVE  c \notin V \cup P /\ c # x
  <2>1. c \in X /\ c # root /\ level[c] < level[x] /\ level[x] \in Nat /\ level[c] \in Nat
    BY <1>1 DEF Forest
  <2>2. c # x
    BY <2>1
  <2>3. ASSUME c \in V \cup P
        PROVE  FALSE
    <3>1. PICK y \in V : c \in kids[y]
      BY <2>1, <2>3 DEF Searched
    <3>2. y \in X /\ y = x
      BY <1>1, <3>1 DEF Searched, Forest
    <3>3. QED
      BY <1>1, <3>2
  <2>4. QED
    BY <2>2, <2>3
<1>3. new \cap P = {} /\ new \cap V = {} /\ x \notin new /\ new \subseteq X
  BY <1>0, <1>1, <1>2
<1>4. Searched(X, root, kids, U, Q, R)
  BY <1>0, <1>1, <1>3 DEF Searched
<1>5. QED
  BY <1>1, <1>3, <1>4

\* When nothing is left all that was worth a visit has had one.
LEMMA SearchEnds ==
  ASSUME NEW X, NEW root, NEW kids, NEW level, Forest(X, root, kids, level),
         NEW V, NEW R \in SUBSET X, Searched(X, root, kids, V, {}, R),
         \A x \in X : \A c \in kids[x] : c \in R => x \in R
  PROVE  R \subseteq V
<1> SUFFICES ASSUME R \ V # {}
             PROVE  FALSE
  OBVIOUS
<1> DEFINE depth(x) == level[root] - level[x]
           S == {depth(x) : x \in R \ V}
<1>1. \A x \in X : level[x] \in Nat /\ level[root] \in Nat /\ depth(x) \in Nat
  BY DEF Forest
<1>2. S \in SUBSET Nat /\ S # {}
  BY <1>1
<1>3. PICK m \in S : \A d \in S : m <= d
  <2> HIDE DEF S
  <2>1. QED
    BY <1>2, LeastNumber
<1>4. PICK x \in R \ V : m = depth(x)
  OBVIOUS
<1>5. x \in X /\ x # root
  BY DEF Searched
<1>6. PICK y \in X : x \in kids[y]
  BY <1>5 DEF Forest
<1>7. y \in R /\ level[x] < level[y]
  BY <1>4, <1>6 DEF Forest
<1>8. y \in V
  <2>1. SUFFICES ASSUME y \notin V
                 PROVE  FALSE
    OBVIOUS
  <2>2. depth(y) \in S
    BY <1>7, <2>1
  <2>3. m <= depth(y)
    BY <1>3, <2>2
  <2>4. QED
    BY <1>1, <1>4, <1>5, <1>7, <2>3
<1>9. QED
  BY <1>4, <1>6, <1>8 DEF Searched

------------------------------------------------------------------------------
(***************************************************************************)
(* The loop over a node's entries takes those in D, each of them once.     *)
(***************************************************************************)
\* s is made of the entries at the given positions, as pos says.
TakenFrom(kids, s, positions, pos) ==
  /\ pos \in [DOMAIN s -> positions]
  /\ \A k \in DOMAIN s : s[k] = kids[pos[k]]
  /\ \A j, k \in DOMAIN s : pos[j] = pos[k] => j = k
  /\ \A i \in positions : \E k \in DOMAIN s : pos[k] = i

Takes(T, kids, D, n, s) ==
  s \in Seq(T) /\ \E pos : TakenFrom(kids, s, {i \in 1 .. n : kids[i] \in D}, pos)

LEMMA TakesOneMore ==
  ASSUME NEW T, NEW kids \in Seq(T), NEW D, NEW n \in 0 .. Len(kids) - 1, NEW s, Takes(T, kids, D, n, s)
  PROVE  Takes(T, kids, D, n + 1, IF kids[n + 1] \in D THEN Append(s, kids[n + 1]) ELSE s)
<1> DEFINE A == {i \in 1 .. n : kids[i] \in D}
           B == {i \in 1 .. n + 1 : kids[i] \in D}
           m == Len(s)
           e == kids[n + 1]
<1>1. PICK pos : TakenFrom(kids, s, A, pos)
  BY DEF Takes
<1>2. s \in Seq(T) /\ m \in Nat /\ DOMAIN s = 1 .. m /\ n \in Nat /\ e \in T
  BY DEF Takes
<1>3. CASE e \notin D
  <2>1. A = B
    BY <1>2, <1>3
  <2>2. QED
    BY <1>1, <1>2, <1>3, <2>1 DEF Takes
<1>4. CASE e \in D
  <2> DEFINE t == Append(s, e)
             far == [k \in 1 .. m + 1 |-> IF k = m + 1 THEN n + 1 ELSE pos[k]]
  <2>1. t \in Seq(T) /\ DOMAIN t = 1 .. m + 1 /\ t[m + 1] = e /\ \A k \in 1 .. m : t[k] = s[k]
    BY <1>2
  <2>2. B = A \cup {n + 1} /\ n + 1 \notin A
    BY <1>2, <1>4
  <2>3. /\ \A k \in 1 .. m : pos[k] \in A /\ s[k] = kids[pos[k]]
        /\ \A j, k \in 1 .. m : pos[j] = pos[k] => j = k
        /\ \A i \in A : \E k \in 1 .. m : pos[k] = i
    BY <1>1, <1>2 DEF TakenFrom
  <2>4. /\ \A k \in 1 .. m : k \in 1 .. m + 1 /\ k # m + 1 /\ far[k] = pos[k]
        /\ far[m + 1] = n + 1 /\ m + 1 \in 1 .. m + 1
        /\ \A k \in 1 .. m + 1 : k = m + 1 \/ k \in 1 .. m
    BY <1>2
  <2>5. far = [k \in 1 .. m + 1 |-> far[k]]
    OBVIOUS
  <2> HIDE DEF far, A, B, t, m, e
  <2>6. far \in [1 .. m + 1 -> B]
    <3>1. \A k \in 1 .. m + 1 : far[k] \in B
      BY <2>2, <2>3, <2>4
    <3>2. QED
      BY <2>5, <3>1
  <2>7. \A k \in 1 .. m + 1 : t[k] = kids[far[k]]
    BY <2>1, <2>3, <2>4 DEF e
  <2>8. \A j, k \in 1 .. m + 1 : far[j] = far[k] => j = k
    BY <2>2, <2>3, <2>4
  <2>9. \A i \in B : \E k \in 1 .. m + 1 : far[k] = i
    BY <2>2, <2>3, <2>4
  <2>10. TakenFrom(kids, t, B, far)
    BY <2>1, <2>6, <2>7, <2>8, <2>9 DEF TakenFrom
  <2>11. Takes(T, kids, D, n + 1, t)
    BY <2>1, <2>10 DEF Takes, B
  <2>12. QED
    BY <1>4, <2>11 DEF e, t
<1>5. QED
  BY <1>3, <1>4

LEMMA MatchingTakes ==
  ASSUME NEW T, NEW kids \in Seq(T), NEW D
  PROVE  Takes(T, kids, D, Len(kids), Matching(kids, D))
<1> DEFINE n == Len(kids)
           After(s, k) == IF kids[k] \in D THEN Append(s, kids[k]) ELSE s
           Fits(f) == f = [k \in 0 .. n |-> IF k = 0 THEN <<>>
                                            ELSE IF kids[k] \in D THEN Append(f[k - 1], kids[k])
                                            ELSE f[k - 1]]
           matching == CHOOSE f : Fits(f)
<1>1. Matching(kids, D) = matching[n] /\ n \in Nat
  BY DEF Matching
<1>2. \E f : Fits(f)
  <2> DEFINE U == {x \in (0 .. n) \X Seq(T) : TRUE}
             start == <<0, <<>>>>
             next == [x \in U |-> IF x[1] < n THEN <<x[1] + 1, After(x[2], x[1] + 1)>> ELSE x]
  <2>1. ASSUME NEW x \in U
        PROVE  (IF x[1] < n THEN <<x[1] + 1, After(x[2], x[1] + 1)>> ELSE x) \in U
    <3>1. x[1] \in 0 .. n /\ x[2] \in Seq(T)
      OBVIOUS
    <3>2. ASSUME x[1] < n
          PROVE  After(x[2], x[1] + 1) \in Seq(T) /\ x[1] + 1 \in 0 .. n
      <4>1. kids[x[1] + 1] \in T
        BY <1>1, <3>1, <3>2
      <4>2. QED
        BY <1>1, <3>1, <3>2, <4>1
    <3> HIDE DEF After
    <3>3. QED
      BY <3>1, <3>2
  <2>2. start \in U
    <3>1. 0 \in 0 .. n /\ <<>> \in Seq(T)
      BY <1>1
    <3> DEFINE A == 0 .. n
               B == Seq(T)
    <3>2. \A a \in A, b \in B : <<a, b>> \in A \X B
      OBVIOUS
    <3> HIDE DEF A, B
    <3>3. start \in A \X B
      BY <3>1, <3>2 DEF A, B
    <3>4. QED
      BY <3>3 DEF A, B
  <2> HIDE DEF After
  <2>3. next \in [U -> U]
    BY <2>1
  <2>4. \A x \in U : x[1] \in 0 .. n
    OBVIOUS
  <2>5. \A x \in U : x[1] < n => next[x][1] = x[1] + 1 /\ next[x][2] = After(x[2], x[1] + 1)
    OBVIOUS
  <2> HIDE DEF next, U
  <2>6. PICK g : Iterates(g, n, U, start, next)
    BY <1>1, <2>2, <2>3, Recursion
  <2> DEFINE S == {k \in 0 .. n : g[k][1] = k}
  <2>7. 0 \in S
    BY <1>1, <2>6 DEF Iterates
  <2>8. ASSUME NEW k \in 0 .. n - 1, g[k][1] = k
        PROVE  g[k + 1][1] = k + 1 /\ g[k + 1][2] = After(g[k][2], k + 1)
    <3>1. k + 1 \in 1 .. n /\ (k + 1) - 1 = k /\ k \in 0 .. n /\ k < n
      BY <1>1
    <3>2. g[k + 1] = next[g[k]] /\ g[k] \in U
      BY <2>6, <3>1 DEF Iterates
    <3>3. QED
      BY <2>5, <2>8, <3>1, <3>2
  <2>9. \A k \in 0 .. n - 1 : k \in S => k + 1 \in S
    BY <1>1, <2>8
  <2>10. \A k \in 0 .. n : k \in S
    <3> HIDE DEF S
    <3>1. QED
      BY <1>1, <2>7, <2>9, UpTo
  <2> DEFINE f == [k \in 0 .. n |-> g[k][2]]
  <2>11. ASSUME NEW k \in 0 .. n
         PROVE  f[k] = IF k = 0 THEN <<>> ELSE IF kids[k] \in D THEN Append(f[k - 1], kids[k]) ELSE f[k - 1]
    <3>1. CASE k = 0
      BY <2>6, <3>1 DEF Iterates
    <3>2. CASE k # 0
      <4>1. k - 1 \in 0 .. n - 1 /\ k - 1 \in 0 .. n /\ (k - 1) + 1 = k
        BY <1>1, <3>2
      <4>2. g[k][2] = After(g[k - 1][2], k)
        BY <2>8, <2>10, <4>1
      <4>3. QED
        BY <3>2, <4>1, <4>2 DEF After
    <3>3. QED
      BY <3>1, <3>2
  <2>12. f = [k \in 0 .. n |-> f[k]]
    OBVIOUS
  <2> HIDE DEF f
  <2>13. Fits(f)
    BY <2>11, <2>12
  <2>14. QED
    BY <2>13
<1>3. Fits(matching)
  <2> HIDE DEF Fits
  <2>1. QED
    BY <1>2
<1> HIDE DEF matching
<1> DEFINE S == {k \in 0 .. n : Takes(T, kids, D, k, matching[k])}
<1>4. 0 \in S
  <2>1. matching[0] = <<>>
    BY <1>1, <1>3
  <2> DEFINE none == <<>>
  <2>2. none \in Seq(T) /\ DOMAIN none = {} /\ {i \in 1 .. 0 : kids[i] \in D} = {}
    OBVIOUS
  <2>3. TakenFrom(kids, none, {i \in 1 .. 0 : kids[i] \in D}, none)
    BY <2>2 DEF TakenFrom
  <2>4. Takes(T, kids, D, 0, none)
    BY <2>2, <2>3 DEF Takes
  <2>5. QED
    BY <1>1, <2>1, <2>4
<1>5. ASSUME NEW k \in 0 .. n - 1, k \in S
      PROVE  k + 1 \in S
  <2>1. k + 1 \in 0 .. n /\ k + 1 # 0 /\ (k + 1) - 1 = k
    BY <1>1
  <2>2. matching[k + 1] = IF kids[k + 1] \in D THEN Append(matching[k], kids[k + 1]) ELSE matching[k]
    BY <1>3, <2>1
  <2>3. Takes(T, kids, D, k + 1, matching[k + 1])
    BY <1>5, <2>2, TakesOneMore
  <2>4. QED
    BY <2>1, <2>3
<1>6. \A k \in 0 .. n : k \in S
  <2> HIDE DEF S
  <2>1. QED
    BY <1>1, <1>4, <1>5, UpTo
<1>7. QED
  BY <1>1, <1>6

\* What it takes, and how many of each.
LEMMA MatchingOf ==
  ASSUME NEW T, NEW kids \in Seq(T), NEW D
  PROVE  /\ Matching(kids, D) \in Seq(T)
         /\ \A E : Count(Matching(kids, D), E) = Count(kids, D \cap E)
         /\ \E pos : TakenFrom(kids, Matching(kids, D), Places(kids, D), pos)
<1> DEFINE s == Matching(kids, D)
<1>1. {i \in 1 .. Len(kids) : kids[i] \in D} = Places(kids, D)
  BY DEF Places
<1>2. s \in Seq(T)
  BY MatchingTakes DEF Takes
<1>3. PICK pos : TakenFrom(kids, s, Places(kids, D), pos)
  BY <1>1, MatchingTakes DEF Takes
<1> HIDE DEF s
<1>4. ASSUME NEW E
      PROVE  Count(s, E) = Count(kids, D \cap E)
  <2> DEFINE A == Places(s, E)
             B == Places(kids, D \cap E)
             f == [k \in A |-> pos[k]]
  <2>1. IsFiniteSet(A) /\ IsFiniteSet(B)
    BY <1>2, CountType
  <2>2. f \in [A -> B] /\ \A x, y \in A : f[x] = f[y] => x = y
    BY <1>3 DEF TakenFrom, Places
  <2>3. ASSUME NEW b \in B
        PROVE  \E a \in A : f[a] = b
    <3>1. b \in Places(kids, D) /\ kids[b] \in E
      BY DEF Places
    <3>2. PICK a \in DOMAIN s : pos[a] = b
      BY <1>3, <3>1 DEF TakenFrom
    <3>3. a \in A
      BY <1>3, <3>1, <3>2 DEF TakenFrom, Places
    <3>4. QED
      BY <3>2, <3>3
  <2> HIDE DEF A, B, f
  <2>4. Cardinality(B) = Cardinality(A)
    BY <2>1, <2>2, <2>3, OneToOne
  <2>5. QED
    BY <2>4 DEF Count, A, B
<1>5. QED
  BY <1>2, <1>3, <1>4 DEF s

------------------------------------------------------------------------------
(***************************************************************************)
(* The tree that a query walks over, and the leaves it has been to.        *)
(***************************************************************************)
NoCalls == <<>>

Below(pages)  == [p \in DOMAIN pages |-> Children(pages[p])]
Levels(pages) == [p \in DOMAIN pages |-> pages[p].level]

LEMMA TreeIsForest ==
  ASSUME NEW pages, NEW root, Sound(pages, root, NoCalls)
  PROVE  Forest(DOMAIN pages, root, Below(pages), Levels(pages))
<1>1. NoCalls \in Seq(Frame) /\ \A c : ~Holds(NoCalls, c)
  BY DEF NoCalls, Holds
<1>2. TreeOK(pages, root) /\ OneOwner(pages, root, NoCalls)
  BY <1>1, OneOwnerEach DEF Sound, TreeOK
<1>3. /\ \A p \in DOMAIN pages : \A c \in Children(pages[p]) :
           /\ c \in DOMAIN pages /\ c # root
           /\ \A q \in DOMAIN pages : c \in Children(pages[q]) => p = q
      /\ \A c \in DOMAIN pages \ {root} : \E p \in DOMAIN pages : c \in Children(pages[p])
  BY <1>1, <1>2 DEF OneOwner
<1>4. \A p \in DOMAIN pages : /\ pages[p].level \in Nat /\ pages[p].level <= pages[root].level
                              /\ FitsIn(pages, pages[p])
  BY <1>2, NodesTyped
<1>5. ASSUME NEW p \in DOMAIN pages, NEW c \in Children(pages[p])
      PROVE  pages[c].level < pages[p].level
  <2>1. pages[p].level # 0 /\ c \in KidIds(pages[p].kids)
    BY DEF Children
  <2>2. pages[c].level = pages[p].level - 1
    BY <1>4, <2>1 DEF FitsIn
  <2>3. QED
    BY <1>4, <2>2
<1>6. \A p \in DOMAIN pages : Below(pages)[p] = Children(pages[p]) /\ Levels(pages)[p] = pages[p].level
  BY DEF Below, Levels
<1>7. root \in DOMAIN pages
  BY <1>2 DEF TreeOK
<1>8. Below(pages) \in [DOMAIN pages -> SUBSET DOMAIN pages] /\ Levels(pages) \in [DOMAIN pages -> Nat]
  BY <1>3, <1>4 DEF Below, Levels
<1>9. QED
  BY <1>3, <1>4, <1>5, <1>6, <1>7, <1>8 DEF Forest

\* Some of the pages.
Part(pages, V) == [p \in V |-> pages[p]]

LEMMA PartIsSmall ==
  ASSUME NEW pages, Small(pages), NEW V \in SUBSET DOMAIN pages
  PROVE  Small(Part(pages, V))
BY FS_Subset DEF Small, Part

LEMMA PartGrows ==
  ASSUME NEW pages, Small(pages), NEW V \in SUBSET DOMAIN pages, NEW x \in DOMAIN pages \ V, NEW D
  PROVE  /\ LeafCount(Part(pages, V), D) \in Nat /\ InLeaf(pages[x], D) \in Nat
         /\ LeafCount(Part(pages, V \cup {x}), D) = LeafCount(Part(pages, V), D) + InLeaf(pages[x], D)
<1> DEFINE more == Part(pages, V \cup {x})
<1>1. Small(more) /\ x \in DOMAIN more /\ more[x] = pages[x]
  BY PartIsSmall DEF Part
<1>2. Alike(Without(more, x), Part(pages, V))
  BY DEF Alike, Without, Part
<1> HIDE DEF more
<1>3. LeafCount(Without(more, x), D) = LeafCount(Part(pages, V), D)
  BY <1>2, LeafCountAlike
<1>4. QED
  BY <1>1, <1>3, LeafCountWithout DEF more

LEMMA PartOfNone ==
  ASSUME NEW pages, NEW D
  PROVE  LeafCount(Part(pages, {}), D) = 0
<1>1. LeafPlaces(Part(pages, {}), D) = {}
  BY DEF LeafPlaces, Part
<1>2. QED
  BY <1>1, FS_EmptySet DEF LeafCount

\* The other leaves have none.
LEMMA PartHasAll ==
  ASSUME NEW pages, NEW V \in SUBSET DOMAIN pages, NEW D,
         \A p \in DOMAIN pages \ V : pages[p].level = 0 => \A k \in DOMAIN pages[p].kids : pages[p].kids[k] \notin D
  PROVE  LeafCount(Part(pages, V), D) = LeafCount(pages, D)
<1>1. DOMAIN Part(pages, V) = V /\ \A p \in V : Part(pages, V)[p] = pages[p]
  BY DEF Part
<1>2. ASSUME NEW x
      PROVE  x \in LeafPlaces(Part(pages, V), D) <=> x \in LeafPlaces(pages, D)
  <2>1. x \in LeafPlaces(Part(pages, V), D)
          <=> \E p \in V : \E i \in DOMAIN pages[p].kids :
                x = <<p, i>> /\ pages[p].level = 0 /\ pages[p].kids[i] \in D
    BY <1>1, LeafPlacesOf
  <2>2. x \in LeafPlaces(pages, D)
          <=> \E p \in DOMAIN pages : \E i \in DOMAIN pages[p].kids :
                x = <<p, i>> /\ pages[p].level = 0 /\ pages[p].kids[i] \in D
    BY LeafPlacesOf
  <2>3. QED
    BY <2>1, <2>2
<1>3. LeafPlaces(Part(pages, V), D) = LeafPlaces(pages, D)
  BY <1>2
<1>4. QED
  BY <1>3 DEF LeafCount

------------------------------------------------------------------------------
(***************************************************************************)
(* Regions that meet, and the boxes on the way to them.                    *)
(***************************************************************************)
LEMMA MeetsMore ==
  ASSUME NEW q \in Regions, NEW s \in Regions, NEW t \in Regions,
         ContainsRegion(t, s), IntersectsRegion(q, s)
  PROVE  IntersectsRegion(q, t)
<1>1. \A d \in Dim : /\ q.low[d] \in Int /\ s.low[d] \in Int /\ t.low[d] \in Int
                     /\ q.high[d] \in Int /\ s.high[d] \in Int /\ t.high[d] \in Int
                     /\ t.low[d] <= s.low[d] /\ s.high[d] <= t.high[d]
                     /\ q.low[d] <= s.high[d] /\ s.low[d] <= q.high[d]
  BY DEF Regions, ContainsRegion, IntersectsRegion
<1>2. \A d \in Dim : q.low[d] <= t.high[d] /\ t.low[d] <= q.high[d]
  BY <1>1
<1>3. QED
  BY <1>2 DEF IntersectsRegion

LEMMA InsideMeets ==
  ASSUME NEW q \in Regions, NEW s \in Regions, ProperRegion(s), ContainsRegion(q, s)
  PROVE  IntersectsRegion(q, s)
<1>1. \A d \in Dim : /\ q.low[d] \in Int /\ s.low[d] \in Int
                     /\ q.high[d] \in Int /\ s.high[d] \in Int
                     /\ q.low[d] <= s.low[d] /\ s.high[d] <= q.high[d] /\ s.low[d] <= s.high[d]
  BY DEF Regions, ContainsRegion, ProperRegion
<1>2. \A d \in Dim : q.low[d] <= s.high[d] /\ s.low[d] <= q.high[d]
  BY <1>1
<1>3. QED
  BY <1>2 DEF IntersectsRegion

\* Every box is around what it is for.
LEMMA BoxesAround ==
  ASSUME NEW pages, NEW root, Sound(pages, root, NoCalls), Boxes(pages, NoCalls),
         NEW p \in DOMAIN pages, NEW k \in DOMAIN pages[p].kids
  PROVE  LET e == pages[p].kids[k] IN
         /\ e \in Entry /\ e.mbr \in Regions /\ e.id \in Nat /\ pages[p].mbr \in Regions
         /\ ContainsRegion(pages[p].mbr, e.mbr)
         /\ pages[p].level # 0 =>
              /\ e.id \in Children(pages[p]) /\ e.id \in DOMAIN pages
              /\ pages[e.id].level = pages[p].level - 1
              /\ pages[e.id].mbr \in Regions /\ ContainsRegion(e.mbr, pages[e.id].mbr)
<1> DEFINE e == pages[p].kids[k]
<1>1. /\ pages[p].kids \in Seq(Entry) /\ pages[p].mbr \in Regions /\ FitsIn(pages, pages[p])
      /\ TreeOK(pages, root)
  BY NodesTyped DEF Sound
<1>2. e \in Entry
  BY <1>1
<1>3. e.mbr \in Regions /\ e.id \in Nat
  BY <1>2, EntryOf
<1>4. BoxOK(pages[p]) /\ KidsBound(pages, NoCalls, p)
  BY DEF Boxes
<1>5. ContainsRegion(pages[p].mbr, e.mbr)
  BY <1>4 DEF BoxOK
<1>6. ASSUME pages[p].level # 0
      PROVE  /\ e.id \in Children(pages[p]) /\ e.id \in DOMAIN pages
             /\ pages[e.id].level = pages[p].level - 1
             /\ pages[e.id].mbr \in Regions /\ ContainsRegion(e.mbr, pages[e.id].mbr)
  <2>1. e.id \in Children(pages[p]) /\ e.id \in KidIds(pages[p].kids)
    BY <1>6 DEF Children, KidIds
  <2>2. e.id \in DOMAIN pages /\ pages[e.id].level = pages[p].level - 1
    BY <1>1, <1>6, <2>1 DEF FitsIn
  <2>3. EntryBound(pages, NoCalls, p, e)
    BY <1>4, <1>6 DEF KidsBound
  <2>4. ContainsRegion(e.mbr, pages[e.id].mbr)
    BY <2>3 DEF EntryBound, Spans, Behind, Shrinking, NoCalls
  <2>5. pages[e.id].mbr \in Regions
    BY <1>1, <2>2, NodesTyped
  <2>6. QED
    BY <2>1, <2>2, <2>4, <2>5
<1>7. QED
  BY <1>1, <1>2, <1>3, <1>5, <1>6

------------------------------------------------------------------------------
(***************************************************************************)
(* A turn of a query's loop: the last of the list is replaced by others.   *)
(***************************************************************************)
LEMMA LastReplaced ==
  ASSUME NEW T, NEW s \in Seq(T), s # <<>>, NEW t \in Seq(T)
  PROVE  LET n == Len(s) - 1
             u == Front(s) \o t
         IN  /\ n \in Nat /\ u \in Seq(T) /\ DOMAIN u = 1 .. n + Len(t) /\ DOMAIN s = 1 .. n + 1
             /\ DOMAIN t = 1 .. Len(t) /\ Len(t) \in Nat /\ Last(s) = s[n + 1]
             /\ \A k \in 1 .. n : u[k] = s[k]
             /\ \A k \in 1 .. Len(t) : u[n + k] = t[k]
             /\ \A k \in DOMAIN u : k \in 1 .. n \/ k - n \in 1 .. Len(t)
<1> DEFINE n == Len(s) - 1
           front == Front(s)
           u == front \o t
<1>1. /\ front \in Seq(T) /\ Len(front) = n /\ \A i \in 1 .. n : front[i] = s[i]
      /\ Last(s) = s[Len(s)] /\ Len(s) >= 1
  BY FrontOf
<1>2. n \in Nat /\ Len(t) \in Nat /\ n + 1 = Len(s) /\ DOMAIN s = 1 .. n + 1 /\ DOMAIN t = 1 .. Len(t)
  BY <1>1
<1>3. /\ u \in Seq(T) /\ Len(u) = n + Len(t)
      /\ \A i \in 1 .. n : u[i] = front[i]
      /\ \A i \in 1 .. Len(t) : u[n + i] = t[i]
  <2> HIDE DEF front, n
  <2>1. /\ front \o t \in Seq(T) /\ Len(front \o t) = Len(front) + Len(t)
        /\ \A i \in 1 .. Len(front) : (front \o t)[i] = front[i]
        /\ \A i \in 1 .. Len(t) : (front \o t)[Len(front) + i] = t[i]
    <3>1. front \in Seq(T)
      BY <1>1
    <3>2. QED
      BY <3>1, Concatenated
  <2>3. u = front \o t
    OBVIOUS
  <2> HIDE DEF u
  <2>2. QED
    BY <1>1, <2>1, <2>3
<1>4. DOMAIN u = 1 .. n + Len(t)
  BY <1>3
<1>5. \A k \in 1 .. n + Len(t) : k \in 1 .. n \/ k - n \in 1 .. Len(t)
  BY <1>2
<1> HIDE DEF n, u, front
<1>6. Last(s) = s[n + 1] /\ \A k \in 1 .. n : u[k] = s[k]
  BY <1>1, <1>2, <1>3
<1>7. QED
  BY <1>2, <1>3, <1>4, <1>5, <1>6 DEF n, u, front

LEMMA CountConcatenated ==
  ASSUME NEW T, NEW s \in Seq(T), NEW t \in Seq(T), NEW D
  PROVE  /\ s \o t \in Seq(T) /\ Count(s, D) \in Nat /\ Count(t, D) \in Nat
         /\ Count(s \o t, D) = Count(s, D) + Count(t, D)
<1> DEFINE u == s \o t
<1>1. u \in Seq(T) /\ InTwo(u, s, t)
  BY Concatenated DEF InTwo
<1> HIDE DEF u
<1>2. Count(u, D) = Count(s, D) + Count(t, D)
  BY <1>1, CountParted
<1>3. Count(s, D) \in Nat /\ Count(t, D) \in Nat
  BY CountType
<1>4. QED
  BY <1>1, <1>2, <1>3 DEF u

LEMMA CountNone ==
  ASSUME NEW D
  PROVE  Count(<<>>, D) = 0
<1>1. Places(<<>>, D) = {}
  BY DEF Places
<1>2. QED
  BY <1>1, FS_EmptySet DEF Count

------------------------------------------------------------------------------
(***************************************************************************)
(* Range queries.  What a query asked for: of a subtree whose box does not *)
(* meet it there is nothing to show.                                       *)
(***************************************************************************)
Qualifies(q, x) ==
  IF q.kind = "intersectsWithQuery" THEN IntersectsRegion(q.region, x.mbr)
                                    ELSE ContainsRegion(q.region, x.mbr)

Promising(pages, q) ==
  {p \in DOMAIN pages : pages[p].kids # <<>> /\ IntersectsRegion(q.region, pages[p].mbr)}

\* No call is under way, and the leaves hold objects of clients.
Resting(pages, root) ==
  /\ Sound(pages, root, NoCalls)
  /\ Boxes(pages, NoCalls)
  /\ LeafCount(pages, Entry \ Object) = 0

LEMMA QueryOf ==
  ASSUME NEW q \in Queries
  PROVE  q.kind \in QueryKinds /\ q.region \in Regions /\ q.k \in Nat
BY RTreeQueriesAssumption DEF Regions

LEMMA LeavesHoldObjects ==
  ASSUME NEW pages, NEW root, Resting(pages, root), NEW p \in DOMAIN pages, pages[p].level = 0,
         NEW k \in DOMAIN pages[p].kids
  PROVE  pages[p].kids[k] \in Object
<1> DEFINE D == Entry \ Object
<1>1. IsFiniteSet(LeafPlaces(pages, D)) /\ Cardinality(LeafPlaces(pages, D)) = 0
  BY TreeIsSmall, LeafPlacesFinite DEF Resting, Sound, LeafCount
<1> HIDE DEF D
<1>2. LeafPlaces(pages, D) = {}
  BY <1>1, FS_EmptySet
<1>3. pages[p].kids[k] \notin D
  <2>1. <<p, k>> \notin LeafPlaces(pages, D)
    BY <1>2
  <2>2. QED
    BY <2>1, LeafPlacesOf
<1>4. pages[p].kids[k] \in Entry
  BY BoxesAround DEF Resting
<1>5. QED
  BY <1>3, <1>4 DEF D

LEMMA PromisesKept ==
  ASSUME NEW pages, NEW root, Resting(pages, root), NEW q \in Queries,
         NEW p \in DOMAIN pages, NEW k \in DOMAIN pages[p].kids
  PROVE  LET e == pages[p].kids[k] IN
         /\ pages[p].level = 0 /\ Qualifies(q, e) => p \in Promising(pages, q)
         /\ pages[p].level # 0 /\ e.id \in Promising(pages, q) =>
              p \in Promising(pages, q) /\ IntersectsRegion(q.region, e.mbr)
<1> DEFINE e == pages[p].kids[k]
<1>1. /\ e \in Entry /\ e.mbr \in Regions /\ e.id \in Nat /\ pages[p].mbr \in Regions
      /\ ContainsRegion(pages[p].mbr, e.mbr)
      /\ pages[p].level # 0 =>
           /\ e.id \in Children(pages[p]) /\ e.id \in DOMAIN pages
           /\ pages[e.id].mbr \in Regions /\ ContainsRegion(e.mbr, pages[e.id].mbr)
  BY BoxesAround DEF Resting
<1>2. q.region \in Regions
  BY QueryOf
<1>3. pages[p].kids # <<>>
  OBVIOUS
<1>4. ASSUME IntersectsRegion(q.region, e.mbr)
      PROVE  p \in Promising(pages, q)
  <2>1. IntersectsRegion(q.region, pages[p].mbr)
    BY <1>1, <1>2, <1>4, MeetsMore
  <2>2. QED
    BY <1>3, <2>1 DEF Promising
<1>5. ASSUME pages[p].level = 0, Qualifies(q, e)
      PROVE  IntersectsRegion(q.region, e.mbr)
  <2>1. e \in Object
    BY <1>5, LeavesHoldObjects
  <2>2. ProperRegion(e.mbr)
    BY <2>1, RTreeQueriesAssumption
  <2>3. QED
    BY <1>1, <1>2, <1>5, <2>2, InsideMeets DEF Qualifies
<1>6. ASSUME pages[p].level # 0, e.id \in Promising(pages, q)
      PROVE  IntersectsRegion(q.region, e.mbr)
  BY <1>1, <1>2, <1>6, MeetsMore DEF Promising
<1>7. QED
  BY <1>4, <1>5, <1>6

------------------------------------------------------------------------------
(***************************************************************************)
(* The loop invariant: pages were visited from the root down, and all that *)
(* is promising below them was visited or is pending; shown is what the    *)
(* visited leaves hold of what the query asked for.                        *)
(***************************************************************************)
Visits(pages) == [page : DOMAIN pages, whole : BOOLEAN]

QueryFrames(S, T) == [fn : QueryKinds, query : Queries, pending : Seq(S), shown : Seq(T)]

PagesOf(visits) == {visits[k].page : k \in DOMAIN visits}

OncePerPage(visits) == \A j, k \in DOMAIN visits : visits[j].page = visits[k].page => j = k

\* All the data below a page is shown only if all of it is asked for.
WholeIsInside(pages, q, visits) ==
  \A k \in DOMAIN visits : visits[k].whole =>
    q.kind # "intersectsWithQuery" /\ ContainsRegion(q.region, pages[visits[k].page].mbr)

Shows(q, x, copies) == IF Qualifies(q, x) THEN copies ELSE 0

RangeOK(pages, root, f) ==
  /\ f \in QueryFrames(Visits(pages), Entry) /\ f.fn = f.query.kind
  /\ OncePerPage(f.pending) /\ WholeIsInside(pages, f.query, f.pending)
  /\ \E V \in SUBSET DOMAIN pages :
       /\ Searched(DOMAIN pages, root, Below(pages), V, PagesOf(f.pending), Promising(pages, f.query))
       /\ \A x \in Entry : Count(f.shown, {x}) = Shows(f.query, x, LeafCount(Part(pages, V), {x}))

\* What a turn of the loop may do with the page it visits.
VisitOK(pages, q, x, pushed, shown) ==
  /\ pushed \in Seq(Visits(pages)) /\ shown \in Seq(Entry)
  /\ OncePerPage(pushed) /\ WholeIsInside(pages, q, pushed)
  /\ PagesOf(pushed) \subseteq Children(pages[x])
  /\ Children(pages[x]) \cap Promising(pages, q) \subseteq PagesOf(pushed)
  /\ \A e \in Entry : Count(shown, {e}) = Shows(q, e, InLeaf(pages[x], {e}))

LEMMA PagesReplaced ==
  ASSUME NEW pages, NEW s \in Seq(Visits(pages)), s # <<>>, NEW t \in Seq(Visits(pages)),
         OncePerPage(s)
  PROVE  LET x == Last(s).page
             u == Front(s) \o t
         IN  /\ u \in Seq(Visits(pages)) /\ x \in PagesOf(s) /\ x \in DOMAIN pages
             /\ PagesOf(u) = (PagesOf(s) \ {x}) \cup PagesOf(t)
             /\ OncePerPage(t) /\ (PagesOf(s) \ {x}) \cap PagesOf(t) = {} => OncePerPage(u)
             /\ \A q : WholeIsInside(pages, q, s) /\ WholeIsInside(pages, q, t)
                         => WholeIsInside(pages, q, u)
<1> DEFINE x == Last(s).page
           n == Len(s) - 1
           m == Len(t)
           u == Front(s) \o t
<1>1. /\ n \in Nat /\ u \in Seq(Visits(pages)) /\ DOMAIN u = 1 .. n + m /\ DOMAIN s = 1 .. n + 1
      /\ DOMAIN t = 1 .. m /\ m \in Nat /\ Last(s) = s[n + 1]
      /\ \A k \in 1 .. n : u[k] = s[k]
      /\ \A k \in 1 .. m : u[n + k] = t[k]
      /\ \A k \in DOMAIN u : k \in 1 .. n \/ k - n \in 1 .. m
  BY LastReplaced
<1> HIDE DEF n, m, u
<1>2. n + 1 \in 1 .. n + 1 /\ x = s[n + 1].page /\ s[n + 1] \in Visits(pages)
  BY <1>1
<1>3. x \in PagesOf(s) /\ x \in DOMAIN pages
  BY <1>1, <1>2 DEF PagesOf, Visits
<1>4. \A k \in 1 .. n : /\ k \in DOMAIN s /\ k \in DOMAIN u /\ u[k] = s[k]
                        /\ k # n + 1 /\ s[k].page # x /\ s[k].page \in PagesOf(s)
  BY <1>1, <1>2 DEF OncePerPage, PagesOf
<1>5. \A k \in 1 .. m : n + k \in DOMAIN u /\ u[n + k] = t[k] /\ t[k].page \in PagesOf(t)
  BY <1>1 DEF PagesOf
<1>6. \A k \in DOMAIN u : \/ k \in 1 .. n
                          \/ k - n \in 1 .. m /\ u[k] = t[k - n]
  <2>1. \A k \in DOMAIN u : n + (k - n) = k
    BY <1>1
  <2>2. QED
    BY <1>1, <2>1
<1>7. PagesOf(u) = (PagesOf(s) \ {x}) \cup PagesOf(t)
  <2>1. ASSUME NEW p \in PagesOf(u)
        PROVE  p \in (PagesOf(s) \ {x}) \cup PagesOf(t)
    <3>1. PICK k \in DOMAIN u : p = u[k].page
      BY DEF PagesOf
    <3>2. QED
      BY <1>4, <1>5, <1>6, <3>1
  <2>2. ASSUME NEW p \in PagesOf(s) \ {x}
        PROVE  p \in PagesOf(u)
    <3>1. PICK k \in DOMAIN s : p = s[k].page
      BY DEF PagesOf
    <3>2. k \in 1 .. n
      BY <1>1, <1>2, <3>1
    <3>3. QED
      BY <1>4, <3>1, <3>2 DEF PagesOf
  <2>3. ASSUME NEW p \in PagesOf(t)
        PROVE  p \in PagesOf(u)
    <3>1. PICK k \in DOMAIN t : p = t[k].page
      BY DEF PagesOf
    <3>2. QED
      BY <1>1, <1>5, <3>1 DEF PagesOf
  <2>4. QED
    BY <2>1, <2>2, <2>3
<1>8. ASSUME OncePerPage(t), (PagesOf(s) \ {x}) \cap PagesOf(t) = {}
      PROVE  OncePerPage(u)
  <2> SUFFICES ASSUME NEW j \in DOMAIN u, NEW k \in DOMAIN u, u[j].page = u[k].page
               PROVE  j = k
    BY DEF OncePerPage
  <2>1. CASE j \in 1 .. n /\ k \in 1 .. n
    BY <1>4, <2>1 DEF OncePerPage
  <2>2. CASE j \in 1 .. n /\ k - n \in 1 .. m /\ u[k] = t[k - n]
    BY <1>4, <1>5, <1>8, <2>2
  <2>3. CASE k \in 1 .. n /\ j - n \in 1 .. m /\ u[j] = t[j - n]
    BY <1>4, <1>5, <1>8, <2>3
  <2>4. CASE j - n \in 1 .. m /\ u[j] = t[j - n] /\ k - n \in 1 .. m /\ u[k] = t[k - n]
    <3>1. j - n = k - n
      BY <1>1, <1>8, <2>4 DEF OncePerPage
    <3>2. QED
      BY <1>1, <3>1
  <2>5. QED
    BY <1>6, <2>1, <2>2, <2>3, <2>4
<1>9. ASSUME NEW q, WholeIsInside(pages, q, s), WholeIsInside(pages, q, t)
      PROVE  WholeIsInside(pages, q, u)
  <2> SUFFICES ASSUME NEW k \in DOMAIN u, u[k].whole
               PROVE  q.kind # "intersectsWithQuery" /\ ContainsRegion(q.region, pages[u[k].page].mbr)
    BY DEF WholeIsInside
  <2>1. QED
    BY <1>1, <1>4, <1>6, <1>9 DEF WholeIsInside
<1>10. QED
  BY <1>1, <1>3, <1>7, <1>8, <1>9 DEF u

Turned(f, a, b, g) == g = [f EXCEPT !.pending = a, !.shown = b]

LEMMA FrameTurned ==
  ASSUME NEW S, NEW T, NEW f \in QueryFrames(S, T), NEW a \in Seq(S), NEW b \in Seq(T),
         NEW g, Turned(f, a, b, g)
  PROVE  g \in QueryFrames(S, T) /\ g.fn = f.fn /\ g.query = f.query /\ g.pending = a /\ g.shown = b
BY DEF QueryFrames, Turned

LEMMA TurnKeepsRange ==
  ASSUME NEW pages, NEW root, Resting(pages, root), NEW f, RangeOK(pages, root, f), f.pending # <<>>,
         NEW pushed, NEW shown, VisitOK(pages, f.query, Last(f.pending).page, pushed, shown)
  PROVE  RangeOK(pages, root, [f EXCEPT !.pending = Front(@) \o pushed, !.shown = @ \o shown])
<1> DEFINE X == DOMAIN pages
           q == f.query
           s == f.pending
           x == Last(s).page
           u == Front(s) \o pushed
           all == f.shown \o shown
           R == Promising(pages, q)
           kids == Below(pages)
           new == PagesOf(pushed)
           P == PagesOf(s)
<1>1. /\ f \in QueryFrames(Visits(pages), Entry) /\ f.fn = q.kind
      /\ s \in Seq(Visits(pages)) /\ f.shown \in Seq(Entry) /\ q \in Queries
      /\ OncePerPage(s) /\ WholeIsInside(pages, q, s) /\ s # <<>>
  BY DEF RangeOK, QueryFrames
<1>2. /\ pushed \in Seq(Visits(pages)) /\ shown \in Seq(Entry)
      /\ OncePerPage(pushed) /\ WholeIsInside(pages, q, pushed)
      /\ new \subseteq Children(pages[x]) /\ Children(pages[x]) \cap R \subseteq new
      /\ \A e \in Entry : Count(shown, {e}) = Shows(q, e, InLeaf(pages[x], {e}))
  BY DEF VisitOK
<1>3. PICK V \in SUBSET X :
        /\ Searched(X, root, kids, V, P, R)
        /\ \A e \in Entry : Count(f.shown, {e}) = Shows(q, e, LeafCount(Part(pages, V), {e}))
  BY DEF RangeOK
<1>4. Forest(X, root, kids, Levels(pages)) /\ Small(pages)
  BY TreeIsForest, TreeIsSmall DEF Resting, Sound
<1> HIDE DEF X, s, q, u, all, R, new, P
<1>5. /\ u \in Seq(Visits(pages)) /\ x \in P /\ x \in X
      /\ PagesOf(u) = (P \ {x}) \cup new
      /\ OncePerPage(pushed) /\ (P \ {x}) \cap new = {} => OncePerPage(u)
      /\ WholeIsInside(pages, q, s) /\ WholeIsInside(pages, q, pushed) => WholeIsInside(pages, q, u)
  BY <1>1, <1>2, PagesReplaced DEF P, u, X, new
<1>6. kids[x] = Children(pages[x])
  BY <1>5 DEF X, Below
<1> HIDE DEF x, kids
<1>7. new \cap P = {} /\ x \notin V /\ Searched(X, root, kids, V \cup {x}, (P \ {x}) \cup new, R)
  <2> DEFINE levels == Levels(pages)
             U == V \cup {x}
             Q == (P \ {x}) \cup new
  <2>1. Forest(X, root, kids, levels) /\ Advances(kids, V, P, R, x, new, U, Q)
    BY <1>2, <1>4, <1>5, <1>6 DEF Advances
  <2> HIDE DEF levels, U, Q
  <2>2. new \cap P = {} /\ x \in X /\ x \notin V /\ Searched(X, root, kids, U, Q, R)
    BY <1>3, <2>1, SearchGoesOn
  <2>3. QED
    BY <2>2 DEF U, Q
<1>8. all \in Seq(Entry)
  BY <1>1, <1>2, CountConcatenated DEF all
<1>9. ASSUME NEW e \in Entry
      PROVE  Count(all, {e}) = Shows(q, e, LeafCount(Part(pages, V \cup {x}), {e}))
  <2>1. Count(all, {e}) = Count(f.shown, {e}) + Count(shown, {e})
    BY <1>1, <1>2, CountConcatenated DEF all
  <2>2. x \in DOMAIN pages \ V /\ V \in SUBSET DOMAIN pages
    BY <1>5, <1>7 DEF X
  <2>3. /\ LeafCount(Part(pages, V), {e}) \in Nat /\ InLeaf(pages[x], {e}) \in Nat
        /\ LeafCount(Part(pages, V \cup {x}), {e}) = LeafCount(Part(pages, V), {e}) + InLeaf(pages[x], {e})
    BY <1>4, <2>2, PartGrows
  <2>4. QED
    BY <1>2, <1>3, <2>1, <2>3 DEF Shows
<1> DEFINE g == [f EXCEPT !.pending = u, !.shown = all]
<1>10. /\ g \in QueryFrames(Visits(pages), Entry) /\ g.fn = f.fn /\ g.query = f.query
       /\ g.pending = u /\ g.shown = all
  <2>1. Turned(f, u, all, g)
    BY DEF Turned
  <2> HIDE DEF g
  <2>2. QED
    BY <1>1, <1>5, <1>8, <2>1, FrameTurned
<1> HIDE DEF g
<1>11. V \cup {x} \in SUBSET X
  BY <1>5
<1>12. RangeOK(pages, root, g)
  <2>1. OncePerPage(u) /\ WholeIsInside(pages, q, u)
    BY <1>1, <1>2, <1>5, <1>7
  <2>2. Searched(X, root, kids, V \cup {x}, PagesOf(u), R)
    BY <1>5, <1>7
  <2>3. g.fn = g.query.kind /\ g.query = q
    BY <1>1, <1>10 DEF q
  <2>4. QED
    BY <1>9, <1>10, <1>11, <2>1, <2>2, <2>3 DEF RangeOK, X, kids, R
<1>13. g = [f EXCEPT !.pending = Front(@) \o pushed, !.shown = @ \o shown]
  BY DEF g, u, all, s
<1>14. QED
  BY <1>12, <1>13

\* A page all of which is asked for goes back as such.
LEMMA WholeKeepsRange ==
  ASSUME NEW pages, NEW root, Resting(pages, root), NEW f, RangeOK(pages, root, f), f.pending # <<>>,
         f.query.kind # "intersectsWithQuery",
         ContainsRegion(f.query.region, pages[Last(f.pending).page].mbr)
  PROVE  RangeOK(pages, root,
           [f EXCEPT !.pending = Front(@) \o <<ToVisit(Last(f.pending).page, TRUE)>>, !.shown = @ \o <<>>])
<1> DEFINE q == f.query
           s == f.pending
           x == Last(s).page
           one == <<ToVisit(x, TRUE)>>
           u == Front(s) \o one
           none == <<>>
           all == f.shown \o none
           P == PagesOf(s)
           g == [f EXCEPT !.pending = u, !.shown = all]
<1>1. /\ f \in QueryFrames(Visits(pages), Entry) /\ f.fn = q.kind
      /\ s \in Seq(Visits(pages)) /\ f.shown \in Seq(Entry) /\ q \in Queries
      /\ OncePerPage(s) /\ WholeIsInside(pages, q, s) /\ s # <<>>
  BY DEF RangeOK, QueryFrames
<1>2. x \in DOMAIN pages
  <2>1. Last(s) \in Visits(pages)
    BY <1>1, FrontOf
  <2>2. QED
    BY <2>1 DEF Visits
<1> HIDE DEF x
<1>3. /\ one \in Seq(Visits(pages)) /\ DOMAIN one = {1} /\ one[1].page = x /\ one[1].whole = TRUE
  <2>1. ToVisit(x, TRUE) \in Visits(pages) /\ ToVisit(x, TRUE).page = x /\ ToVisit(x, TRUE).whole = TRUE
    BY <1>2 DEF Visits, ToVisit
  <2> DEFINE visit == ToVisit(x, TRUE)
  <2>4. visit \in Visits(pages)
    BY <2>1
  <2> HIDE DEF visit
  <2>2. <<visit>> \in Seq(Visits(pages)) /\ DOMAIN <<visit>> = {1} /\ <<visit>>[1] = visit
    BY <2>4
  <2>3. QED
    BY <2>1, <2>2 DEF visit
<1>4. all = f.shown
  BY <1>1
<1> HIDE DEF x, s, one, u, all
<1>5. OncePerPage(one) /\ PagesOf(one) = {x} /\ WholeIsInside(pages, q, one)
  BY <1>3 DEF OncePerPage, PagesOf, WholeIsInside, x, s
<1>6. /\ u \in Seq(Visits(pages)) /\ x \in P /\ PagesOf(u) = (P \ {x}) \cup {x}
      /\ OncePerPage(u) /\ WholeIsInside(pages, q, u)
  <2>1. /\ u \in Seq(Visits(pages)) /\ x \in PagesOf(s)
        /\ PagesOf(u) = (PagesOf(s) \ {x}) \cup PagesOf(one)
        /\ OncePerPage(one) /\ (PagesOf(s) \ {x}) \cap PagesOf(one) = {} => OncePerPage(u)
        /\ WholeIsInside(pages, q, s) /\ WholeIsInside(pages, q, one) => WholeIsInside(pages, q, u)
    BY <1>1, <1>3, PagesReplaced DEF x, u
  <2>2. QED
    BY <1>1, <1>5, <2>1
<1>7. PagesOf(u) = P
  BY <1>6
<1>8. /\ g \in QueryFrames(Visits(pages), Entry) /\ g.fn = f.fn /\ g.query = f.query
      /\ g.pending = u /\ g.shown = f.shown
  <2>1. Turned(f, u, all, g)
    BY DEF Turned
  <2> HIDE DEF g
  <2>2. QED
    BY <1>1, <1>4, <1>6, <2>1, FrameTurned
<1> HIDE DEF g
<1>9. RangeOK(pages, root, g)
  BY <1>1, <1>6, <1>7, <1>8 DEF RangeOK, s
<1>10. g = [f EXCEPT !.pending = Front(@) \o <<ToVisit(Last(f.pending).page, TRUE)>>, !.shown = @ \o <<>>]
  BY DEF g, u, all, s, x, one
<1>11. QED
  BY <1>9, <1>10

\* Children of x, the entries at the given positions.
Chosen(pages, x, some, positions) ==
  /\ x \in DOMAIN pages /\ pages[x].level # 0
  /\ some \in Seq(Entry) /\ positions \subseteq DOMAIN pages[x].kids
  /\ \E pos : TakenFrom(pages[x].kids, some, positions, pos)

LEMMA PushOf ==
  ASSUME NEW pages, NEW root, Resting(pages, root),
         NEW x, NEW some, NEW positions, Chosen(pages, x, some, positions), NEW whole \in BOOLEAN,
         NEW pushed, pushed = Push(some, whole)
  PROVE  /\ pushed \in Seq(Visits(pages)) /\ OncePerPage(pushed)
         /\ PagesOf(pushed) = {pages[x].kids[i].id : i \in positions}
         /\ PagesOf(pushed) \subseteq Children(pages[x])
         /\ \A k \in DOMAIN pushed : /\ pushed[k].whole = whole
                                     /\ \E i \in positions : pushed[k].page = pages[x].kids[i].id
<1> DEFINE kids == pages[x].kids
<1>0. /\ x \in DOMAIN pages /\ pages[x].level # 0 /\ some \in Seq(Entry) /\ positions \subseteq DOMAIN kids
  BY DEF Chosen
<1>13. PICK pos : TakenFrom(kids, some, positions, pos)
  BY DEF Chosen
<1>1. \A i \in DOMAIN kids : kids[i].id \in DOMAIN pages /\ kids[i].id \in Children(pages[x])
  BY <1>0, BoxesAround DEF Resting
<1>2. DistinctIds(kids)
  BY <1>0, NodesTyped DEF Resting, Sound, FitsIn
<1>3. /\ \A k \in DOMAIN some : pos[k] \in positions /\ some[k] = kids[pos[k]]
      /\ \A j, k \in DOMAIN some : pos[j] = pos[k] => j = k
      /\ \A i \in positions : \E k \in DOMAIN some : pos[k] = i
  BY <1>13 DEF TakenFrom
<1> DEFINE n == Len(some)
<1>4. n \in Nat /\ DOMAIN some = 1 .. n
  BY <1>0
<1>5. ASSUME NEW k \in 1 .. n
      PROVE  /\ ToVisit(some[k].id, whole) \in Visits(pages)
             /\ ToVisit(some[k].id, whole).page = kids[pos[k]].id
             /\ ToVisit(some[k].id, whole).whole = whole
  <2>1. some[k].id = kids[pos[k]].id /\ some[k].id \in DOMAIN pages
    BY <1>0, <1>1, <1>3, <1>4
  <2>2. QED
    BY <2>1 DEF ToVisit, Visits
<1>6. pushed = [k \in 1 .. n |-> ToVisit(some[k].id, whole)]
  BY <1>4 DEF Push
<1>7. pushed \in Seq(Visits(pages)) /\ DOMAIN pushed = 1 .. n
  BY <1>4, <1>5, <1>6
<1>8. \A k \in 1 .. n : pushed[k].page = kids[pos[k]].id /\ pushed[k].whole = whole
  BY <1>5, <1>6
<1> HIDE DEF n
<1>9. OncePerPage(pushed)
  BY <1>0, <1>2, <1>3, <1>4, <1>7, <1>8 DEF OncePerPage, DistinctIds
<1>10. PagesOf(pushed) = {kids[i].id : i \in positions}
  <2>1. \A k \in DOMAIN pushed : \E i \in positions : pushed[k].page = kids[i].id
    BY <1>3, <1>4, <1>7, <1>8
  <2>2. \A i \in positions : \E k \in DOMAIN pushed : pushed[k].page = kids[i].id
    BY <1>3, <1>4, <1>7, <1>8
  <2>3. QED
    BY <2>1, <2>2 DEF PagesOf
<1>11. {kids[i].id : i \in positions} \subseteq Children(pages[x])
  BY <1>0, <1>1
<1>12. QED
  BY <1>3, <1>4, <1>7, <1>8, <1>9, <1>10, <1>11

\* All of them.
LEMMA TakenAll ==
  ASSUME NEW kids
  PROVE  TakenFrom(kids, kids, DOMAIN kids, [k \in DOMAIN kids |-> k])
BY DEF TakenFrom

\* A visit to an index node.
LEMMA VisitsIndex ==
  ASSUME NEW pages, NEW root, Resting(pages, root), NEW q \in Queries,
         NEW x, NEW some, NEW positions, Chosen(pages, x, some, positions), NEW whole \in BOOLEAN,
         \A i \in DOMAIN pages[x].kids :
           IntersectsRegion(q.region, pages[x].kids[i].mbr) /\ IntersectsRegion(q.region, pages[x].mbr)
             => i \in positions,
         whole => q.kind # "intersectsWithQuery" /\ ContainsRegion(q.region, pages[x].mbr)
  PROVE  VisitOK(pages, q, x, Push(some, whole), <<>>)
<1> DEFINE kids == pages[x].kids
           pushed == Push(some, whole)
           none == <<>>
<1>0. x \in DOMAIN pages /\ pages[x].level # 0 /\ positions \subseteq DOMAIN kids
  BY DEF Chosen
<1>1. /\ pushed \in Seq(Visits(pages)) /\ OncePerPage(pushed)
      /\ PagesOf(pushed) = {kids[i].id : i \in positions}
      /\ PagesOf(pushed) \subseteq Children(pages[x])
      /\ \A k \in DOMAIN pushed : /\ pushed[k].whole = whole
                                  /\ \E i \in positions : pushed[k].page = kids[i].id
  <2>1. pushed = Push(some, whole)
    OBVIOUS
  <2> HIDE DEF pushed
  <2>2. QED
    BY <2>1, PushOf
<1> HIDE DEF pushed
<1>2. none \in Seq(Entry) /\ \A e : Count(none, {e}) = 0
  BY CountNone
<1>3. \A e : InLeaf(pages[x], {e}) = 0
  BY <1>0 DEF InLeaf
<1>4. \A e \in Entry : Count(none, {e}) = Shows(q, e, InLeaf(pages[x], {e}))
  BY <1>2, <1>3 DEF Shows
<1>5. ASSUME NEW c \in Children(pages[x]), c \in Promising(pages, q)
      PROVE  c \in PagesOf(pushed)
  <2>1. PICK i \in DOMAIN kids : c = kids[i].id
    BY <1>0 DEF Children, KidIds
  <2>2. x \in Promising(pages, q) /\ IntersectsRegion(q.region, kids[i].mbr)
    BY <1>0, <1>5, <2>1, PromisesKept
  <2>3. i \in positions
    BY <2>2 DEF Promising
  <2>4. QED
    BY <1>1, <2>1, <2>3
<1>6. WholeIsInside(pages, q, pushed)
  <2> SUFFICES ASSUME NEW k \in DOMAIN pushed, pushed[k].whole
               PROVE  q.kind # "intersectsWithQuery" /\ ContainsRegion(q.region, pages[pushed[k].page].mbr)
    BY DEF WholeIsInside
  <2>1. PICK i \in positions : pushed[k].page = kids[i].id /\ whole
    BY <1>1
  <2>2. /\ pages[x].mbr \in Regions /\ kids[i].mbr \in Regions /\ pages[kids[i].id].mbr \in Regions
        /\ ContainsRegion(pages[x].mbr, kids[i].mbr) /\ ContainsRegion(kids[i].mbr, pages[kids[i].id].mbr)
    BY <1>0, BoxesAround DEF Resting
  <2>3. q.region \in Regions /\ ContainsRegion(q.region, pages[x].mbr)
    BY <2>1, QueryOf
  <2>4. ContainsRegion(q.region, pages[kids[i].id].mbr)
    BY <2>2, <2>3, ContainsTransitive
  <2>5. QED
    BY <2>1, <2>4
<1>7. QED
  BY <1>1, <1>2, <1>4, <1>5, <1>6 DEF VisitOK, pushed

\* A visit to a leaf.
LEMMA VisitsLeaf ==
  ASSUME NEW pages, NEW root, Resting(pages, root), NEW q \in Queries,
         NEW x \in DOMAIN pages, pages[x].level = 0, NEW shown \in Seq(Entry),
         \A e \in Entry : Count(shown, {e}) = Shows(q, e, Count(pages[x].kids, {e}))
  PROVE  VisitOK(pages, q, x, <<>>, shown)
<1> DEFINE none == <<>>
<1>1. /\ none \in Seq(Visits(pages)) /\ DOMAIN none = {}
  OBVIOUS
<1>2. OncePerPage(none) /\ WholeIsInside(pages, q, none) /\ PagesOf(none) = {}
  BY <1>1 DEF OncePerPage, WholeIsInside, PagesOf
<1>3. Children(pages[x]) = {}
  BY DEF Children
<1>4. QED
  BY <1>1, <1>2, <1>3 DEF VisitOK, InLeaf

LEMMA MatchingShows ==
  ASSUME NEW kids \in Seq(Entry), NEW q, NEW D,
         \A e \in ToSet(kids) : e \in D <=> Qualifies(q, e)
  PROVE  /\ Matching(kids, D) \in Seq(Entry)
         /\ \A e \in Entry : Count(Matching(kids, D), {e}) = Shows(q, e, Count(kids, {e}))
<1>1. Matching(kids, D) \in Seq(Entry) /\ \A E : Count(Matching(kids, D), E) = Count(kids, D \cap E)
  BY MatchingOf
<1>2. \A i \in DOMAIN kids : kids[i] \in ToSet(kids)
  BY DEF ToSet
<1>3. ASSUME NEW e \in Entry
      PROVE  Count(kids, D \cap {e}) = Shows(q, e, Count(kids, {e}))
  <2>1. CASE Qualifies(q, e)
    <3>1. Places(kids, D \cap {e}) = Places(kids, {e})
      BY <1>2, <2>1 DEF Places
    <3>2. QED
      BY <2>1, <3>1 DEF Count, Shows
  <2>2. CASE ~Qualifies(q, e)
    <3>1. Places(kids, D \cap {e}) = {}
      BY <1>2, <2>2 DEF Places
    <3>2. QED
      BY <2>2, <3>1, FS_EmptySet DEF Count, Shows
  <2>3. QED
    BY <2>1, <2>2
<1>4. QED
  BY <1>1, <1>3

------------------------------------------------------------------------------
(***************************************************************************)
(* What the loops of range queries do with the page on top of the stack.   *)
(***************************************************************************)
LEMMA TopVisit ==
  ASSUME NEW pages, NEW root, Resting(pages, root), NEW f, RangeOK(pages, root, f), f.pending # <<>>
  PROVE  LET top == Last(f.pending)
             n == pages[top.page]
         IN  /\ top.page \in DOMAIN pages /\ top.whole \in BOOLEAN
             /\ f.query \in Queries /\ f.fn = f.query.kind
             /\ n.kids \in Seq(Entry)
             /\ top.whole => /\ f.query.kind # "intersectsWithQuery"
                             /\ ContainsRegion(f.query.region, n.mbr)
<1> DEFINE s == f.pending
<1>1. /\ s \in Seq(Visits(pages)) /\ f.query \in Queries /\ f.fn = f.query.kind
      /\ WholeIsInside(pages, f.query, s)
  BY DEF RangeOK, QueryFrames
<1>2. s # <<>>
  OBVIOUS
<1> HIDE DEF s
<1>3. Last(s) = s[Len(s)] /\ Len(s) \in DOMAIN s
  <2>1. Last(s) = s[Len(s)] /\ Len(s) >= 1
    BY <1>1, <1>2, FrontOf
  <2>2. QED
    BY <1>1, <2>1
<1>4. Last(s) \in Visits(pages)
  BY <1>1, <1>3
<1>5. Last(s).page \in DOMAIN pages /\ Last(s).whole \in BOOLEAN
  BY <1>4 DEF Visits
<1>6. pages[Last(s).page].kids \in Seq(Entry)
  BY <1>5, NodesTyped DEF Resting, Sound
<1>7. Last(s).whole => /\ f.query.kind # "intersectsWithQuery"
                       /\ ContainsRegion(f.query.region, pages[Last(s).page].mbr)
  BY <1>1, <1>3 DEF WholeIsInside
<1>8. QED
  BY <1>1, <1>5, <1>6, <1>7 DEF s

LEMMA LeafKids ==
  ASSUME NEW pages, NEW root, Resting(pages, root), NEW q \in Queries,
         NEW x \in DOMAIN pages, pages[x].level = 0,
         NEW D, \A e \in ToSet(pages[x].kids) : e \in D <=> Qualifies(q, e)
  PROVE  VisitOK(pages, q, x, <<>>, Matching(pages[x].kids, D))
<1> DEFINE kids == pages[x].kids
           shown == Matching(kids, D)
<1>1. kids \in Seq(Entry)
  BY NodesTyped DEF Resting, Sound
<1>2. shown \in Seq(Entry) /\ \A e \in Entry : Count(shown, {e}) = Shows(q, e, Count(kids, {e}))
  <2> HIDE DEF kids
  <2>1. \A e \in ToSet(kids) : e \in D <=> Qualifies(q, e)
    BY DEF kids
  <2>2. QED
    BY <1>1, <2>1, MatchingShows
<1> HIDE DEF shown
<1>3. QED
  BY <1>2, VisitsLeaf DEF shown

LEMMA InRange ==
  ASSUME NEW pages, NEW root, Resting(pages, root), NEW q \in Queries, q.kind = "intersectsWithQuery",
         NEW x \in DOMAIN pages
  PROVE  LET n == pages[x]
             matching == Matching(n.kids, RangeMatch(q, n.kids))
         IN  VisitOK(pages, q, x, IF n.level = 0 THEN <<>> ELSE Push(matching, FALSE),
                                  IF n.level = 0 THEN matching ELSE <<>>)
<1> DEFINE kids == pages[x].kids
           D == RangeMatch(q, kids)
           matching == Matching(kids, D)
<1>1. \A e \in ToSet(kids) : e \in D <=> Qualifies(q, e)
  BY DEF RangeMatch, Qualifies
<1>2. kids \in Seq(Entry)
  BY NodesTyped DEF Resting, Sound
<1>3. CASE pages[x].level = 0
  <2> HIDE DEF D
  <2>1. VisitOK(pages, q, x, <<>>, matching)
    BY <1>1, <1>3, LeafKids
  <2>2. QED
    BY <1>3, <2>1 DEF D
<1>4. CASE pages[x].level # 0
  <2> DEFINE positions == Places(kids, D)
             whole == FALSE
  <2>1. matching \in Seq(Entry) /\ \E pos : TakenFrom(kids, matching, positions, pos)
    <3> HIDE DEF kids, D
    <3>1. QED
      BY <1>2, MatchingOf
  <2>2. positions \subseteq DOMAIN kids
    BY DEF Places
  <2>3. \A i \in DOMAIN kids : IntersectsRegion(q.region, kids[i].mbr) => i \in positions
    BY DEF Places, RangeMatch, ToSet
  <2>4. whole \in BOOLEAN /\ ~whole
    OBVIOUS
  <2> HIDE DEF matching, positions, whole
  <2>5. Chosen(pages, x, matching, positions)
    BY <1>4, <2>1, <2>2 DEF Chosen
  <2>6. VisitOK(pages, q, x, Push(matching, whole), <<>>)
    BY <2>3, <2>4, <2>5, VisitsIndex
  <2>7. QED
    BY <1>4, <2>6 DEF matching, whole, D
<1>5. QED
  BY <1>3, <1>4

LEMMA InSubTree ==
  ASSUME NEW pages, NEW root, Resting(pages, root), NEW q \in Queries, q.kind # "intersectsWithQuery",
         NEW x \in DOMAIN pages, ContainsRegion(q.region, pages[x].mbr)
  PROVE  LET n == pages[x] IN
         VisitOK(pages, q, x, IF n.level = 0 THEN <<>> ELSE Push(n.kids, TRUE),
                              IF n.level = 0 THEN n.kids ELSE <<>>)
<1> DEFINE kids == pages[x].kids
<1>1. kids \in Seq(Entry)
  BY NodesTyped DEF Resting, Sound
<1>2. CASE pages[x].level = 0
  <2>1. ASSUME NEW e \in Entry
        PROVE  Count(kids, {e}) = Shows(q, e, Count(kids, {e}))
    <3>1. CASE Qualifies(q, e)
      BY <3>1 DEF Shows
    <3>2. CASE ~Qualifies(q, e)
      <4>1. ASSUME NEW i \in DOMAIN kids, kids[i] = e
            PROVE  FALSE
        <5>1. /\ e.mbr \in Regions /\ pages[x].mbr \in Regions
              /\ ContainsRegion(pages[x].mbr, e.mbr)
          BY <4>1, BoxesAround DEF Resting
        <5>2. ContainsRegion(q.region, e.mbr)
          BY <5>1, QueryOf, ContainsTransitive
        <5>3. QED
          BY <3>2, <5>2 DEF Qualifies
      <4>2. Places(kids, {e}) = {}
        BY <4>1 DEF Places
      <4>3. QED
        BY <3>2, <4>2, FS_EmptySet DEF Count, Shows
    <3>3. QED
      BY <3>1, <3>2
  <2>2. VisitOK(pages, q, x, <<>>, kids)
    BY <1>1, <1>2, <2>1, VisitsLeaf
  <2>3. QED
    BY <1>2, <2>2
<1>3. CASE pages[x].level # 0
  <2> DEFINE positions == DOMAIN kids
             whole == TRUE
             some == kids
  <2>1. \E pos : TakenFrom(kids, some, positions, pos)
    BY TakenAll
  <2>2. Chosen(pages, x, some, positions)
    BY <1>1, <1>3, <2>1 DEF Chosen
  <2>3. \A i \in DOMAIN kids : i \in positions
    OBVIOUS
  <2>4. whole \in BOOLEAN
    OBVIOUS
  <2> HIDE DEF positions, whole, some
  <2>5. VisitOK(pages, q, x, Push(some, whole), <<>>)
    BY <2>2, <2>3, <2>4, VisitsIndex
  <2>6. QED
    BY <1>3, <2>5 DEF some, whole
<1>4. QED
  BY <1>2, <1>3

LEMMA InLeaves ==
  ASSUME NEW pages, NEW root, Resting(pages, root), NEW q \in Queries, q.kind # "intersectsWithQuery",
         NEW x \in DOMAIN pages, pages[x].level = 0
  PROVE  VisitOK(pages, q, x, <<>>, Matching(pages[x].kids, Inside(q, pages[x].kids)))
<1> DEFINE D == Inside(q, pages[x].kids)
<1>1. \A e \in ToSet(pages[x].kids) : e \in D <=> Qualifies(q, e)
  BY DEF Inside, Qualifies
<1> HIDE DEF D
<1>2. QED
  BY <1>1, LeafKids DEF D

LEMMA InIndex ==
  ASSUME NEW pages, NEW root, Resting(pages, root), NEW q \in Queries, q.kind # "intersectsWithQuery",
         NEW x \in DOMAIN pages, pages[x].level # 0
  PROVE  VisitOK(pages, q, x, IF IntersectsRegion(q.region, pages[x].mbr)
                                THEN Push(pages[x].kids, FALSE) ELSE <<>>, <<>>)
<1> DEFINE kids == pages[x].kids
           whole == FALSE
           none == <<>>
<1>1. kids \in Seq(Entry) /\ whole \in BOOLEAN /\ ~whole /\ none \in Seq(Entry) /\ Push(none, whole) = <<>>
  BY NodesTyped DEF Resting, Sound, Push
<1>2. CASE IntersectsRegion(q.region, pages[x].mbr)
  <2> DEFINE positions == DOMAIN kids
             some == kids
  <2>1. \E pos : TakenFrom(kids, some, positions, pos)
    BY TakenAll
  <2>2. Chosen(pages, x, some, positions)
    BY <1>1, <2>1 DEF Chosen
  <2>3. \A i \in DOMAIN kids : i \in positions
    OBVIOUS
  <2> HIDE DEF positions, whole, some
  <2>4. VisitOK(pages, q, x, Push(some, whole), <<>>)
    BY <1>1, <2>2, <2>3, VisitsIndex
  <2>5. QED
    BY <1>2, <2>4 DEF some, whole
<1>3. CASE ~IntersectsRegion(q.region, pages[x].mbr)
  <2> DEFINE positions == {}
  <2>1. TakenFrom(kids, none, positions, none)
    BY DEF TakenFrom
  <2>2. Chosen(pages, x, none, positions)
    BY <1>1, <2>1 DEF Chosen
  <2> HIDE DEF positions, whole, none
  <2>3. VisitOK(pages, q, x, Push(none, whole), <<>>)
    BY <1>1, <1>3, <2>2, VisitsIndex
  <2>4. QED
    BY <1>1, <1>3, <2>3
<1>4. QED
  BY <1>2, <1>3

------------------------------------------------------------------------------
(***************************************************************************)
(* Distances: no object is nearer than a box around it.                    *)
(***************************************************************************)
\* What Sum computes is there.
LEMMA SumIsThere ==
  ASSUME NEW f, IsFiniteSet(DOMAIN f), \A d \in DOMAIN f : f[d] \in Int
  PROVE  \E g : Summing(g, f) /\ g \in [SUBSET DOMAIN f -> Int]
<1> DEFINE D == DOMAIN f
           n == Cardinality(D)
           U == [SUBSET D -> Int]
           After(u, s) == IF s = {} THEN 0 ELSE f[SomeOf(s)] + u[s \ {SomeOf(s)}]
           start == [s \in SUBSET D |-> 0]
           next == [u \in U |-> [s \in SUBSET D |-> After(u, s)]]
<1>1. n \in Nat /\ n + 1 \in Nat
  BY FS_CardinalityType
<1>2. \A s \in SUBSET D : IsFiniteSet(s) /\ Cardinality(s) \in Nat /\ Cardinality(s) <= n
  BY FS_Subset, FS_CardinalityType
<1>3. ASSUME NEW s \in SUBSET D, s # {}
      PROVE  /\ SomeOf(s) \in D /\ s \ {SomeOf(s)} \in SUBSET D
             /\ Cardinality(s \ {SomeOf(s)}) = Cardinality(s) - 1 /\ Cardinality(s) # 0
  <2>1. SomeOf(s) \in s
    BY <1>3 DEF SomeOf
  <2>2. QED
    BY <1>2, <2>1, FS_RemoveElement, FS_EmptySet
<1>4. start \in U
  OBVIOUS
<1>5. next \in [U -> U]
  <2>1. ASSUME NEW u \in U, NEW s \in SUBSET D
        PROVE  After(u, s) \in Int
    <3>1. CASE s = {}
      BY <3>1
    <3>2. CASE s # {}
      <4> DEFINE x == SomeOf(s)
                 t == s \ {x}
      <4>1. x \in D /\ t \in SUBSET D
        BY <1>3, <3>2
      <4>2. After(u, s) = f[x] + u[t]
        BY <3>2
      <4> HIDE DEF x, t, After
      <4>3. f[x] \in Int /\ u[t] \in Int
        BY <4>1
      <4>4. QED
        BY <4>2, <4>3
    <3>3. QED
      BY <3>1, <3>2
  <2> HIDE DEF After
  <2>2. QED
    BY <2>1
<1>6. \A u \in U, s \in SUBSET D : next[u][s] = After(u, s)
  BY <1>5
<1> DEFINE m == n + 1
<1> HIDE DEF U, start, next, After, m
<1>7. PICK it : Iterates(it, m, U, start, next)
  BY <1>1, <1>4, <1>5, Recursion DEF m
<1>8. ASSUME NEW k \in 0 .. n
      PROVE  /\ it[k] \in U /\ it[k + 1] \in U
             /\ \A s \in SUBSET D : it[k + 1][s] = After(it[k], s)
  <2>1. k + 1 \in 1 .. m /\ (k + 1) - 1 = k /\ k \in 0 .. m /\ k + 1 \in 0 .. m
    BY <1>1 DEF m
  <2>2. it[k] \in U /\ it[k + 1] \in U /\ it[k + 1] = next[it[k]]
    BY <1>7, <2>1 DEF Iterates
  <2>3. QED
    BY <1>6, <2>2
<1> DEFINE S == {k \in 0 .. n : \A s \in SUBSET D : Cardinality(s) <= k => it[k + 1][s] = it[k][s]}
<1>9. 0 \in S
  <2>1. 0 \in 0 .. n
    BY <1>1
  <2>2. ASSUME NEW s \in SUBSET D, Cardinality(s) <= 0
        PROVE  it[0 + 1][s] = it[0][s]
    <3>1. s = {}
      BY <1>2, <2>2, FS_EmptySet
    <3>2. it[0 + 1][s] = 0
      BY <1>8, <2>1, <3>1 DEF After
    <3>3. it[0][s] = 0
      BY <1>7, <3>1 DEF Iterates, start
    <3>4. QED
      BY <3>2, <3>3
  <2>3. QED
    BY <2>1, <2>2
<1>10. ASSUME NEW k \in 0 .. n - 1, k \in S
       PROVE  k + 1 \in S
  <2>1. k \in 0 .. n /\ k + 1 \in 0 .. n /\ k + 1 \in Nat
    BY <1>1
  <2>2. ASSUME NEW s \in SUBSET D, Cardinality(s) <= k + 1
        PROVE  it[(k + 1) + 1][s] = it[k + 1][s]
    <3>1. it[(k + 1) + 1][s] = After(it[k + 1], s) /\ it[k + 1][s] = After(it[k], s)
      BY <1>8, <2>1
    <3>2. CASE s = {}
      BY <3>1, <3>2 DEF After
    <3>3. CASE s # {}
      <4>1. s \ {SomeOf(s)} \in SUBSET D /\ Cardinality(s \ {SomeOf(s)}) <= k
        BY <1>2, <1>3, <2>1, <2>2, <3>3
      <4>2. it[k + 1][s \ {SomeOf(s)}] = it[k][s \ {SomeOf(s)}]
        BY <1>10, <4>1
      <4>3. QED
        BY <3>1, <3>3, <4>2 DEF After
    <3>4. QED
      BY <3>2, <3>3
  <2>3. QED
    BY <2>1, <2>2
<1>11. n \in S
  <2>1. \A k \in 0 .. n : k \in S
    <3> HIDE DEF S
    <3>1. QED
      BY <1>1, <1>9, <1>10, UpTo
  <2>2. QED
    BY <1>1, <2>1
<1> DEFINE g == it[n]
<1>12. g \in U /\ \A s \in SUBSET D : g[s] = After(g, s)
  <2>1. n \in 0 .. n
    BY <1>1
  <2>2. QED
    BY <1>2, <1>8, <1>11, <2>1
<1> HIDE DEF g
<1>13. g = [s \in SUBSET D |-> After(g, s)]
  <2>1. g = [s \in SUBSET D |-> g[s]]
    BY <1>12 DEF U
  <2>2. QED
    BY <1>12, <2>1
<1>14. Summing(g, f)
  BY <1>13 DEF Summing, After
<1>15. QED
  BY <1>12, <1>14 DEF U

LEMMA SumGrows ==
  ASSUME NEW D, IsFiniteSet(D), NEW f, NEW h, DOMAIN f = D, DOMAIN h = D,
         \A d \in D : f[d] \in Int /\ h[d] \in Int /\ 0 <= f[d] /\ f[d] <= h[d]
  PROVE  Sum(f) \in Int /\ Sum(h) \in Int /\ 0 <= Sum(f) /\ Sum(f) <= Sum(h)
<1> DEFINE n == Cardinality(D)
           g == CHOOSE x : Summing(x, f)
           k == CHOOSE x : Summing(x, h)
<1>1. Summing(g, f) /\ Summing(k, h)
  <2>1. (\E x : Summing(x, f)) /\ (\E x : Summing(x, h))
    BY SumIsThere
  <2>2. QED
    BY <2>1
<1>2. Sum(f) = g[D] /\ Sum(h) = k[D]
  BY SumUnfolds
<1> HIDE DEF g, k
<1>3. ASSUME NEW s \in SUBSET D
      PROVE  /\ g[s] = IF s = {} THEN 0 ELSE f[SomeOf(s)] + g[s \ {SomeOf(s)}]
             /\ k[s] = IF s = {} THEN 0 ELSE h[SomeOf(s)] + k[s \ {SomeOf(s)}]
  BY <1>1 DEF Summing
<1>4. n \in Nat
  BY FS_CardinalityType
<1>5. \A s \in SUBSET D : IsFiniteSet(s) /\ Cardinality(s) \in Nat
  BY FS_Subset, FS_CardinalityType
<1> DEFINE Grows(s) == g[s] \in Int /\ k[s] \in Int /\ 0 <= g[s] /\ g[s] <= k[s]
           S == {i \in 0 .. n : \A s \in SUBSET D : Cardinality(s) <= i => Grows(s)}
<1>6. 0 \in S
  <2>1. ASSUME NEW s \in SUBSET D, Cardinality(s) <= 0
        PROVE  Grows(s)
    <3>1. s = {}
      BY <1>5, <2>1, FS_EmptySet
    <3>2. g[s] = 0 /\ k[s] = 0
      BY <1>3, <3>1
    <3>3. QED
      BY <3>2
  <2>2. QED
    BY <1>4, <2>1
<1>7. ASSUME NEW i \in 0 .. n - 1, i \in S
      PROVE  i + 1 \in S
  <2>1. ASSUME NEW s \in SUBSET D, Cardinality(s) <= i + 1
        PROVE  Grows(s)
    <3>1. CASE s = {}
      <4>1. g[s] = 0 /\ k[s] = 0
        BY <1>3, <3>1
      <4>2. QED
        BY <4>1
    <3>2. CASE s # {}
      <4> DEFINE x == SomeOf(s)
                 t == s \ {x}
      <4>1. x \in s
        BY <3>2 DEF SomeOf
      <4>2. t \in SUBSET D /\ Cardinality(t) = Cardinality(s) - 1
        BY <1>5, <4>1, FS_RemoveElement
      <4>3. Cardinality(t) <= i
        BY <1>5, <2>1, <4>2
      <4>4. Grows(t)
        BY <1>7, <4>2, <4>3
      <4>5. g[s] = f[x] + g[t] /\ k[s] = h[x] + k[t]
        BY <1>3, <3>2
      <4>6. f[x] \in Int /\ h[x] \in Int /\ 0 <= f[x] /\ f[x] <= h[x]
        BY <4>1
      <4> HIDE DEF x, t
      <4>7. QED
        BY <4>4, <4>5, <4>6
    <3>3. QED
      BY <3>1, <3>2
  <2>2. i + 1 \in 0 .. n
    BY <1>4
  <2> HIDE DEF Grows
  <2>3. QED
    BY <2>1, <2>2
<1>8. Grows(D)
  <2>1. \A i \in 0 .. n : i \in S
    <3> HIDE DEF S
    <3>1. QED
      BY <1>4, <1>6, <1>7, UpTo
  <2>2. n \in S
    BY <1>4, <2>1
  <2>3. n <= n
    BY <1>4
  <2> HIDE DEF Grows
  <2>4. QED
    BY <2>2, <2>3
<1>9. QED
  BY <1>2, <1>8

\* What the gap between two regions along one axis is.
LEMMA GapOf ==
  ASSUME NEW a \in Int, NEW b \in Int
  PROVE  /\ Max({0, a, b}) \in Int /\ 0 <= Max({0, a, b}) /\ a <= Max({0, a, b}) /\ b <= Max({0, a, b})
         /\ Max({0, a, b}) \in {0, a, b}
<1> DEFINE S == {0, a, b}
<1>1. \E x \in S : \A y \in S : x >= y
  OBVIOUS
<1> HIDE DEF S
<1>2. Max(S) \in S /\ \A y \in S : Max(S) >= y
  BY <1>1 DEF Max
<1>3. QED
  BY <1>2 DEF S

LEMMA SquaresGrow ==
  ASSUME NEW a \in Int, NEW b \in Int, 0 <= a, a <= b
  PROVE  a * a \in Int /\ b * b \in Int /\ 0 <= a * a /\ a * a <= b * b
<1>1. a * a \in Int /\ b * b \in Int /\ a * b \in Int
  OBVIOUS
<1>2. 0 <= a * a
  OBVIOUS
<1>3. a * a <= a * b
  OBVIOUS
<1>4. a * b <= b * b
  OBVIOUS
<1>5. QED
  BY <1>1, <1>2, <1>3, <1>4

LEMMA DistanceGrows ==
  ASSUME NEW q \in Regions, NEW t \in Regions, NEW s \in Regions, ContainsRegion(t, s)
  PROVE  /\ MinimumDistance(q, t) \in Int /\ MinimumDistance(q, s) \in Int
         /\ 0 <= MinimumDistance(q, t) /\ MinimumDistance(q, t) <= MinimumDistance(q, s)
<1> DEFINE gap(r, d) == Max({0, q.low[d] - r.high[d], r.low[d] - q.high[d]})
           f == [d \in Dim |-> gap(t, d) * gap(t, d)]
           h == [d \in Dim |-> gap(s, d) * gap(s, d)]
<1>1. MinimumDistance(q, t) = Sum(f) /\ MinimumDistance(q, s) = Sum(h)
  BY DEF MinimumDistance
<1>2. ASSUME NEW d \in Dim
      PROVE  /\ gap(t, d) * gap(t, d) \in Int /\ gap(s, d) * gap(s, d) \in Int
             /\ 0 <= gap(t, d) * gap(t, d)
             /\ gap(t, d) * gap(t, d) <= gap(s, d) * gap(s, d)
  <2> DEFINE a1 == q.low[d] - t.high[d]
             b1 == t.low[d] - q.high[d]
             a2 == q.low[d] - s.high[d]
             b2 == s.low[d] - q.high[d]
  <2>1. /\ a1 \in Int /\ b1 \in Int /\ a2 \in Int /\ b2 \in Int /\ a1 <= a2 /\ b1 <= b2
    <3>1. /\ q.low[d] \in Int /\ q.high[d] \in Int /\ t.low[d] \in Int /\ t.high[d] \in Int
          /\ s.low[d] \in Int /\ s.high[d] \in Int
          /\ t.low[d] <= s.low[d] /\ s.high[d] <= t.high[d]
      BY DEF Regions, ContainsRegion
    <3>2. QED
      BY <3>1
  <2>2. gap(t, d) = Max({0, a1, b1}) /\ gap(s, d) = Max({0, a2, b2})
    OBVIOUS
  <2> HIDE DEF gap, a1, b1, a2, b2
  <2>3. /\ gap(t, d) \in Int /\ gap(s, d) \in Int /\ 0 <= gap(t, d) /\ 0 <= gap(s, d)
        /\ a2 <= gap(s, d) /\ b2 <= gap(s, d) /\ gap(t, d) \in {0, a1, b1}
    BY <2>1, <2>2, GapOf
  <2>4. gap(t, d) <= gap(s, d)
    BY <2>1, <2>3
  <2>5. QED
    BY <2>3, <2>4, SquaresGrow
<1> HIDE DEF gap
<1>3. IsFiniteSet(Dim)
  <2>1. Dimension \in Nat /\ 1 \in Int
    BY RegionAssumption
  <2>2. QED
    BY <2>1, FS_Interval DEF Dim
<1>4. /\ DOMAIN f = Dim /\ DOMAIN h = Dim
      /\ \A d \in Dim : f[d] \in Int /\ h[d] \in Int /\ 0 <= f[d] /\ f[d] <= h[d]
  BY <1>2
<1> DEFINE A == Dim
<1> HIDE DEF f, h, A
<1>5. Sum(f) \in Int /\ Sum(h) \in Int /\ 0 <= Sum(f) /\ Sum(f) <= Sum(h)
  BY <1>3, <1>4, SumGrows DEF A
<1>6. QED
  BY <1>1, <1>5

------------------------------------------------------------------------------
(***************************************************************************)
(* A queue from which one is taken and to which others are added.          *)
(***************************************************************************)
LEMMA OneRemoved ==
  ASSUME NEW T, NEW s \in Seq(T), NEW k \in DOMAIN s
  PROVE  /\ RemoveAt(s, k) \in Seq(T)
         /\ \A D : /\ Count(s, D) \in Nat /\ Count(RemoveAt(s, k), D) \in Nat
                   /\ Count(s, D) = Count(RemoveAt(s, k), D) + One(s[k], D)
         /\ \A j \in DOMAIN RemoveAt(s, k) : \E i \in DOMAIN s : RemoveAt(s, k)[j] = s[i]
<1> DEFINE n == Len(s)
           a == SubSeq(s, 1, k - 1)
           b == SubSeq(s, k + 1, n)
           e == s[k]
           more == Append(a, e)
           u == a \o b
<1>1. n \in Nat /\ DOMAIN s = 1 .. n /\ k \in 1 .. n /\ e \in T /\ k - 1 \in Nat /\ n - k \in Nat
  OBVIOUS
<1>2. /\ a \in Seq(T) /\ Len(a) = k - 1 /\ \A i \in 1 .. k - 1 : a[i] = s[i]
  BY <1>1
<1>3. /\ b \in Seq(T) /\ Len(b) = n - k /\ \A i \in 1 .. n - k : b[i] = s[k + i]
  <2>1. b \in Seq(T) /\ Len(b) = n - k
    BY <1>1
  <2>2. ASSUME NEW i \in 1 .. n - k
        PROVE  b[i] = s[k + i]
    <3>1. b[i] = s[(k + 1) + i - 1] /\ (k + 1) + i - 1 = k + i
      BY <1>1
    <3>2. QED
      BY <3>1
  <2>3. QED
    BY <2>1, <2>2
<1> HIDE DEF n, a, b, e
<1>4. /\ more \in Seq(T) /\ Len(more) = k /\ more[k] = e /\ \A i \in 1 .. k - 1 : more[i] = s[i]
  BY <1>1, <1>2
<1> HIDE DEF more
<1>5. InTwo(s, more, b)
  <2>1. \A i \in 1 .. k : more[i] = s[i]
    <3>1. \A i \in 1 .. k : i = k \/ i \in 1 .. k - 1
      BY <1>1
    <3>2. QED
      BY <1>4, <3>1 DEF e
  <2>2. Len(s) = k + Len(b)
    BY <1>1, <1>3 DEF n
  <2>3. QED
    BY <1>3, <1>4, <2>1, <2>2 DEF InTwo
<1>6. u \in Seq(T) /\ RemoveAt(s, k) = u
  BY <1>2, <1>3 DEF RemoveAt, a, b, n
<1>7. ASSUME NEW D
      PROVE  /\ Count(s, D) \in Nat /\ Count(u, D) \in Nat
             /\ Count(s, D) = Count(u, D) + One(s[k], D)
  <2>1. Count(s, D) = Count(more, D) + Count(b, D)
    BY <1>3, <1>4, <1>5, CountParted
  <2>2. Count(more, D) = Count(a, D) + One(e, D)
    BY <1>1, <1>2, CountAppended DEF more
  <2>3. Count(u, D) = Count(a, D) + Count(b, D) /\ Count(a, D) \in Nat /\ Count(b, D) \in Nat
    BY <1>2, <1>3, CountConcatenated
  <2>4. One(e, D) \in {0, 1}
    BY DEF One
  <2> HIDE DEF u
  <2>5. QED
    BY <2>1, <2>2, <2>3, <2>4 DEF e
<1>8. ASSUME NEW j \in DOMAIN u
      PROVE  \E i \in DOMAIN s : u[j] = s[i]
  <2>5. /\ Len(a \o b) = Len(a) + Len(b)
        /\ \A i \in 1 .. Len(a) : (a \o b)[i] = a[i]
        /\ \A i \in 1 .. Len(b) : (a \o b)[Len(a) + i] = b[i]
    <3>1. a \in Seq(T) /\ b \in Seq(T)
      BY <1>2, <1>3
    <3>2. QED
      BY <3>1, Concatenated
  <2>6. u = a \o b
    OBVIOUS
  <2> HIDE DEF u
  <2>1. /\ Len(u) = (k - 1) + (n - k) /\ DOMAIN u = 1 .. Len(u)
        /\ \A i \in 1 .. k - 1 : u[i] = a[i]
        /\ \A i \in 1 .. n - k : u[(k - 1) + i] = b[i]
    BY <1>2, <1>3, <1>6, <2>5, <2>6
  <2> HIDE DEF u
  <2>2. CASE j \in 1 .. k - 1
    <3>1. u[j] = s[j] /\ j \in 1 .. n
      BY <1>1, <1>2, <2>1, <2>2
    <3>2. QED
      BY <1>1, <3>1
  <2>3. CASE j \notin 1 .. k - 1
    <3> DEFINE m == k - 1
               r == n - k
               i == j - m
    <3>1. m \in Nat /\ r \in Nat /\ k = m + 1 /\ n = k + r /\ Len(u) = m + r
      BY <1>1, <2>1
    <3>2. j \in 1 .. Len(u) /\ j \notin 1 .. m
      BY <2>1, <2>3
    <3>3. \A h \in 1 .. r : u[m + h] = b[h] /\ b[h] = s[k + h]
      BY <1>3, <2>1
    <3> DEFINE l == Len(u)
    <3> HIDE DEF m, r, l
    <3>4. i \in 1 .. r /\ m + i = j
      <4>1. m \in Nat /\ r \in Nat /\ l = m + r /\ j \in 1 .. l /\ j \notin 1 .. m
        BY <3>1, <3>2 DEF l
      <4>2. QED
        BY <4>1
    <3> HIDE DEF i
    <3>5. u[m + i] = s[k + i]
      BY <3>3, <3>4
    <3>6. k + i \in 1 .. n
      BY <3>1, <3>4
    <3>7. QED
      BY <1>1, <3>4, <3>5, <3>6
  <2>4. QED
    BY <2>2, <2>3
<1>9. QED
  BY <1>6, <1>7, <1>8

LEMMA ElementsOf ==
  ASSUME NEW T, NEW s \in Seq(T), NEW t \in Seq(T)
  PROVE  \A j \in DOMAIN (s \o t) : \/ \E i \in DOMAIN s : (s \o t)[j] = s[i]
                                   \/ \E i \in DOMAIN t : (s \o t)[j] = t[i]
<1> DEFINE u == s \o t
<1>1. /\ Len(u) = Len(s) + Len(t) /\ DOMAIN u = 1 .. Len(u)
      /\ \A i \in 1 .. Len(s) : u[i] = s[i]
      /\ \A i \in 1 .. Len(t) : u[Len(s) + i] = t[i]
  BY Concatenated
<1>2. DOMAIN s = 1 .. Len(s) /\ DOMAIN t = 1 .. Len(t) /\ Len(s) \in Nat /\ Len(t) \in Nat
  OBVIOUS
<1> HIDE DEF u
<1>3. ASSUME NEW j \in DOMAIN u
      PROVE  (\E i \in DOMAIN s : u[j] = s[i]) \/ (\E i \in DOMAIN t : u[j] = t[i])
  <2>1. CASE j \in 1 .. Len(s)
    BY <1>1, <1>2, <2>1
  <2>2. CASE j \notin 1 .. Len(s)
    <3> DEFINE i == j - Len(s)
    <3>1. i \in 1 .. Len(t) /\ Len(s) + i = j
      BY <1>1, <1>2, <2>2
    <3> HIDE DEF i
    <3>2. QED
      BY <1>1, <1>2, <3>1
  <2>3. QED
    BY <2>1, <2>2
<1>4. QED
  BY <1>3 DEF u

LEMMA CountOfAll ==
  ASSUME NEW T, NEW s \in Seq(T), NEW D, \A i \in DOMAIN s : s[i] \in D
  PROVE  Count(s, D) = Len(s)
<1>1. Places(s, D) = 1 .. Len(s) /\ Len(s) \in Nat
  BY DEF Places
<1>2. Cardinality(1 .. Len(s)) = Len(s)
  <2> DEFINE a == 1
             b == Len(s)
  <2>1. a \in Int /\ b \in Int /\ (a <= b => b - a + 1 = b) /\ (a > b => b = 0)
    BY <1>1
  <2> HIDE DEF a, b
  <2>2. Cardinality(a .. b) = b
    BY <2>1, FS_Interval
  <2>3. QED
    BY <2>2 DEF a, b
<1>3. QED
  BY <1>1, <1>2 DEF Count

LEMMA CountOfNone ==
  ASSUME NEW T, NEW s \in Seq(T), NEW D
  PROVE  Count(s, D) = 0 <=> \A i \in DOMAIN s : s[i] \notin D
<1>1. IsFiniteSet(Places(s, D))
  BY CountType
<1>2. Count(s, D) = 0 <=> Places(s, D) = {}
  BY <1>1, FS_EmptySet DEF Count
<1>3. QED
  BY <1>2 DEF Places

LEMMA CountOfSome ==
  ASSUME NEW T, NEW s \in Seq(T), NEW D, NEW E, D \subseteq E
  PROVE  Count(s, D) \in Nat /\ Count(s, E) \in Nat /\ Count(s, D) <= Count(s, E) /\ Count(s, E) <= Len(s)
<1>1. IsFiniteSet(Places(s, E)) /\ Count(s, E) \in Nat /\ Count(s, D) \in Nat
  BY CountType
<1>2. Places(s, D) \subseteq Places(s, E)
  BY DEF Places
<1>3. Count(s, D) <= Count(s, E)
  BY <1>1, <1>2, FS_Subset DEF Count
<1> DEFINE all == DOMAIN s
<1>4. IsFiniteSet(all) /\ Cardinality(all) = Len(s)
  <2> DEFINE a == 1
             b == Len(s)
  <2>1. a \in Int /\ b \in Int /\ (a <= b => b - a + 1 = b) /\ (a > b => b = 0) /\ all = a .. b
    OBVIOUS
  <2> HIDE DEF a, b, all
  <2>2. IsFiniteSet(a .. b) /\ Cardinality(a .. b) = b
    BY <2>1, FS_Interval
  <2>3. QED
    BY <2>1, <2>2 DEF b
<1>5. Places(s, E) \subseteq all
  BY DEF Places
<1>6. Count(s, E) <= Len(s)
  BY <1>4, <1>5, FS_Subset DEF Count
<1>7. QED
  BY <1>1, <1>3, <1>6


DistanceTo(q, x) == MinimumDistance(q.region, x.mbr)

Nearer(q, x) == {e \in Entry : DistanceTo(q, e) < DistanceTo(q, x)}

LEMMA DistancesKept ==
  ASSUME NEW pages, NEW root, Resting(pages, root), NEW q \in Queries, NEW p \in DOMAIN pages
  PROVE  /\ DistanceTo(q, pages[p]) \in Int /\ 0 <= DistanceTo(q, pages[p])
         /\ \A k \in DOMAIN pages[p].kids :
              LET e == pages[p].kids[k] IN
              /\ e \in Entry /\ DistanceTo(q, e) \in Int /\ DistanceTo(q, pages[p]) <= DistanceTo(q, e)
              /\ pages[p].level # 0 =>
                   /\ e.id \in DOMAIN pages /\ DistanceTo(q, pages[e.id]) \in Int
                   /\ DistanceTo(q, e) <= DistanceTo(q, pages[e.id])
<1>1. q.region \in Regions /\ pages[p].mbr \in Regions
  BY QueryOf, NodesTyped DEF Resting, Sound
<1>2. ContainsRegion(pages[p].mbr, pages[p].mbr)
  BY <1>1, ContainsItself
<1>3. DistanceTo(q, pages[p]) \in Int /\ 0 <= DistanceTo(q, pages[p])
  BY <1>1, <1>2, DistanceGrows DEF DistanceTo
<1>4. ASSUME NEW k \in DOMAIN pages[p].kids, NEW e, e = pages[p].kids[k]
      PROVE  /\ e \in Entry /\ DistanceTo(q, e) \in Int /\ DistanceTo(q, pages[p]) <= DistanceTo(q, e)
             /\ pages[p].level # 0 =>
                  /\ e.id \in DOMAIN pages /\ DistanceTo(q, pages[e.id]) \in Int
                  /\ DistanceTo(q, e) <= DistanceTo(q, pages[e.id])
  <2>1. /\ e \in Entry /\ e.mbr \in Regions
        /\ ContainsRegion(pages[p].mbr, e.mbr)
        /\ pages[p].level # 0 =>
             /\ e.id \in DOMAIN pages
             /\ pages[e.id].mbr \in Regions /\ ContainsRegion(e.mbr, pages[e.id].mbr)
    BY <1>4, BoxesAround DEF Resting
  <2>2. DistanceTo(q, e) \in Int /\ DistanceTo(q, pages[p]) <= DistanceTo(q, e)
    BY <1>1, <2>1, DistanceGrows DEF DistanceTo
  <2>3. pages[p].level # 0 =>
          DistanceTo(q, pages[e.id]) \in Int /\ DistanceTo(q, e) <= DistanceTo(q, pages[e.id])
    BY <1>1, <2>1, DistanceGrows DEF DistanceTo
  <2>4. QED
    BY <2>1, <2>2, <2>3
<1>5. QED
  BY <1>3, <1>4

LEMMA DistanceOfEntry ==
  ASSUME NEW q \in Queries, NEW e \in Entry
  PROVE  DistanceTo(q, e) \in Int
<1>1. q.region \in Regions /\ e.mbr \in Regions
  BY QueryOf, EntryOf
<1>2. ContainsRegion(e.mbr, e.mbr)
  BY <1>1, ContainsItself
<1>3. QED
  BY <1>1, <1>2, DistanceGrows DEF DistanceTo

LEMMA LeafCountGrows ==
  ASSUME NEW pages, Small(pages), NEW V \in SUBSET DOMAIN pages, NEW D, NEW E, D \subseteq E
  PROVE  /\ LeafCount(Part(pages, V), D) \in Nat /\ LeafCount(pages, D) \in Nat /\ LeafCount(pages, E) \in Nat
         /\ LeafCount(Part(pages, V), D) <= LeafCount(pages, D)
         /\ LeafCount(pages, D) <= LeafCount(pages, E)
<1>1. /\ IsFiniteSet(LeafPlaces(pages, E)) /\ LeafCount(pages, E) \in Nat
      /\ IsFiniteSet(LeafPlaces(pages, D)) /\ LeafCount(pages, D) \in Nat
  BY LeafPlacesFinite
<1>2. LeafCount(Part(pages, V), D) \in Nat
  BY PartIsSmall, LeafPlacesFinite
<1>3. LeafPlaces(pages, D) \subseteq LeafPlaces(pages, E)
  BY DEF LeafPlaces
<1>4. LeafPlaces(Part(pages, V), D) \subseteq LeafPlaces(pages, D)
  <2>1. DOMAIN Part(pages, V) = V /\ \A p \in V : Part(pages, V)[p] = pages[p]
    BY DEF Part
  <2>2. SUFFICES ASSUME NEW x \in LeafPlaces(Part(pages, V), D)
                 PROVE  x \in LeafPlaces(pages, D)
    OBVIOUS
  <2>3. \E p \in V : \E i \in DOMAIN pages[p].kids :
          x = <<p, i>> /\ pages[p].level = 0 /\ pages[p].kids[i] \in D
    BY <2>1, LeafPlacesOf
  <2>4. QED
    BY <2>3, LeafPlacesOf
<1>5. QED
  BY <1>1, <1>2, <1>3, <1>4, FS_Subset DEF LeafCount

\* What is nearer than all that is still to be visited was seen.
NearIsSeen(pages, q, P, T, D) ==
  /\ \A p \in P : T < DistanceTo(q, pages[p])
  /\ \A e \in Entry \cap D : DistanceTo(q, e) <= T

LEMMA NearSeen ==
  ASSUME NEW pages, NEW root, Resting(pages, root), NEW q \in Queries, NEW V \in SUBSET DOMAIN pages, NEW P,
         Searched(DOMAIN pages, root, Below(pages), V, P, DOMAIN pages),
         NEW T \in Int, NEW D, NearIsSeen(pages, q, P, T, D)
  PROVE  LeafCount(Part(pages, V), D) = LeafCount(pages, D)
<1> DEFINE X == DOMAIN pages
           R == {p \in X : DistanceTo(q, pages[p]) <= T}
           kids == Below(pages)
           levels == Levels(pages)
<1>1. Forest(X, root, kids, levels)
  BY TreeIsForest DEF Resting
<1>2. \A p \in X : DistanceTo(q, pages[p]) \in Int
  BY DistancesKept
<1>3. R \in SUBSET X /\ R \cap P = {}
  BY <1>2 DEF NearIsSeen, Searched
<1>4. Searched(X, root, kids, V, {}, R)
  <2> HIDE DEF R, kids
  <2>1. QED
    BY <1>3 DEF Searched, kids
<1>5. ASSUME NEW x \in X, NEW c \in kids[x], c \in R
      PROVE  x \in R
  <2>1. c \in Children(pages[x])
    BY DEF Below
  <2>2. pages[x].level # 0 /\ c \in KidIds(pages[x].kids)
    BY <2>1 DEF Children
  <2>3. PICK i \in DOMAIN pages[x].kids : c = pages[x].kids[i].id
    BY <2>2 DEF KidIds
  <2>4. /\ DistanceTo(q, pages[x].kids[i]) \in Int /\ DistanceTo(q, pages[c]) \in Int
        /\ DistanceTo(q, pages[x]) <= DistanceTo(q, pages[x].kids[i])
        /\ DistanceTo(q, pages[x].kids[i]) <= DistanceTo(q, pages[c])
    BY <2>2, <2>3, DistancesKept
  <2>5. QED
    BY <1>2, <1>5, <2>4
<1>6. R \subseteq V
  <2> HIDE DEF X, R, kids, levels
  <2>1. QED
    BY <1>1, <1>3, <1>4, <1>5, SearchEnds
<1>7. ASSUME NEW p \in X \ V, pages[p].level = 0, NEW k \in DOMAIN pages[p].kids
      PROVE  pages[p].kids[k] \notin D
  <2>1. DistanceTo(q, pages[p]) \in Int /\ T < DistanceTo(q, pages[p])
    BY <1>2, <1>6
  <2>2. /\ pages[p].kids[k] \in Entry /\ DistanceTo(q, pages[p].kids[k]) \in Int
        /\ DistanceTo(q, pages[p]) <= DistanceTo(q, pages[p].kids[k])
    BY DistancesKept
  <2>3. QED
    BY <2>1, <2>2 DEF NearIsSeen
<1>8. QED
  BY <1>7, PartHasAll

------------------------------------------------------------------------------
(***************************************************************************)
(* nearestNeighborQuery.  What was shown and what is queued is what the    *)
(* visited leaves hold; whatever is queued is no nearer than what was      *)
(* shown, and fewer than k are nearer than anything shown.                 *)
(***************************************************************************)
QueryRecord(q, queue, shown) == [fn |-> q.kind, query |-> q, pending |-> queue, shown |-> shown]

NearEntries(pages) ==
  [kind : {"node"}, item : DOMAIN pages, minDist : Int] \cup [kind : {"data"}, item : Entry, minDist : Int]

NodeAt(pages, p)    == {e \in NearEntries(pages) : e.kind = "node" /\ e.item = p}
DataAmong(pages, D) == {e \in NearEntries(pages) : e.kind = "data" /\ e.item \in D}

Queued(pages, queue) == {p \in DOMAIN pages : Count(queue, NodeAt(pages, p)) # 0}

\* The distance of a node's entry is that of the MBR its parent has for it.
KeyOK(pages, q, e) ==
  /\ e.kind = "node" => e.minDist <= DistanceTo(q, pages[e.item])
  /\ e.kind = "data" => e.minDist = DistanceTo(q, e.item)

InOrderShown(q, shown) ==
  \A i, j \in DOMAIN shown : i < j => DistanceTo(q, shown[i]) <= DistanceTo(q, shown[j])

\* Fewer than k are nearer.
Qualified(pages, q, shown) ==
  \A i \in DOMAIN shown : LeafCount(pages, Nearer(q, shown[i])) < q.k

QueueOK(pages, q, queue, shown) ==
  \A k \in DOMAIN queue :
    /\ KeyOK(pages, q, queue[k])
    /\ \A i \in DOMAIN shown : DistanceTo(q, shown[i]) <= queue[k].minDist

QueueHas(pages, root, queue, shown, V) ==
  /\ \A p \in DOMAIN pages : Count(queue, NodeAt(pages, p)) <= 1
  /\ Searched(DOMAIN pages, root, Below(pages), V, Queued(pages, queue), DOMAIN pages)
  /\ \A D : Count(shown, D) + Count(queue, DataAmong(pages, D)) = LeafCount(Part(pages, V), D)

NearUnderWay(pages, root, q, queue, shown) ==
  /\ QueueOK(pages, q, queue, shown)
  /\ \E V \in SUBSET DOMAIN pages : QueueHas(pages, root, queue, shown, V)

NearDone(pages, q, queue, shown) ==
  /\ queue = <<>>
  /\ \A x \in Entry : Count(shown, {x}) = IF LeafCount(pages, Nearer(q, x)) < q.k
                                          THEN LeafCount(pages, {x}) ELSE 0

NearFits(pages, root, q, queue, shown) ==
  /\ queue \in Seq(NearEntries(pages)) /\ shown \in Seq(Entry)
  /\ InOrderShown(q, shown) /\ Qualified(pages, q, shown)
  /\ NearUnderWay(pages, root, q, queue, shown) \/ NearDone(pages, q, queue, shown)

\* Asked for none, the query shows what is at no distance.
NearOK(pages, root, f) ==
  \E q \in Queries : \E queue, shown :
    /\ f = QueryRecord(q, queue, shown)
    /\ q.k # 0 => NearFits(pages, root, q, queue, shown)

\* An entry in the queue is a node's or an object's.
LEMMA NearEntryOf ==
  ASSUME NEW pages, NEW e \in NearEntries(pages)
  PROVE  /\ e.minDist \in Int
         /\ \/ /\ e.kind = "node" /\ e.item \in DOMAIN pages
               /\ \A p : One(e, NodeAt(pages, p)) = IF p = e.item THEN 1 ELSE 0
               /\ \A D : One(e, DataAmong(pages, D)) = 0
            \/ /\ e.kind = "data" /\ e.item \in Entry
               /\ \A p : One(e, NodeAt(pages, p)) = 0
               /\ \A D : One(e, DataAmong(pages, D)) = One(e.item, D)
<1>1. CASE e \in [kind : {"node"}, item : DOMAIN pages, minDist : Int]
  BY <1>1 DEF One, NodeAt, DataAmong, NearEntries
<1>2. CASE e \in [kind : {"data"}, item : Entry, minDist : Int]
  BY <1>2 DEF One, NodeAt, DataAmong, NearEntries
<1>3. QED
  BY <1>1, <1>2 DEF NearEntries

\* Nothing of what is as near as what comes first is missing, if none of it
\* is queued.
LEMMA NothingNearerQueued ==
  ASSUME NEW pages, NEW root, Resting(pages, root), NEW q \in Queries,
         NEW queue \in Seq(NearEntries(pages)), NEW shown, QueueOK(pages, q, queue, shown),
         NEW V \in SUBSET DOMAIN pages, QueueHas(pages, root, queue, shown, V),
         NEW d \in Int, \A k \in DOMAIN queue : d <= queue[k].minDist,
         NEW D, \A e \in Entry \cap D : DistanceTo(q, e) < d
  PROVE  Count(shown, D) + 0 = LeafCount(pages, D)
<1> DEFINE P == Queued(pages, queue)
           T == d - 1
<1>1. T \in Int /\ \A e \in Entry : DistanceTo(q, e) \in Int
  BY DistanceOfEntry
<1>2. ASSUME NEW p \in P
      PROVE  T < DistanceTo(q, pages[p])
  <2>1. p \in DOMAIN pages /\ Count(queue, NodeAt(pages, p)) # 0
    BY DEF Queued
  <2>2. PICK k \in DOMAIN queue : queue[k] \in NodeAt(pages, p)
    BY <2>1, CountOfNone
  <2>3. queue[k].kind = "node" /\ queue[k].item = p /\ queue[k].minDist \in Int
    BY <2>2, NearEntryOf DEF NodeAt
  <2>4. queue[k].minDist <= DistanceTo(q, pages[p]) /\ d <= queue[k].minDist
    BY <2>3 DEF QueueOK, KeyOK
  <2>5. DistanceTo(q, pages[p]) \in Int
    BY <2>1, DistancesKept
  <2>6. QED
    BY <2>3, <2>4, <2>5
<1>3. \A e \in Entry \cap D : DistanceTo(q, e) <= T
  BY <1>1
<1>4. NearIsSeen(pages, q, P, T, D)
  BY <1>2, <1>3 DEF NearIsSeen
<1> HIDE DEF P, T
<1>5. LeafCount(Part(pages, V), D) = LeafCount(pages, D)
  <2>1. Searched(DOMAIN pages, root, Below(pages), V, P, DOMAIN pages)
    BY DEF QueueHas, P
  <2>2. QED
    BY <1>1, <1>4, <2>1, NearSeen
<1>6. Count(queue, DataAmong(pages, D)) = 0
  <2>1. ASSUME NEW k \in DOMAIN queue, queue[k] \in DataAmong(pages, D)
        PROVE  FALSE
    <3>1. queue[k].kind = "data" /\ queue[k].item \in D /\ queue[k].item \in Entry
      BY <2>1, NearEntryOf DEF DataAmong
    <3>2. queue[k].minDist = DistanceTo(q, queue[k].item) /\ d <= queue[k].minDist
      BY <3>1 DEF QueueOK, KeyOK
    <3>3. QED
      BY <1>1, <3>1, <3>2
  <2>2. QED
    BY <2>1, CountOfNone
<1>7. Count(shown, D) + Count(queue, DataAmong(pages, D)) = LeafCount(Part(pages, V), D)
  BY DEF QueueHas
<1>8. QED
  BY <1>5, <1>6, <1>7

\* The first of the queue.
IsFirst(queue, k) == k \in DOMAIN queue /\ \A j \in DOMAIN queue : queue[k].minDist <= queue[j].minDist

\* Nothing that is farther than the k-th has been shown or needs to be.
LEMMA NearStops ==
  ASSUME NEW pages, NEW root, Resting(pages, root), NEW q \in Queries, q.k # 0,
         NEW queue, NEW shown, NearFits(pages, root, q, queue, shown),
         NEW k, IsFirst(queue, k), Len(shown) >= q.k,
         shown # <<>> => queue[k].minDist > DistanceTo(q, Last(shown)),
         NEW none, none = <<>>
  PROVE  NearFits(pages, root, q, none, shown)
<1> DEFINE d == queue[k].minDist
           m == Len(shown)
           last == shown[m]
           t == DistanceTo(q, last)
<1>1. /\ queue \in Seq(NearEntries(pages)) /\ shown \in Seq(Entry) /\ k \in DOMAIN queue
      /\ \A j \in DOMAIN queue : d <= queue[j].minDist
      /\ InOrderShown(q, shown) /\ Qualified(pages, q, shown) /\ q.k \in Nat
  BY QueryOf DEF NearFits, IsFirst
<1>2. queue # <<>>
  BY <1>1
<1>3. PICK V \in SUBSET DOMAIN pages : QueueHas(pages, root, queue, shown, V)
  BY <1>2 DEF NearFits, NearDone, NearUnderWay
<1>4. QueueOK(pages, q, queue, shown)
  BY <1>2 DEF NearFits, NearDone, NearUnderWay
<1>5. d \in Int
  BY <1>1, NearEntryOf
<1>6. m \in Nat /\ m # 0 /\ m \in DOMAIN shown /\ last \in Entry /\ shown # <<>> /\ DOMAIN shown = 1 .. m
  <2>1. m \in Nat /\ m # 0
    BY <1>1
  <2>2. DOMAIN shown = 1 .. m /\ m \in 1 .. m
    BY <1>1, <2>1
  <2>3. shown # <<>>
    BY <2>1
  <2>4. QED
    BY <1>1, <2>1, <2>2, <2>3
<1>7. t \in Int /\ t < d
  <2>1. Last(shown) = last
    BY DEF Last
  <2>2. t \in Int
    BY <1>6, DistanceOfEntry
  <2>3. QED
    BY <1>5, <1>6, <2>1, <2>2
<1> HIDE DEF d, last, t, m
<1>8. \A i \in DOMAIN shown : shown[i] \in Entry /\ DistanceTo(q, shown[i]) \in Int /\ DistanceTo(q, shown[i]) <= t
  <2>1. SUFFICES ASSUME NEW i \in DOMAIN shown
                 PROVE  shown[i] \in Entry /\ DistanceTo(q, shown[i]) \in Int /\ DistanceTo(q, shown[i]) <= t
    OBVIOUS
  <2>2. shown[i] \in Entry /\ DistanceTo(q, shown[i]) \in Int
    BY <1>1, DistanceOfEntry
  <2>3. i = m \/ i < m
    BY <1>6
  <2>4. CASE i = m
    BY <1>7, <2>2, <2>4 DEF t, last
  <2>5. CASE i < m
    BY <1>1, <1>6, <2>2, <2>5 DEF InOrderShown, t, last
  <2>6. QED
    BY <2>2, <2>3, <2>4, <2>5
<1>9. Small(pages)
  BY TreeIsSmall DEF Resting, Sound
<1>10. ASSUME NEW x \in Entry
       PROVE  Count(shown, {x}) = IF LeafCount(pages, Nearer(q, x)) < q.k
                                  THEN LeafCount(pages, {x}) ELSE 0
  <2>1. DistanceTo(q, x) \in Int
    BY DistanceOfEntry
  <2>2. CASE DistanceTo(q, x) <= t
    <3>1. LeafCount(pages, Nearer(q, x)) < q.k
      <4> DEFINE A == Nearer(q, x)
                 B == Nearer(q, last)
      <4>1. A \subseteq B
        <5>1. SUFFICES ASSUME NEW e \in Entry, DistanceTo(q, e) < DistanceTo(q, x)
                       PROVE  DistanceTo(q, e) < DistanceTo(q, last)
          BY DEF Nearer
        <5>2. DistanceTo(q, e) \in Int
          BY DistanceOfEntry
        <5>3. QED
          BY <1>7, <2>1, <2>2, <5>1, <5>2 DEF t
      <4>2. LeafCount(pages, B) < q.k
        BY <1>6 , <1>1 DEF Qualified, last
      <4> HIDE DEF A, B
      <4>3. LeafCount(pages, A) \in Nat /\ LeafCount(pages, B) \in Nat /\ LeafCount(pages, A) <= LeafCount(pages, B)
        <5>1. {} \in SUBSET DOMAIN pages
          OBVIOUS
        <5>2. QED
          BY <1>9, <4>1, <5>1, LeafCountGrows
      <4>4. LeafCount(pages, A) < q.k
        BY <1>1, <4>2, <4>3
      <4>5. QED
        BY <4>4 DEF A
    <3>2. \A e \in Entry \cap {x} : DistanceTo(q, e) < d
      BY <1>5, <1>7, <2>1, <2>2
    <3>3. Count(shown, {x}) + 0 = LeafCount(pages, {x})
      BY <1>1, <1>3, <1>4, <1>5, <3>2, NothingNearerQueued
    <3>4. Count(shown, {x}) \in Nat
      BY <1>1, CountType
    <3>5. QED
      BY <3>1, <3>3, <3>4
  <2>3. CASE ~(DistanceTo(q, x) <= t)
    <3> DEFINE A == Nearer(q, x)
    <3>1. \A i \in DOMAIN shown : shown[i] \in A
      BY <1>7, <1>8, <2>1, <2>3 DEF Nearer
    <3>2. \A i \in DOMAIN shown : shown[i] \notin {x}
      BY <1>7, <1>8, <2>1, <2>3
    <3>3. Count(shown, {x}) = 0
      BY <1>1, <3>2, CountOfNone
    <3> HIDE DEF A
    <3>4. Count(shown, A) = Len(shown)
      BY <1>1, <3>1, CountOfAll
    <3>5. Count(shown, A) + Count(queue, DataAmong(pages, A)) = LeafCount(Part(pages, V), A)
      BY <1>3 DEF QueueHas
    <3>6. Count(shown, A) \in Nat /\ Count(queue, DataAmong(pages, A)) \in Nat
      BY <1>1, CountType
    <3>7. /\ LeafCount(Part(pages, V), A) \in Nat /\ LeafCount(pages, A) \in Nat
          /\ LeafCount(Part(pages, V), A) <= LeafCount(pages, A)
      BY <1>9, LeafCountGrows
    <3>8. ~(LeafCount(pages, A) < q.k)
      BY <1>1, <3>4, <3>5, <3>6, <3>7
    <3>9. QED
      BY <3>3, <3>8 DEF A
  <2>4. QED
    BY <2>2, <2>3
<1>11. NearDone(pages, q, none, shown)
  BY <1>10 DEF NearDone
<1>12. none \in Seq(NearEntries(pages))
  OBVIOUS
<1>13. QED
  BY <1>1, <1>11, <1>12 DEF NearFits

\* An object's entry comes first: fewer than k are nearer.
LEMMA NearShows ==
  ASSUME NEW pages, NEW root, Resting(pages, root), NEW q \in Queries, q.k # 0,
         NEW queue, NEW shown, NearFits(pages, root, q, queue, shown),
         NEW k, IsFirst(queue, k), queue[k].kind = "data",
         ~(Len(shown) >= q.k /\ (shown # <<>> => queue[k].minDist > DistanceTo(q, Last(shown)))),
         NEW queue2, queue2 = RemoveAt(queue, k), NEW shown2, shown2 = Append(shown, queue[k].item)
  PROVE  NearFits(pages, root, q, queue2, shown2)
<1> DEFINE d == queue[k].minDist
           x == queue[k].item
           m == Len(shown)
<1>1. /\ queue \in Seq(NearEntries(pages)) /\ shown \in Seq(Entry) /\ k \in DOMAIN queue
      /\ \A j \in DOMAIN queue : d <= queue[j].minDist
      /\ InOrderShown(q, shown) /\ Qualified(pages, q, shown) /\ q.k \in Nat
  BY QueryOf DEF NearFits, IsFirst
<1>2. queue # <<>>
  BY <1>1
<1>3. PICK V \in SUBSET DOMAIN pages : QueueHas(pages, root, queue, shown, V)
  BY <1>2 DEF NearFits, NearDone, NearUnderWay
<1>4. QueueOK(pages, q, queue, shown)
  BY <1>2 DEF NearFits, NearDone, NearUnderWay
<1>5. /\ queue[k] \in NearEntries(pages) /\ d \in Int /\ x \in Entry
      /\ \A p : One(queue[k], NodeAt(pages, p)) = 0
      /\ \A D : One(queue[k], DataAmong(pages, D)) = One(x, D)
  <2>1. queue[k] \in NearEntries(pages)
    BY <1>1
  <2>2. QED
    BY <2>1, NearEntryOf
<1>6. d = DistanceTo(q, x) /\ \A i \in DOMAIN shown : DistanceTo(q, shown[i]) <= d
  BY <1>1, <1>4 DEF QueueOK, KeyOK
<1>7. /\ queue2 \in Seq(NearEntries(pages))
      /\ \A D : /\ Count(queue, D) \in Nat /\ Count(queue2, D) \in Nat
                /\ Count(queue, D) = Count(queue2, D) + One(queue[k], D)
      /\ \A j \in DOMAIN queue2 : \E i \in DOMAIN queue : queue2[j] = queue[i]
  BY <1>1, OneRemoved
<1>8. /\ shown2 \in Seq(Entry) /\ m \in Nat /\ DOMAIN shown2 = 1 .. m + 1 /\ DOMAIN shown = 1 .. m
      /\ shown2[m + 1] = x /\ \A i \in 1 .. m : shown2[i] = shown[i]
  BY <1>1, <1>5
<1>9. \A i \in 1 .. m : shown[i] \in Entry /\ DistanceTo(q, shown[i]) \in Int
  BY <1>1, <1>8, DistanceOfEntry
<1> HIDE DEF d, m
<1>10. InOrderShown(q, shown2)
  <2> SUFFICES ASSUME NEW i \in 1 .. m + 1, NEW j \in 1 .. m + 1, i < j
               PROVE  DistanceTo(q, shown2[i]) <= DistanceTo(q, shown2[j])
    BY <1>8 DEF InOrderShown
  <2>1. i \in 1 .. m /\ (j \in 1 .. m \/ j = m + 1)
    BY <1>8
  <2>2. CASE j \in 1 .. m
    BY <1>1, <1>8, <2>1, <2>2 DEF InOrderShown
  <2>3. CASE j = m + 1
    BY <1>6, <1>8, <2>1, <2>3
  <2>4. QED
    BY <2>1, <2>2, <2>3
<1>11. Qualified(pages, q, shown2)
  <2> DEFINE A == Nearer(q, x)
  <2>1. LeafCount(pages, A) < q.k
    <3>1. CASE m < q.k
      <4>1. \A e \in Entry \cap A : DistanceTo(q, e) < d
        BY <1>6 DEF Nearer
      <4> HIDE DEF A
      <4>2. Count(shown, A) + 0 = LeafCount(pages, A)
        <5>1. d \in Int /\ \A j \in DOMAIN queue : d <= queue[j].minDist
          BY <1>1, <1>5
        <5>2. queue \in Seq(NearEntries(pages))
          BY <1>1
        <5>3. QED
          BY <1>3, <1>4, <4>1, <5>1, <5>2, NothingNearerQueued
      <4>3. Count(shown, A) \in Nat /\ Count(shown, A) <= m
        <5>1. A \subseteq A
          OBVIOUS
        <5>2. QED
          BY <1>1, <5>1, CountOfSome DEF m
      <4>4. QED
        BY <1>1, <1>8, <3>1, <4>2, <4>3
    <3>2. CASE ~(m < q.k)
      <4>1. m >= q.k /\ m # 0
        BY <1>1, <1>8, <3>2
      <4>2. shown # <<>> /\ m \in 1 .. m /\ Last(shown) = shown[m]
        BY <1>8, <4>1 DEF Last, m
      <4>3. ~(d > DistanceTo(q, shown[m]))
        BY <4>1, <4>2 DEF d, m
      <4>4. d = DistanceTo(q, shown[m])
        BY <1>5, <1>6, <1>8, <1>9, <4>2, <4>3 DEF d
      <4>5. A = Nearer(q, shown[m])
        BY <1>6, <4>4 DEF Nearer
      <4>6. QED
        BY <1>1, <1>8, <4>2, <4>5 DEF Qualified
    <3>3. QED
      BY <3>1, <3>2
  <2> HIDE DEF A
  <2>2. ASSUME NEW i \in 1 .. m + 1
        PROVE  LeafCount(pages, Nearer(q, shown2[i])) < q.k
    <3>1. i \in 1 .. m \/ i = m + 1
      BY <1>8
    <3>2. CASE i \in 1 .. m
      BY <1>1, <1>8, <3>2 DEF Qualified
    <3>3. CASE i = m + 1
      BY <1>8, <2>1, <3>3 DEF A
    <3>4. QED
      BY <3>1, <3>2, <3>3
  <2>3. QED
    BY <1>8, <2>2 DEF Qualified
<1>12. QueueOK(pages, q, queue2, shown2)
  <2> SUFFICES ASSUME NEW j \in DOMAIN queue2
               PROVE  /\ KeyOK(pages, q, queue2[j])
                      /\ \A i \in 1 .. m + 1 : DistanceTo(q, shown2[i]) <= queue2[j].minDist
    BY <1>8 DEF QueueOK
  <2>1. PICK h \in DOMAIN queue : queue2[j] = queue[h]
    BY <1>7
  <2>2. ASSUME NEW i \in 1 .. m + 1
        PROVE  DistanceTo(q, shown2[i]) <= queue[h].minDist
    <3>1. i \in 1 .. m \/ i = m + 1
      BY <1>8
    <3>2. CASE i \in 1 .. m
      BY <1>4, <1>8, <3>2 DEF QueueOK
    <3>3. CASE i = m + 1
      BY <1>1, <1>6, <1>8, <3>3
    <3>4. QED
      BY <3>1, <3>2, <3>3
  <2>3. QED
    BY <1>4, <2>1, <2>2 DEF QueueOK
<1>13. QueueHas(pages, root, queue2, shown2, V)
  <2>1. \A p : Count(queue2, NodeAt(pages, p)) = Count(queue, NodeAt(pages, p))
    BY <1>5, <1>7
  <2>2. Queued(pages, queue2) = Queued(pages, queue)
    BY <2>1 DEF Queued
  <2>3. ASSUME NEW D
        PROVE  Count(shown2, D) + Count(queue2, DataAmong(pages, D)) = LeafCount(Part(pages, V), D)
    <3>1. Count(shown2, D) = Count(shown, D) + One(x, D) /\ Count(shown, D) \in Nat
      <4> HIDE DEF x
      <4>1. QED
        BY <1>1, <1>5, CountAppended, CountType DEF x
    <3>2. Count(queue, DataAmong(pages, D)) = Count(queue2, DataAmong(pages, D)) + One(x, D)
      BY <1>5, <1>7
    <3>3. Count(shown, D) + Count(queue, DataAmong(pages, D)) = LeafCount(Part(pages, V), D)
      BY <1>3 DEF QueueHas
    <3>4. One(x, D) \in {0, 1} /\ Count(queue2, DataAmong(pages, D)) \in Nat
      BY <1>7 DEF One
    <3>5. QED
      BY <3>1, <3>2, <3>3, <3>4
  <2>4. QED
    BY <1>3, <2>1, <2>2, <2>3 DEF QueueHas
<1>14. QED
  BY <1>3, <1>7, <1>8, <1>10, <1>11, <1>12, <1>13 DEF NearFits, NearUnderWay

LEMMA PushedOf ==
  ASSUME NEW pages, NEW root, Resting(pages, root), NEW f, NEW q \in Queries, f.query = q,
         NEW x \in DOMAIN pages, NEW pushed, pushed = Pushed(f, pages[x])
  PROVE  /\ pushed \in Seq(NearEntries(pages))
         /\ \A k \in DOMAIN pushed : /\ KeyOK(pages, q, pushed[k])
                                     /\ DistanceTo(q, pages[x]) <= pushed[k].minDist
         /\ \A p : Count(pushed, NodeAt(pages, p)) = IF p \in Children(pages[x]) THEN 1 ELSE 0
         /\ \A D : Count(pushed, DataAmong(pages, D)) = InLeaf(pages[x], D)
<1> DEFINE kids == pages[x].kids
           m == Len(kids)
           leaf == pages[x].level = 0
           Entered(k) == NNEntry(IF leaf THEN "data" ELSE "node", IF leaf THEN kids[k] ELSE kids[k].id,
                                 DistanceTo(q, kids[k]))
<1>1. kids \in Seq(Entry) /\ m \in Nat /\ DOMAIN kids = 1 .. m /\ (~leaf => DistinctIds(kids))
  BY NodesTyped DEF Resting, Sound, FitsIn
<1>2. pushed = [k \in 1 .. m |-> Entered(k)]
  BY <1>1 DEF Pushed, DistanceTo
<1>3. ASSUME NEW k \in 1 .. m
      PROVE  /\ kids[k] \in Entry /\ DistanceTo(q, kids[k]) \in Int
             /\ DistanceTo(q, pages[x]) <= DistanceTo(q, kids[k])
             /\ ~leaf => /\ kids[k].id \in DOMAIN pages /\ kids[k].id \in Children(pages[x])
                         /\ DistanceTo(q, kids[k]) <= DistanceTo(q, pages[kids[k].id])
  <2>1. k \in DOMAIN pages[x].kids
    BY <1>1
  <2>2. /\ kids[k] \in Entry /\ DistanceTo(q, kids[k]) \in Int
        /\ DistanceTo(q, pages[x]) <= DistanceTo(q, kids[k])
        /\ ~leaf => /\ kids[k].id \in DOMAIN pages
                    /\ DistanceTo(q, kids[k]) <= DistanceTo(q, pages[kids[k].id])
    BY <2>1, DistancesKept
  <2>3. ~leaf => kids[k].id \in Children(pages[x])
    BY <2>1 DEF Children, KidIds
  <2>4. QED
    BY <2>2, <2>3
<1>4. \A k \in 1 .. m : /\ Entered(k).kind = IF leaf THEN "data" ELSE "node"
                        /\ Entered(k).item = IF leaf THEN kids[k] ELSE kids[k].id
                        /\ Entered(k).minDist = DistanceTo(q, kids[k])
                        /\ Entered(k) \in NearEntries(pages)
  BY <1>3 DEF NNEntry, NearEntries
<1> HIDE DEF Entered, leaf
<1>5. pushed \in Seq(NearEntries(pages)) /\ DOMAIN pushed = 1 .. m /\ \A k \in 1 .. m : pushed[k] = Entered(k)
  BY <1>1, <1>2, <1>4
<1>6. \A k \in 1 .. m : KeyOK(pages, q, pushed[k]) /\ DistanceTo(q, pages[x]) <= pushed[k].minDist
  BY <1>3, <1>4, <1>5 DEF KeyOK
<1>7. ASSUME NEW p
      PROVE  Count(pushed, NodeAt(pages, p)) = IF p \in Children(pages[x]) THEN 1 ELSE 0
  <2>1. ASSUME NEW k \in 1 .. m
        PROVE  pushed[k] \in NodeAt(pages, p) <=> ~leaf /\ kids[k].id = p
    BY <1>4, <1>5 DEF NodeAt
  <2>2. Places(pushed, NodeAt(pages, p)) = {k \in 1 .. m : ~leaf /\ kids[k].id = p}
    BY <1>5, <2>1 DEF Places
  <2>3. CASE p \in Children(pages[x])
    <3>1. ~leaf /\ p \in KidIds(kids)
      BY <2>3 DEF Children, leaf
    <3>2. PICK i \in 1 .. m : p = kids[i].id
      BY <1>1, <3>1 DEF KidIds
    <3>3. Places(pushed, NodeAt(pages, p)) = {i}
      BY <1>1, <2>2, <3>1, <3>2 DEF DistinctIds
    <3>4. QED
      BY <2>3, <3>3, FS_Singleton DEF Count
  <2>4. CASE p \notin Children(pages[x])
    <3>1. Places(pushed, NodeAt(pages, p)) = {}
      BY <1>3, <2>2, <2>4
    <3>2. QED
      BY <2>4, <3>1, FS_EmptySet DEF Count
  <2>5. QED
    BY <2>3, <2>4
<1>8. ASSUME NEW D
      PROVE  Count(pushed, DataAmong(pages, D)) = InLeaf(pages[x], D)
  <2>1. ASSUME NEW k \in 1 .. m
        PROVE  pushed[k] \in DataAmong(pages, D) <=> leaf /\ kids[k] \in D
    BY <1>4, <1>5 DEF DataAmong
  <2>2. Places(pushed, DataAmong(pages, D)) = {k \in 1 .. m : leaf /\ kids[k] \in D}
    BY <1>5, <2>1 DEF Places
  <2>3. CASE leaf
    <3>1. Places(pushed, DataAmong(pages, D)) = Places(kids, D)
      BY <1>1, <2>2, <2>3 DEF Places
    <3>2. QED
      BY <2>3, <3>1 DEF Count, InLeaf, leaf
  <2>4. CASE ~leaf
    <3>1. Places(pushed, DataAmong(pages, D)) = {}
      BY <2>2, <2>4
    <3>2. QED
      BY <2>4, <3>1, FS_EmptySet DEF Count, InLeaf, leaf
  <2>5. QED
    BY <2>3, <2>4
<1>9. QED
  BY <1>5, <1>6, <1>7, <1>8

\* A node comes first: its entries take its place.
LEMMA NearOpens ==
  ASSUME NEW pages, NEW root, Resting(pages, root), NEW q \in Queries, NEW f, f.query = q,
         NEW queue, NEW shown, NearFits(pages, root, q, queue, shown),
         NEW k, IsFirst(queue, k), queue[k].kind = "node",
         NEW x, x = queue[k].item, NEW queue2, queue2 = RemoveAt(queue, k) \o Pushed(f, pages[x])
  PROVE  NearFits(pages, root, q, queue2, shown)
<1> DEFINE d == queue[k].minDist
           T == NearEntries(pages)
           others == RemoveAt(queue, k)
           pushed == Pushed(f, pages[x])
           X == DOMAIN pages
           kids == Below(pages)
           levels == Levels(pages)
           P == Queued(pages, queue)
           new == Children(pages[x])
<1>1. /\ queue \in Seq(T) /\ shown \in Seq(Entry) /\ k \in DOMAIN queue
      /\ \A j \in DOMAIN queue : d <= queue[j].minDist
      /\ InOrderShown(q, shown) /\ Qualified(pages, q, shown)
  BY DEF NearFits, IsFirst
<1>2. queue # <<>>
  BY <1>1
<1>3. PICK V \in SUBSET X : QueueHas(pages, root, queue, shown, V)
  BY <1>2 DEF NearFits, NearDone, NearUnderWay
<1>4. QueueOK(pages, q, queue, shown)
  BY <1>2 DEF NearFits, NearDone, NearUnderWay
<1>5. /\ queue[k] \in T /\ d \in Int /\ x \in X
      /\ \A p : One(queue[k], NodeAt(pages, p)) = IF p = x THEN 1 ELSE 0
      /\ \A D : One(queue[k], DataAmong(pages, D)) = 0
  <2>1. queue[k] \in T
    BY <1>1
  <2>2. QED
    BY <2>1, NearEntryOf
<1>6. d <= DistanceTo(q, pages[x]) /\ DistanceTo(q, pages[x]) \in Int
      /\ \A i \in DOMAIN shown : DistanceTo(q, shown[i]) <= d /\ DistanceTo(q, shown[i]) \in Int
  <2>1. DistanceTo(q, pages[x]) \in Int
    BY <1>5, DistancesKept
  <2>2. \A i \in DOMAIN shown : DistanceTo(q, shown[i]) \in Int
    BY <1>1, DistanceOfEntry
  <2>3. QED
    BY <1>1, <1>4, <2>1, <2>2 DEF QueueOK, KeyOK
<1>7. /\ others \in Seq(T)
      /\ \A D : /\ Count(queue, D) \in Nat /\ Count(others, D) \in Nat
                /\ Count(queue, D) = Count(others, D) + One(queue[k], D)
      /\ \A j \in DOMAIN others : \E i \in DOMAIN queue : others[j] = queue[i]
  BY <1>1, OneRemoved
<1>8. /\ pushed \in Seq(T)
      /\ \A j \in DOMAIN pushed : KeyOK(pages, q, pushed[j]) /\ DistanceTo(q, pages[x]) <= pushed[j].minDist
      /\ \A p : Count(pushed, NodeAt(pages, p)) = IF p \in new THEN 1 ELSE 0
      /\ \A D : Count(pushed, DataAmong(pages, D)) = InLeaf(pages[x], D)
  BY <1>5, PushedOf
<1>9. queue2 = others \o pushed
  OBVIOUS
<1> HIDE DEF d, T, others, pushed, X, kids, levels, P, new
<1>10. /\ queue2 \in Seq(T)
       /\ \A D : Count(queue2, D) = Count(others, D) + Count(pushed, D)
       /\ \A j \in DOMAIN queue2 : \/ \E i \in DOMAIN others : queue2[j] = others[i]
                                   \/ \E i \in DOMAIN pushed : queue2[j] = pushed[i]
  BY <1>7, <1>8, <1>9, CountConcatenated, ElementsOf
<1>11. QueueOK(pages, q, queue2, shown)
  <2>1. ASSUME NEW j \in DOMAIN queue2, NEW i \in DOMAIN others, queue2[j] = others[i]
        PROVE  /\ KeyOK(pages, q, queue2[j])
               /\ \A h \in DOMAIN shown : DistanceTo(q, shown[h]) <= queue2[j].minDist
    BY <1>4, <1>7, <2>1 DEF QueueOK
  <2>2. ASSUME NEW j \in DOMAIN queue2, NEW i \in DOMAIN pushed, queue2[j] = pushed[i]
        PROVE  /\ KeyOK(pages, q, queue2[j])
               /\ \A h \in DOMAIN shown : DistanceTo(q, shown[h]) <= queue2[j].minDist
    <3>1. pushed[i].minDist \in Int
      BY <1>8, NearEntryOf DEF T
    <3>2. KeyOK(pages, q, queue2[j]) /\ DistanceTo(q, pages[x]) <= queue2[j].minDist /\ queue2[j].minDist \in Int
      BY <1>8, <2>2, <3>1
    <3>3. QED
      BY <1>5, <1>6, <3>2
  <2>3. QED
    BY <1>10, <2>1, <2>2 DEF QueueOK
<1>12. Forest(X, root, kids, levels) /\ Small(pages)
  BY TreeIsForest, TreeIsSmall DEF Resting, Sound, X, kids, levels
<1>13. Searched(X, root, kids, V, P, X) /\ \A p \in X : Count(queue, NodeAt(pages, p)) <= 1
  BY <1>3 DEF QueueHas, X, kids, P
<1>14. x \in P /\ kids[x] = new
  <2>1. Count(queue, NodeAt(pages, x)) = Count(others, NodeAt(pages, x)) + 1
        /\ Count(others, NodeAt(pages, x)) \in Nat
    BY <1>5, <1>7
  <2>2. Count(queue, NodeAt(pages, x)) # 0
    BY <2>1
  <2>3. QED
    BY <1>5, <2>2 DEF P, Queued, X, kids, Below, new
<1> DEFINE U == V \cup {x}
           Q == (P \ {x}) \cup new
<1>15. new \cap P = {} /\ x \in X /\ x \notin V /\ Searched(X, root, kids, U, Q, X)
  <2>1. Advances(kids, V, P, X, x, new, U, Q)
    BY <1>14 DEF Advances
  <2> HIDE DEF U, Q
  <2>2. QED
    BY <1>12, <1>13, <2>1, SearchGoesOn
<1> HIDE DEF U, Q
<1>16. ASSUME NEW p \in X
       PROVE  Count(queue2, NodeAt(pages, p)) \in {0, 1} /\ (p \in Q <=> Count(queue2, NodeAt(pages, p)) # 0)
  <2> DEFINE N == NodeAt(pages, p)
             b == Count(queue, N)
             c == Count(others, N)
             e == Count(pushed, N)
  <2>1. b \in Nat /\ c \in Nat /\ b = c + (IF p = x THEN 1 ELSE 0) /\ b <= 1
    BY <1>5, <1>7, <1>13
  <2>2. e = (IF p \in new THEN 1 ELSE 0) /\ Count(queue2, N) = c + e
    BY <1>8, <1>10
  <2>3. p \in P <=> b # 0
    BY DEF P, Queued, X
  <2> HIDE DEF N, b, c, e
  <2>4. p \in Q <=> (p \in P /\ p # x) \/ p \in new
    BY DEF Q
  <2>5. Count(queue2, N) \in {0, 1} /\ (p \in Q <=> Count(queue2, N) # 0)
    BY <1>14, <1>15, <2>1, <2>2, <2>3, <2>4
  <2>6. QED
    BY <2>5 DEF N
<1>17. Queued(pages, queue2) = Q
  <2>1. Q \subseteq X
    BY <1>15 DEF Searched
  <2>2. QED
    BY <1>16, <2>1 DEF Queued, X
<1>18. ASSUME NEW D
       PROVE  Count(shown, D) + Count(queue2, DataAmong(pages, D)) = LeafCount(Part(pages, U), D)
  <2>1. /\ LeafCount(Part(pages, V), D) \in Nat /\ InLeaf(pages[x], D) \in Nat
        /\ LeafCount(Part(pages, U), D) = LeafCount(Part(pages, V), D) + InLeaf(pages[x], D)
    <3>1. V \in SUBSET DOMAIN pages /\ x \in DOMAIN pages \ V
      BY <1>3, <1>15 DEF X
    <3>2. QED
      BY <1>12, <3>1, PartGrows DEF U
  <2>2. Count(shown, D) + Count(queue, DataAmong(pages, D)) = LeafCount(Part(pages, V), D)
    BY <1>3 DEF QueueHas
  <2>3. /\ Count(queue, DataAmong(pages, D)) = Count(others, DataAmong(pages, D)) + 0
        /\ Count(others, DataAmong(pages, D)) \in Nat
    BY <1>5, <1>7
  <2>4. Count(queue2, DataAmong(pages, D)) = Count(others, DataAmong(pages, D)) + InLeaf(pages[x], D)
    BY <1>8, <1>10
  <2>5. Count(shown, D) \in Nat
    BY <1>1, CountType
  <2>6. QED
    BY <2>1, <2>2, <2>3, <2>4, <2>5
<1>19. QueueHas(pages, root, queue2, shown, U) /\ U \in SUBSET DOMAIN pages
  <2>1. \A p \in DOMAIN pages : Count(queue2, NodeAt(pages, p)) <= 1
    BY <1>16 DEF X
  <2>2. QED
    BY <1>15, <1>17, <1>18, <2>1 DEF QueueHas, X, kids, U
<1>20. QED
  BY <1>1, <1>10, <1>11, <1>19 DEF NearFits, NearUnderWay, T

LEMMA FirstNear ==
  ASSUME NEW pages, NEW root, Resting(pages, root), NEW q \in Queries, q.kind = "nearestNeighborQuery"
  PROVE  NearOK(pages, root, QueryFrame(q, <<NNEntry("node", root, 0)>>))
<1> DEFINE first == NNEntry("node", root, 0)
           queue == <<first>>
           shown == <<>>
           f == QueryFrame(q, queue)
           V == {}
           T == NearEntries(pages)
<1>1. Forest(DOMAIN pages, root, Below(pages), Levels(pages)) /\ root \in DOMAIN pages
  BY TreeIsForest DEF Resting, Forest
<1>2. first \in T /\ first.kind = "node" /\ first.item = root /\ first.minDist = 0
  BY <1>1 DEF NNEntry, NearEntries
<1>3. /\ \A p : One(first, NodeAt(pages, p)) = IF p = root THEN 1 ELSE 0
      /\ \A D : One(first, DataAmong(pages, D)) = 0
  BY <1>2, NearEntryOf
<1> HIDE DEF first, T
<1>4. queue \in Seq(T) /\ DOMAIN queue = {1} /\ queue[1] = first /\ shown \in Seq(Entry) /\ DOMAIN shown = {}
  BY <1>2
<1>5. ASSUME NEW D
      PROVE  Count(queue, D) = One(first, D) /\ Count(shown, D) = 0
  <2>1. Places(queue, D) = IF first \in D THEN {1} ELSE {}
    BY <1>4 DEF Places
  <2>2. Count(queue, D) = One(first, D)
    BY <2>1, FS_Singleton, FS_EmptySet DEF Count, One
  <2>3. QED
    BY <2>2, CountNone
<1> HIDE DEF queue, shown, f
<1>6. InOrderShown(q, shown) /\ Qualified(pages, q, shown)
  BY <1>4 DEF InOrderShown, Qualified
<1>7. QueueOK(pages, q, queue, shown)
  <2>1. 0 <= DistanceTo(q, pages[root])
    BY <1>1, DistancesKept
  <2>2. QED
    BY <1>2, <1>4, <2>1 DEF QueueOK, KeyOK
<1>8. QueueHas(pages, root, queue, shown, V)
  <2>1. \A p : Count(queue, NodeAt(pages, p)) = IF p = root THEN 1 ELSE 0
    BY <1>3, <1>5
  <2>2. Queued(pages, queue) = {root}
    BY <1>1, <2>1 DEF Queued
  <2>3. Searched(DOMAIN pages, root, Below(pages), V, {root}, DOMAIN pages)
    BY <1>1 DEF Searched
  <2>4. \A D : Count(shown, D) + Count(queue, DataAmong(pages, D)) = LeafCount(Part(pages, V), D)
    BY <1>3, <1>5, PartOfNone
  <2>5. \A p \in DOMAIN pages : Count(queue, NodeAt(pages, p)) <= 1
    BY <2>1
  <2> HIDE DEF V
  <2>6. QED
    BY <2>2, <2>3, <2>4, <2>5 DEF QueueHas
<1>9. NearFits(pages, root, q, queue, shown)
  <2>1. V \in SUBSET DOMAIN pages
    OBVIOUS
  <2> HIDE DEF V
  <2>2. QED
    BY <1>4, <1>6, <1>7, <1>8, <2>1 DEF NearFits, NearUnderWay, T
<1>10. f = QueryRecord(q, queue, shown)
  BY DEF f, QueryFrame, QueryRecord, shown
<1> HIDE DEF f
<1>11. NearOK(pages, root, f)
  BY <1>9, <1>10 DEF NearOK
<1>12. QED
  BY <1>11 DEF f, queue, first

Emptied(queue) == DOMAIN queue = {}

\* An empty queue: all was seen.
LEMMA NearEnds ==
  ASSUME NEW pages, NEW root, Resting(pages, root), NEW q \in Queries, NEW queue, NEW shown,
         NearFits(pages, root, q, queue, shown), Emptied(queue)
  PROVE  NearDone(pages, q, queue, shown)
<1>1. /\ queue \in Seq(NearEntries(pages)) /\ shown \in Seq(Entry) /\ Qualified(pages, q, shown) /\ q.k \in Nat
  BY QueryOf DEF NearFits
<1>2. SUFFICES ASSUME NearUnderWay(pages, root, q, queue, shown)
               PROVE  NearDone(pages, q, queue, shown)
  BY DEF NearFits
<1>3. PICK V \in SUBSET DOMAIN pages : QueueHas(pages, root, queue, shown, V)
  BY <1>2 DEF NearUnderWay
<1>4. ASSUME NEW x \in Entry
      PROVE  Count(shown, {x}) = IF LeafCount(pages, Nearer(q, x)) < q.k
                                 THEN LeafCount(pages, {x}) ELSE 0
  <2> DEFINE d == DistanceTo(q, x) + 1
             D == {x}
  <2>1. d \in Int
    BY DistanceOfEntry
  <2>10. \A e \in Entry \cap D : DistanceTo(q, e) < d
    BY <2>1, DistanceOfEntry
  <2>2. \A k \in DOMAIN queue : d <= queue[k].minDist
    BY DEF Emptied
  <2>9. QueueOK(pages, q, queue, shown)
    BY DEF QueueOK, Emptied
  <2>8. queue \in Seq(NearEntries(pages))
    BY <1>1
  <2> HIDE DEF d, D
  <2>3. Count(shown, D) + 0 = LeafCount(pages, D)
    BY <1>3, <2>1, <2>2, <2>8, <2>9, <2>10, NothingNearerQueued
  <2>4. Count(shown, D) \in Nat
    BY <1>1, CountType
  <2>5. CASE Count(shown, D) = 0
    BY <2>3, <2>4, <2>5 DEF D
  <2>6. CASE Count(shown, D) # 0
    <3>1. PICK i \in DOMAIN shown : shown[i] \in D
      BY <1>1, <2>6, CountOfNone
    <3>2. LeafCount(pages, Nearer(q, x)) < q.k
      BY <1>1, <3>1 DEF Qualified, D
    <3>3. QED
      BY <2>3, <2>4, <3>2 DEF D
  <2>7. QED
    BY <2>5, <2>6
<1>5. QED
  <2>1. queue = <<>>
    BY <1>1 DEF Emptied
  <2>2. QED
    BY <1>4, <2>1 DEF NearDone

\* Of a join only its frame: what it shows is left to the runs.
JoinOK(pages, root, f) ==
  f.fn = "selfJoinQuery" /\ \E q \in Queries : \E pending, shown : f = QueryRecord(q, pending, shown)
------------------------------------------------------------------------------
(***************************************************************************)
(* The invariant: an index at work on calls that change it, or at rest and *)
(* one query under way.                                                    *)
(***************************************************************************)
RangeKinds == {"intersectsWithQuery", "containsWhatQuery", "internalNodesQuery"}

FrameFits(pages, root, f) ==
  /\ f.fn \in QueryKinds
  /\ f.fn \in RangeKinds => RangeOK(pages, root, f)
  /\ f.fn = "nearestNeighborQuery" => NearOK(pages, root, f)
  /\ f.fn = "selfJoinQuery" => JoinOK(pages, root, f)

Asked ==
  /\ Resting(nodes, m_rootID) /\ ClientOK
  /\ \E f : work = <<f>> /\ FrameFits(nodes, m_rootID, f)

Called == TreeInv /\ ClientOK /\ WayInv /\ BoxInv /\ Tally(Entry \ Object) = 0

QueryInv == Called \/ Asked

\* What every turn of a loop leaves alone.
QueryGoesOn == UNCHANGED <<m_rootID, nodes, client>>

LEMMA AskedNext ==
  ASSUME Asked, QueryGoesOn, NEW g, work' = <<g>>, FrameFits(nodes, m_rootID, g)
  PROVE  Asked'
<1>1. nodes' = nodes /\ m_rootID' = m_rootID /\ todo' = todo /\ answer' = answer
  BY DEF QueryGoesOn, client
<1>2. Resting(nodes, m_rootID)' /\ ClientOK'
  BY <1>1 DEF Asked, ClientOK
<1>3. FrameFits(nodes', m_rootID', g)
  BY <1>1
<1>4. QED
  BY <1>2, <1>3 DEF Asked

LEMMA BecomesOne ==
  ASSUME NEW f, work = <<f>>, NEW g, Become(<<g>>)
  PROVE  work' = <<g>>
BY DEF Become

LEMMA Visits1 ==
  ASSUME Asked, NEW kinds, Visiting(kinds), UNCHANGED nodes
  PROVE  /\ QueryGoesOn
         /\ \E f : /\ work = <<f>> /\ f = work[1] /\ f.fn \in kinds /\ f.pending # <<>>
                   /\ FrameFits(nodes, m_rootID, f)
<1>1. PICK f : work = <<f>> /\ FrameFits(nodes, m_rootID, f)
  BY DEF Asked
<1>2. work[1] = f
  BY <1>1
<1>3. f.fn \in kinds /\ f.pending # <<>> /\ UNCHANGED <<m_rootID, client>>
  BY <1>2 DEF Visiting, Step, Running
<1>4. QueryGoesOn
  BY <1>3 DEF QueryGoesOn
<1>5. QED
  BY <1>1, <1>2, <1>3, <1>4

LEMMA RangeTurn ==
  ASSUME Asked, QueryGoesOn, NEW f, work = <<f>>, f.fn \in RangeKinds, FrameFits(nodes, m_rootID, f),
         f.pending # <<>>, NEW pushed, NEW shown, Turn(f, pushed, shown),
         VisitOK(nodes, f.query, Last(f.pending).page, pushed, shown)
         \/ /\ ContainsRegion(f.query.region, nodes[Last(f.pending).page].mbr)
            /\ f.query.kind # "intersectsWithQuery"
            /\ pushed = <<ToVisit(Last(f.pending).page, TRUE)>> /\ shown = <<>>
  PROVE  Asked'
<1> DEFINE g == [f EXCEPT !.pending = Front(@) \o pushed, !.shown = @ \o shown]
<1>1. RangeOK(nodes, m_rootID, f) /\ Resting(nodes, m_rootID) /\ f.fn \in QueryKinds
  BY DEF FrameFits, Asked
<1>2. RangeOK(nodes, m_rootID, g)
  BY <1>1, TurnKeepsRange, WholeKeepsRange
<1>3. g.fn = f.fn
  BY <1>1 DEF RangeOK, QueryFrames
<1>4. Become(<<g>>)
  BY DEF Turn
<1> HIDE DEF g
<1>5. work' = <<g>>
  BY <1>4, BecomesOne
<1>6. FrameFits(nodes, m_rootID, g)
  BY <1>1, <1>2, <1>3 DEF FrameFits, RangeKinds
<1>7. QED
  BY <1>5, <1>6, AskedNext

LEMMA VisitsInRange ==
  ASSUME Asked, VisitInRange
  PROVE  Asked'
<1> DEFINE kinds == {"intersectsWithQuery"}
<1>1. Visiting(kinds) /\ UNCHANGED nodes
  BY DEF VisitInRange
<1>2. PICK f : /\ work = <<f>> /\ f = work[1] /\ f.fn \in kinds /\ f.pending # <<>>
               /\ FrameFits(nodes, m_rootID, f)
  BY <1>1, Visits1
<1>3. QueryGoesOn
  BY <1>1, Visits1
<1>4. f.fn \in RangeKinds /\ f.fn = "intersectsWithQuery"
  BY <1>2 DEF RangeKinds
<1> DEFINE x == Last(f.pending).page
           n == nodes[x]
           matching == Matching(n.kids, RangeMatch(f.query, n.kids))
           pushed == IF n.level = 0 THEN <<>> ELSE Push(matching, FALSE)
           shown == IF n.level = 0 THEN matching ELSE <<>>
<1>5. Turn(f, pushed, shown)
  BY <1>2 DEF VisitInRange
<1>6. VisitOK(nodes, f.query, x, pushed, shown)
  <2>1. Resting(nodes, m_rootID) /\ RangeOK(nodes, m_rootID, f)
    BY <1>2, <1>4 DEF Asked, FrameFits
  <2>2. x \in DOMAIN nodes /\ f.query \in Queries /\ f.fn = f.query.kind
    BY <1>2, <2>1, TopVisit
  <2>3. QED
    BY <1>4, <2>1, <2>2, InRange
<1> HIDE DEF pushed, shown
<1>7. QED
  BY <1>2, <1>3, <1>4, <1>5, <1>6, RangeTurn

LEMMA VisitsSubTree ==
  ASSUME Asked, VisitSubTree
  PROVE  Asked'
<1> DEFINE kinds == {"containsWhatQuery", "internalNodesQuery"}
<1>1. Visiting(kinds) /\ UNCHANGED nodes
  BY DEF VisitSubTree
<1>2. PICK f : /\ work = <<f>> /\ f = work[1] /\ f.fn \in kinds /\ f.pending # <<>>
               /\ FrameFits(nodes, m_rootID, f)
  BY <1>1, Visits1
<1>3. QueryGoesOn
  BY <1>1, Visits1
<1>4. f.fn \in RangeKinds
  BY <1>2 DEF RangeKinds
<1> DEFINE x == Last(f.pending).page
           n == nodes[x]
           pushed == IF n.level = 0 THEN <<>> ELSE Push(n.kids, TRUE)
           shown == IF n.level = 0 THEN n.kids ELSE <<>>
<1>5. Turn(f, pushed, shown) /\ Last(f.pending).whole
  BY <1>2 DEF VisitSubTree
<1>6. VisitOK(nodes, f.query, x, pushed, shown)
  <2>1. Resting(nodes, m_rootID) /\ RangeOK(nodes, m_rootID, f)
    BY <1>2, <1>4 DEF Asked, FrameFits
  <2>2. /\ x \in DOMAIN nodes /\ f.query \in Queries /\ f.query.kind # "intersectsWithQuery"
        /\ ContainsRegion(f.query.region, n.mbr)
    BY <1>2, <1>5, <2>1, TopVisit
  <2>3. QED
    BY <2>1, <2>2, InSubTree
<1> HIDE DEF pushed, shown
<1>7. QED
  BY <1>2, <1>3, <1>4, <1>5, <1>6, RangeTurn

LEMMA VisitsContained ==
  ASSUME Asked, VisitContained \/ VisitInternal
  PROVE  Asked'
<1> DEFINE kinds == {"containsWhatQuery", "internalNodesQuery"}
<1>1. Visiting(kinds) /\ UNCHANGED nodes
  BY DEF VisitContained, VisitInternal, Visiting
<1>2. PICK f : /\ work = <<f>> /\ f = work[1] /\ f.fn \in kinds /\ f.pending # <<>>
               /\ FrameFits(nodes, m_rootID, f)
  BY <1>1, Visits1
<1>3. QueryGoesOn
  BY <1>1, Visits1
<1>4. f.fn \in RangeKinds /\ f.fn # "intersectsWithQuery"
  BY <1>2 DEF RangeKinds
<1> DEFINE x == Last(f.pending).page
           n == nodes[x]
           found == Matching(n.kids, Inside(f.query, n.kids))
           below == IF IntersectsRegion(f.query.region, n.mbr) THEN Push(n.kids, FALSE) ELSE <<>>
<1>5. \/ n.level = 0 /\ Turn(f, <<>>, found)
      \/ ContainsRegion(f.query.region, n.mbr) /\ Turn(f, <<ToVisit(x, TRUE)>>, <<>>)
      \/ n.level # 0 /\ Turn(f, below, <<>>)
  <2>1. CASE VisitContained
    BY <1>2, <2>1, Zenon DEF VisitContained, WhollyInside
  <2>2. CASE VisitInternal
    BY <1>2, <2>2, Zenon DEF VisitInternal, WhollyInside
  <2>3. QED
    BY <2>1, <2>2
<1>6. Resting(nodes, m_rootID) /\ RangeOK(nodes, m_rootID, f)
  BY <1>2, <1>4 DEF Asked, FrameFits
<1>7. x \in DOMAIN nodes /\ f.query \in Queries /\ f.query.kind # "intersectsWithQuery"
  BY <1>2, <1>4, <1>6, TopVisit
<1>8. CASE n.level = 0 /\ Turn(f, <<>>, found)
  <2>1. VisitOK(nodes, f.query, x, <<>>, found)
    BY <1>6, <1>7, <1>8, InLeaves
  <2> HIDE DEF found
  <2>2. QED
    BY <1>2, <1>3, <1>4, <1>8, <2>1, RangeTurn
<1>9. CASE ContainsRegion(f.query.region, n.mbr) /\ Turn(f, <<ToVisit(x, TRUE)>>, <<>>)
  BY <1>2, <1>3, <1>4, <1>7, <1>9, RangeTurn
<1>10. CASE n.level # 0 /\ Turn(f, below, <<>>)
  <2>1. VisitOK(nodes, f.query, x, below, <<>>)
    BY <1>6, <1>7, <1>10, InIndex
  <2> HIDE DEF below
  <2>2. QED
    BY <1>2, <1>3, <1>4, <1>10, <2>1, RangeTurn
<1>11. QED
  BY <1>5, <1>8, <1>9, <1>10

------------------------------------------------------------------------------
(***************************************************************************)
(* A query is asked when no call is under way and returns as the tree was. *)
(***************************************************************************)
LEMMA RestingWhenIdle ==
  ASSUME Called, work = <<>>
  PROVE  Resting(nodes, m_rootID)
<1>1. work = NoCalls
  BY DEF NoCalls
<1>2. Sound(nodes, m_rootID, NoCalls) /\ Boxes(nodes, NoCalls)
  BY <1>1 DEF Called, TreeInv, BoxInv
<1>3. LeafCount(nodes, Entry \ Object) = 0
  <2> DEFINE D == Entry \ Object
  <2>1. LeafCount(nodes, D) \in Nat
    BY <1>2, TreeIsSmall, LeafPlacesFinite DEF Sound
  <2>2. Tally(D) = LeafCount(nodes, D) + HandCount(work, D) /\ HandCount(work, D) = 0
    BY HandCountNone DEF Tally
  <2>3. Tally(D) = 0
    BY DEF Called
  <2> HIDE DEF D
  <2>4. LeafCount(nodes, D) = 0
    BY <2>1, <2>2, <2>3
  <2>5. QED
    BY <2>4 DEF D
<1>4. QED
  BY <1>2, <1>3 DEF Resting

LEMMA CalledWhenResting ==
  ASSUME Resting(nodes, m_rootID), ClientOK, work = <<>>
  PROVE  Called
<1>1. work = NoCalls
  BY DEF NoCalls
<1>2. TreeInv /\ BoxInv
  BY <1>1 DEF Resting, TreeInv, BoxInv
<1>3. WayInv
  BY DEF WayInv, BottomOK
<1>4. Tally(Entry \ Object) = 0
  <2> DEFINE D == Entry \ Object
  <2>1. LeafCount(nodes, D) = 0 /\ HandCount(work, D) = 0
    BY HandCountNone DEF Resting
  <2> HIDE DEF D
  <2>2. Tally(D) = 0
    BY <2>1 DEF Tally
  <2>3. QED
    BY <2>2 DEF D
<1>5. QED
  BY <1>2, <1>3, <1>4 DEF Called

LEMMA FirstRange ==
  ASSUME NEW pages, NEW root, Resting(pages, root), NEW q \in Queries, q.kind \in RangeKinds,
         NEW first, first = IF q.kind = "intersectsWithQuery"
                               /\ ~(pages[root].kids # <<>> /\ IntersectsRegion(q.region, pages[root].mbr))
                            THEN <<>> ELSE <<ToVisit(root, FALSE)>>
  PROVE  RangeOK(pages, root, QueryFrame(q, first))
<1> DEFINE f == QueryFrame(q, first)
           X == DOMAIN pages
           R == Promising(pages, q)
           visit == ToVisit(root, FALSE)
           none == {}
<1>1. Forest(X, root, Below(pages), Levels(pages)) /\ root \in X
  BY TreeIsForest DEF Resting, Forest
<1>2. visit \in Visits(pages) /\ visit.page = root /\ visit.whole = FALSE
  BY <1>1 DEF ToVisit, Visits
<1> HIDE DEF visit
<1>3. /\ first \in Seq(Visits(pages)) /\ PagesOf(first) \subseteq {root}
      /\ OncePerPage(first) /\ WholeIsInside(pages, q, first)
      /\ root \in R => root \in PagesOf(first)
  <2>1. CASE root \in R \/ q.kind # "intersectsWithQuery"
    <3>1. first = <<visit>>
      BY <2>1 DEF Promising, visit
    <3>2. <<visit>> \in Seq(Visits(pages)) /\ DOMAIN <<visit>> = {1} /\ <<visit>>[1] = visit
      BY <1>2
    <3>3. first \in Seq(Visits(pages)) /\ DOMAIN first = {1} /\ first[1] = visit
      BY <3>1, <3>2
    <3> HIDE DEF R
    <3>4. QED
      BY <1>2, <3>3 DEF PagesOf, OncePerPage, WholeIsInside
  <2>2. CASE ~(root \in R \/ q.kind # "intersectsWithQuery")
    <3>1. first = <<>>
      BY <1>1, <2>2 DEF Promising
    <3>2. <<>> \in Seq(Visits(pages)) /\ DOMAIN <<>> = {}
      OBVIOUS
    <3>3. first \in Seq(Visits(pages)) /\ DOMAIN first = {}
      BY <3>1, <3>2
    <3> HIDE DEF R
    <3>4. QED
      BY <2>2, <3>3 DEF PagesOf, OncePerPage, WholeIsInside
  <2>3. QED
    BY <2>1, <2>2
<1>4. Searched(X, root, Below(pages), none, PagesOf(first), R)
  BY <1>1, <1>3 DEF Searched
<1>5. /\ f \in QueryFrames(Visits(pages), Entry) /\ f.fn = q.kind /\ f.query = q
      /\ f.pending = first /\ f.shown = <<>>
  <2>1. <<>> \in Seq(Entry) /\ q.kind \in QueryKinds
    BY QueryOf
  <2>2. QED
    BY <1>3, <2>1 DEF QueryFrame, QueryFrames
<1>6. \A x \in Entry : Count(<<>>, {x}) = Shows(q, x, LeafCount(Part(pages, none), {x}))
  <2>1. \A x \in Entry : LeafCount(Part(pages, none), {x}) = 0 /\ Count(<<>>, {x}) = 0
    BY PartOfNone, CountNone
  <2>2. QED
    BY <2>1 DEF Shows
<1> HIDE DEF f
<1>7. none \in SUBSET X
  OBVIOUS
<1> HIDE DEF none
<1>8. RangeOK(pages, root, f)
  BY <1>3, <1>4, <1>5, <1>6, <1>7 DEF RangeOK
<1>9. QED
  BY <1>8 DEF f

LEMMA RangeEnds ==
  ASSUME NEW pages, NEW root, Resting(pages, root), NEW f, RangeOK(pages, root, f), f.pending = <<>>,
         NEW x \in Entry
  PROVE  Count(f.shown, {x}) = Shows(f.query, x, LeafCount(pages, {x}))
<1> DEFINE X == DOMAIN pages
           q == f.query
           R == Promising(pages, q)
           kids == Below(pages)
           levels == Levels(pages)
           none == {}
<1>1. q \in Queries /\ PagesOf(f.pending) = none
  BY DEF RangeOK, QueryFrames, PagesOf
<1>2. PICK V \in SUBSET X :
        /\ Searched(X, root, kids, V, none, R)
        /\ \A e \in Entry : Count(f.shown, {e}) = Shows(q, e, LeafCount(Part(pages, V), {e}))
  BY <1>1 DEF RangeOK
<1>3. Forest(X, root, kids, levels)
  BY TreeIsForest DEF Resting
<1>4. R \in SUBSET X
  BY DEF Promising
<1>5. \A y \in X : \A c \in kids[y] : c \in R => y \in R
  <2> SUFFICES ASSUME NEW y \in X, NEW c \in Children(pages[y]), c \in R
               PROVE  y \in R
    BY DEF Below
  <2>1. pages[y].level # 0 /\ c \in KidIds(pages[y].kids)
    BY DEF Children
  <2>2. PICK i \in DOMAIN pages[y].kids : c = pages[y].kids[i].id
    BY <2>1 DEF KidIds
  <2> HIDE DEF R
  <2>3. QED
    BY <1>1, <2>1, <2>2, PromisesKept DEF R
<1> HIDE DEF X, R, kids, levels, q, none
<1>6. R \subseteq V
  BY <1>2, <1>3, <1>4, <1>5, SearchEnds DEF none
<1>7. CASE Qualifies(q, x)
  <2>1. ASSUME NEW p \in DOMAIN pages \ V, pages[p].level = 0, NEW i \in DOMAIN pages[p].kids
        PROVE  pages[p].kids[i] \notin {x}
    <3>1. p \notin R
      BY <1>6, <2>1
    <3>2. pages[p].level = 0 /\ Qualifies(q, pages[p].kids[i]) => p \in R
      BY <1>1, PromisesKept DEF R
    <3>3. QED
      BY <1>7, <2>1, <3>1, <3>2
  <2>2. LeafCount(Part(pages, V), {x}) = LeafCount(pages, {x})
    BY <2>1, <1>2, PartHasAll DEF X
  <2>3. QED
    BY <1>2, <2>2 DEF q
<1>8. CASE ~Qualifies(q, x)
  BY <1>2, <1>8 DEF Shows, q
<1>9. QED
  BY <1>7, <1>8

LEMMA VisitsNearest ==
  ASSUME Asked, VisitNearest
  PROVE  Asked'
<1> DEFINE kinds == {"nearestNeighborQuery"}
<1>1. Visiting(kinds) /\ UNCHANGED nodes
  BY DEF VisitNearest
<1>2. PICK f : /\ work = <<f>> /\ f = work[1] /\ f.fn \in kinds /\ f.pending # <<>>
               /\ FrameFits(nodes, m_rootID, f)
  BY <1>1, Visits1
<1>3. QueryGoesOn
  BY <1>1, Visits1
<1>4. f.fn = "nearestNeighborQuery" /\ NearOK(nodes, m_rootID, f) /\ Resting(nodes, m_rootID)
  BY <1>2 DEF FrameFits, Asked
<1>4a. PICK q \in Queries : \E queue, shown :
         /\ f = QueryRecord(q, queue, shown)
         /\ q.k # 0 => NearFits(nodes, m_rootID, q, queue, shown)
  BY <1>4 DEF NearOK
<1>5. PICK queue, shown :
        /\ f = QueryRecord(q, queue, shown)
        /\ q.k # 0 => NearFits(nodes, m_rootID, q, queue, shown)
  BY <1>4a
<1>6. f.fn = q.kind /\ f.query = q /\ f.pending = queue /\ f.shown = shown
  BY <1>5 DEF QueryRecord
<1>7. PICK k \in Nearest(queue) :
        LET first == queue[k]
            others == RemoveAt(queue, k)
        IN  Become(<<IF EnoughFound(f, first)
                       THEN QueryRecord(q, <<>>, shown)
                       ELSE IF first.kind = "node"
                         THEN QueryRecord(q, others \o Pushed(f, nodes[first.item]), shown)
                         ELSE QueryRecord(q, others, Append(shown, first.item))>>)
  <2>1. PICK k \in Nearest(f.pending) :
          LET first == f.pending[k]
              others == RemoveAt(f.pending, k)
          IN  Become(<<IF EnoughFound(f, first)
                         THEN [f EXCEPT !.pending = <<>>]
                         ELSE IF first.kind = "node"
                           THEN [f EXCEPT !.pending = others \o Pushed(f, nodes[first.item])]
                           ELSE [f EXCEPT !.pending = others, !.shown = Append(@, first.item)]>>)
    BY <1>2, Zenon DEF VisitNearest
  <2> DEFINE n == nodes[queue[k].item]
             rest == RemoveAt(queue, k)
             more == rest \o Pushed(f, n)
             one == Append(f.shown, queue[k].item)
             none == <<>>
  <2>2. k \in Nearest(queue) /\ f.pending[k] = queue[k] /\ RemoveAt(f.pending, k) = rest
    BY <1>6
  <2>3. Become(<<IF EnoughFound(f, queue[k])
                   THEN [f EXCEPT !.pending = none]
                   ELSE IF queue[k].kind = "node"
                     THEN [f EXCEPT !.pending = more]
                     ELSE [f EXCEPT !.pending = rest, !.shown = one]>>)
    BY <2>1, <2>2, Zenon
  <2>4. f \in [fn : {q.kind}, query : {q}, pending : {queue}, shown : {shown}]
    BY <1>5 DEF QueryRecord
  <2>5. one = Append(shown, queue[k].item)
    BY <1>6
  <2> HIDE DEF rest, more, one, none
  <2>6. [f EXCEPT !.pending = none] = QueryRecord(q, none, shown)
    BY <2>4 DEF QueryRecord
  <2>7. [f EXCEPT !.pending = more] = QueryRecord(q, more, shown)
    BY <2>4 DEF QueryRecord
  <2>8. [f EXCEPT !.pending = rest, !.shown = one] = QueryRecord(q, rest, one)
    <3> DEFINE g == [f EXCEPT !.pending = rest, !.shown = one]
    <3>1. g \in [fn : {q.kind}, query : {q}, pending : {rest}, shown : {one}]
      BY <2>4
    <3> HIDE DEF g
    <3>2. g = QueryRecord(q, rest, one)
      BY <3>1 DEF QueryRecord
    <3>3. QED
      BY <3>2, Zenon DEF g
  <2>9. Become(<<IF EnoughFound(f, queue[k])
                   THEN QueryRecord(q, none, shown)
                   ELSE IF queue[k].kind = "node"
                     THEN QueryRecord(q, more, shown)
                     ELSE QueryRecord(q, rest, Append(shown, queue[k].item))>>)
    BY <2>3, <2>5, <2>6, <2>7, <2>8, Zenon
  <2>10. QED
    BY <2>2, <2>9, Zenon DEF more, rest, none
<1> DEFINE first == queue[k]
           others == RemoveAt(queue, k)
           a == IF EnoughFound(f, first) THEN <<>>
                ELSE IF first.kind = "node" THEN others \o Pushed(f, nodes[first.item]) ELSE others
           b == IF ~EnoughFound(f, first) /\ first.kind # "node" THEN Append(shown, first.item) ELSE shown
           g == QueryRecord(q, a, b)
<1>8. Become(<<g>>)
  BY <1>7
<1>9. q.k # 0 => NearFits(nodes, m_rootID, q, a, b)
  <2> SUFFICES ASSUME q.k # 0
               PROVE  NearFits(nodes, m_rootID, q, a, b)
    OBVIOUS
  <2>1. NearFits(nodes, m_rootID, q, queue, shown)
    BY <1>5
  <2>2. IsFirst(queue, k)
    BY <1>7 DEF IsFirst, Nearest
  <2>3. EnoughFound(f, first)
          <=> Len(shown) >= q.k /\ first.minDist > (IF shown = <<>> THEN 0 ELSE DistanceTo(q, Last(shown)))
    BY <1>6 DEF EnoughFound, KNearest, DistanceTo
  <2>4. shown \in Seq(Entry) /\ q.k \in Nat
    BY <2>1, QueryOf DEF NearFits
  <2>5. EnoughFound(f, first)
          <=> Len(shown) >= q.k /\ (shown # <<>> => first.minDist > DistanceTo(q, Last(shown)))
    <3>1. shown = <<>> => ~(Len(shown) >= q.k)
      BY <2>4
    <3>2. QED
      BY <2>3, <3>1
  <2>6. CASE EnoughFound(f, first)
    <3> DEFINE none == <<>>
    <3>1. a = none /\ b = shown
      BY <2>6
    <3> HIDE DEF none, a, b
    <3>2. NearFits(nodes, m_rootID, q, none, shown)
      BY <1>4, <2>1, <2>2, <2>5, <2>6, NearStops DEF none
    <3>3. QED
      BY <3>1, <3>2
  <2>7. first \in NearEntries(nodes) /\ first.kind \in {"node", "data"}
    <3>1. first \in NearEntries(nodes)
      BY <2>1, <2>2 DEF NearFits, IsFirst
    <3>2. QED
      BY <3>1, NearEntryOf
  <2>8. CASE ~EnoughFound(f, first) /\ first.kind = "data"
    <3>1. a = others /\ b = Append(shown, first.item)
      BY <2>8
    <3> HIDE DEF a, b
    <3>2. NearFits(nodes, m_rootID, q, others, Append(shown, first.item))
      BY <1>4, <2>1, <2>2, <2>5, <2>8, NearShows
    <3>3. QED
      BY <3>1, <3>2
  <2>9. CASE ~EnoughFound(f, first) /\ first.kind = "node"
    <3>1. a = others \o Pushed(f, nodes[first.item]) /\ b = shown
      BY <2>9
    <3> HIDE DEF a, b
    <3>2. NearFits(nodes, m_rootID, q, others \o Pushed(f, nodes[first.item]), shown)
      BY <1>4, <1>6, <2>1, <2>2, <2>9, NearOpens
    <3>3. QED
      BY <3>1, <3>2
  <2>10. QED
    BY <2>6, <2>7, <2>8, <2>9
<1> HIDE DEF a, b
<1>10. NearOK(nodes, m_rootID, g) /\ g.fn = f.fn
  BY <1>6, <1>9 DEF NearOK, QueryRecord
<1> HIDE DEF g
<1>11. work' = <<g>>
  BY <1>2, <1>8, BecomesOne
<1>12. FrameFits(nodes, m_rootID, g)
  BY <1>4, <1>10 DEF FrameFits, QueryKinds, RangeKinds
<1>13. QED
  BY <1>3, <1>11, <1>12, AskedNext

LEMMA FirstJoin ==
  ASSUME NEW pages, NEW root, Resting(pages, root), NEW q \in Queries, q.kind = "selfJoinQuery"
  PROVE  JoinOK(pages, root, QueryFrame(q, <<<<root, root, q.region>>>>))
BY DEF JoinOK, QueryFrame, QueryRecord

LEMMA VisitsPair ==
  ASSUME Asked, VisitPair
  PROVE  Asked'
<1> DEFINE kinds == {"selfJoinQuery"}
<1>1. Visiting(kinds) /\ UNCHANGED nodes
  BY DEF VisitPair
<1>2. PICK f : /\ work = <<f>> /\ f = work[1] /\ f.fn \in kinds /\ f.pending # <<>>
               /\ FrameFits(nodes, m_rootID, f)
  BY <1>1, Visits1
<1>3. QueryGoesOn
  BY <1>1, Visits1
<1>4. PICK q \in Queries : \E pending, shown : f = QueryRecord(q, pending, shown)
  BY <1>2 DEF FrameFits, JoinOK
<1>4a. PICK pending, shown : f = QueryRecord(q, pending, shown)
  BY <1>4
<1>5. PICK a, b : Become(<<[f EXCEPT !.pending = Front(@) \o a, !.shown = @ \o b]>>)
  <2>1. \E a, b : Turn(f, a, b)
    BY <1>2 DEF VisitPair
  <2>2. QED
    BY <2>1 DEF Turn
<1> DEFINE c == Front(f.pending) \o a
           s == f.shown \o b
           g == [f EXCEPT !.pending = c, !.shown = s]
<1>6. Become(<<g>>)
  BY <1>5
<1>7. f \in [fn : {q.kind}, query : {q}, pending : {pending}, shown : {shown}] /\ f.fn = q.kind
  BY <1>4a DEF QueryRecord
<1> HIDE DEF c, s
<1>8. g \in [fn : {q.kind}, query : {q}, pending : {c}, shown : {s}]
  BY <1>7
<1> HIDE DEF g
<1>9. g = QueryRecord(q, c, s) /\ g.fn = q.kind
  BY <1>8 DEF QueryRecord
<1>10. FrameFits(nodes, m_rootID, g)
  BY <1>2, <1>7, <1>9 DEF FrameFits, JoinOK, QueryKinds, RangeKinds
<1>11. work' = <<g>>
  BY <1>2, <1>6, BecomesOne
<1>12. QED
  BY <1>3, <1>10, <1>11, AskedNext
------------------------------------------------------------------------------
\* No call has what is no object of a client's.
LEMMA OnlyObjects ==
  ASSUME ReinsertsSome, TreeInv, ClientOK, WayInv, TreeInv', [Call \/ Execute]_vars,
         NEW D, \A o \in Object : o \notin D, Tally(D) = 0
  PROVE  Tally(D)' = 0
<1>1. todo \in Seq(Object) /\ \A o \in Object : One(o, D) = 0
  BY DEF One, ClientOK
<1>2. CASE InsertData
  <2>1. Tally(D) \in Nat /\ todo[1] \in Object /\ Tally(D)' = Tally(D) + One(todo[1], D)
    BY <1>1, <1>2, TallyInsertData
  <2>2. QED
    BY <1>1, <2>1
<1>3. ASSUME NEW o \in Object, DeleteData(o)
      PROVE  Tally(D)' = 0
  <2>1. Tally(D)' \in Nat /\ Tally(D) = Tally(D)' + One(o, D)
    BY <1>3, TallyDeleteData
  <2>2. QED
    BY <1>1, <2>1
<1>4. CASE UNCHANGED <<nodes, work>>
  <2>1. Tally(D)' = Tally(D)
    BY <1>4 DEF Tally, LeafCount, LeafPlaces, HandCount, Count, Places, Hands, Hand
  <2>2. QED
    BY <2>1
<1>5. CASE Execute
  BY <1>5, TallyStaysTheSame
<1>6. CASE \E o \in Object : DeleteNothing(o)
  <2>1. UNCHANGED <<nodes, work>>
    BY <1>6 DEF DeleteNothing
  <2>2. QED
    BY <1>4, <2>1
<1>7. CASE UNCHANGED vars
  <2>1. UNCHANGED <<nodes, work>>
    BY <1>7 DEF vars
  <2>2. QED
    BY <1>4, <2>1
<1>8. QED
  BY <1>2, <1>3, <1>5, <1>6, <1>7 DEF Call

LEMMA CalledNext ==
  ASSUME ReinsertsSome, Called, [Call \/ Execute]_vars
  PROVE  Called'
<1>1. TreeInv /\ ClientOK /\ WayInv /\ BoxInv /\ [Next]_vars
  BY DEF Called, Next
<1>2. TreeInv' /\ ClientOK' /\ WayInv' /\ BoxInv'
  BY <1>1, TreeStep, ClientStep, WayStep, BoxStep
<1>3. ASSUME NEW D, D = Entry \ Object
      PROVE  Tally(D)' = 0
  <2>1. Tally(D) = 0 /\ \A o \in Object : o \notin D
    BY <1>3 DEF Called
  <2>2. QED
    BY <1>1, <1>2, <2>1, OnlyObjects
<1>4. Tally(Entry \ Object)' = 0
  BY <1>3
<1>5. QED
  BY <1>2, <1>4 DEF Called

\* Under way is either calls or a query.
LEMMA EitherWay ==
  /\ Called => ~ExecuteQuery
  /\ Asked => ~Call /\ ~Execute /\ ~Ask
<1>1. ASSUME Called, ExecuteQuery
      PROVE  FALSE
  <2>1. work # <<>> /\ work[1].fn \in QueryKinds
    BY <1>1 DEF ExecuteQuery, VisitInRange, VisitSubTree, VisitContained, VisitInternal, VisitNearest,
                VisitPair, ReturnFromQuery, Answered, Visiting, Step, Running, QueryKinds
  <2>2. work[1] \in Frame
    BY <1>1, <2>1 DEF Called, TreeInv, Sound, StackOK
  <2>3. work[1].fn \notin QueryKinds
    BY <2>2 DEF QueryKinds, Frame, ImplFrames, ChooseFrames, InsertFrames, AdjustFrames, Adjust2Frames,
                CondenseFrames, DeleteFrames, ReturnFrames
  <2>4. QED
    BY <2>1, <2>3
<1>2. ASSUME Asked
      PROVE  ~Call /\ ~Execute /\ ~Ask
  <2>1. PICK f : work = <<f>> /\ f.fn \in QueryKinds
    BY <1>2 DEF Asked, FrameFits
  <2>2. work # <<>> /\ work[1].fn \in QueryKinds
    BY <2>1
  <2>3. ~Call /\ ~Ask
    BY <2>2 DEF Call, InsertData, DeleteData, DeleteNothing, Ask
  <2>4. ASSUME Execute
        PROVE  FALSE
    <3>1. work[1].fn \in {"insertData_impl", "chooseSubtree", "insertData", "adjustTree", "adjustTree2",
                          "condenseTree", "deleteNode", "return"}
      BY <2>4 DEF Execute, Reinsert, Descend, Arrive, InsertFits, ForcedReinsert, SplitRoot, SplitNode,
                  AdjustTree, AdjustTreeAfterSplit, CondenseTree, CollapseRoot, CondenseRoot, DeleteNode,
                  Finish, Inserting, Overflowing, Step, Running
    <3>2. QED
      BY <2>2, <3>1 DEF QueryKinds
  <2>5. QED
    BY <2>3, <2>4
<1>3. QED
  BY <1>1, <1>2

LEMMA Asks ==
  ASSUME Called, Ask
  PROVE  Asked'
<1>1. Resting(nodes, m_rootID)
  BY RestingWhenIdle DEF Ask
<1>2. nodes' = nodes /\ m_rootID' = m_rootID /\ ClientOK' 
  BY DEF Ask, client, Called, ClientOK
<1>3. PICK q \in Queries : work' = <<QueryFrame(q, FirstPending(q))>>
  BY DEF Ask
<1> DEFINE f == QueryFrame(q, FirstPending(q))
<1>4. f.fn = q.kind /\ q.kind \in QueryKinds
  BY QueryOf DEF QueryFrame
<1>5. ASSUME q.kind \in RangeKinds
      PROVE  FrameFits(nodes, m_rootID, f)
  <2> DEFINE first == FirstPending(q)
  <2>1. first = IF q.kind = "intersectsWithQuery"
                   /\ ~(nodes[m_rootID].kids # <<>> /\ IntersectsRegion(q.region, nodes[m_rootID].mbr))
                THEN <<>> ELSE <<ToVisit(m_rootID, FALSE)>>
    <3>1. CASE q.kind = "intersectsWithQuery"
      BY <3>1 DEF FirstPending, RootMayMatch
    <3>2. CASE q.kind # "intersectsWithQuery"
      <4>1. first = <<ToVisit(m_rootID, FALSE)>>
        BY <1>5, <3>2 DEF FirstPending, RangeKinds
      <4>2. QED
        BY <3>2, <4>1
    <3>3. QED
      BY <3>1, <3>2
  <2> HIDE DEF first
  <2>2. RangeOK(nodes, m_rootID, QueryFrame(q, first))
    BY <1>1, <1>5, <2>1, FirstRange
  <2>3. QED
    BY <1>4, <1>5, <2>2 DEF FrameFits, RangeKinds, first
<1>6. ASSUME q.kind = "nearestNeighborQuery"
      PROVE  FrameFits(nodes, m_rootID, f)
  <2>1. FirstPending(q) = <<NNEntry("node", m_rootID, 0)>>
    BY <1>6 DEF FirstPending
  <2>2. NearOK(nodes, m_rootID, f)
    BY <1>1, <1>6, <2>1, FirstNear
  <2> HIDE DEF f
  <2>3. QED
    BY <1>4, <1>6, <2>2 DEF FrameFits, RangeKinds
<1>7. ASSUME q.kind = "selfJoinQuery"
      PROVE  FrameFits(nodes, m_rootID, f)
  <2>1. FirstPending(q) = <<<<m_rootID, m_rootID, q.region>>>>
    BY <1>7 DEF FirstPending
  <2>2. JoinOK(nodes, m_rootID, f)
    BY <1>1, <1>7, <2>1, FirstJoin
  <2> HIDE DEF f
  <2>3. QED
    BY <1>4, <1>7, <2>2 DEF FrameFits, RangeKinds
<1> HIDE DEF f
<1>8. FrameFits(nodes, m_rootID, f)
  BY <1>4, <1>5, <1>6, <1>7 DEF QueryKinds, RangeKinds
<1>9. Resting(nodes, m_rootID)' /\ work' = <<f>> /\ FrameFits(nodes', m_rootID', f)
  BY <1>1, <1>2, <1>3, <1>8 DEF f
<1>10. QED
  BY <1>2, <1>9 DEF Asked

LEMMA Returns ==
  ASSUME Asked, ReturnFromQuery
  PROVE  Called'
<1>1. PICK f : work = <<f>>
  BY DEF Asked
<1>2. work' = <<>>
  <2>1. Tail(work) = <<>> /\ work' = <<>> \o Tail(work)
    BY <1>1 DEF ReturnFromQuery, Become
  <2>2. QED
    BY <2>1
<1>3. nodes' = nodes /\ m_rootID' = m_rootID /\ UNCHANGED client
  BY DEF ReturnFromQuery
<1>4. Resting(nodes', m_rootID') /\ ClientOK'
  BY <1>3 DEF Asked, ClientOK, client
<1>5. (Resting(nodes, m_rootID) /\ ClientOK /\ work = <<>>)'
  BY <1>2, <1>4
<1>6. QED
  BY <1>5, CalledWhenResting, PTL

LEMMA QueryStep ==
  ASSUME ReinsertsSome, QueryInv, [QueriedNext]_vars
  PROVE  QueryInv'
<1>1. ASSUME Called
      PROVE  QueryInv'
  <2>1. CASE Ask
    BY <1>1, <2>1, Asks DEF QueryInv
  <2>2. CASE [Call \/ Execute]_vars
    BY <1>1, <2>2, CalledNext DEF QueryInv
  <2>3. QED
    BY <1>1, <2>1, <2>2, EitherWay DEF QueriedNext
<1>2. ASSUME Asked
      PROVE  QueryInv'
  <2>1. CASE ReturnFromQuery
    BY <1>2, <2>1, Returns DEF QueryInv
  <2>2. CASE ExecuteQuery /\ ~ReturnFromQuery
    BY <1>2, <2>2, VisitsInRange, VisitsSubTree, VisitsContained, VisitsNearest, VisitsPair, Zenon
       DEF QueryInv, ExecuteQuery
  <2>3. CASE UNCHANGED vars
    <3>1. nodes' = nodes /\ m_rootID' = m_rootID /\ work' = work /\ ClientOK'
      BY <1>2, <2>3 DEF vars, client, Asked, ClientOK
    <3>2. Resting(nodes', m_rootID') /\ \E f : work' = <<f>> /\ FrameFits(nodes', m_rootID', f)
      BY <1>2, <3>1 DEF Asked
    <3>3. QED
      BY <3>1, <3>2 DEF QueryInv, Asked
  <2>4. QED
    BY <1>2, <2>1, <2>2, <2>3, EitherWay DEF QueriedNext
<1>3. QED
  BY <1>1, <1>2 DEF QueryInv

(***************************************************************************)
(* Calls and queries keep QueryInv: between a query's turns the tree is as *)
(* the calls left it, and what was shown is what qualifies in the nodes    *)
(* visited, while all else that may qualify is still to be visited.        *)
(***************************************************************************)
THEOREM QueriesKeepTheTree ==
  ASSUME ReinsertsSome
  PROVE  QueriedSpec => []QueryInv
<1>1. Init => QueryInv
  <2> SUFFICES ASSUME Init PROVE Called
    BY DEF QueryInv
  <2>1. TreeInv /\ ClientOK /\ WayInv /\ BoxInv
    BY InitSound, InitClient, WayAtFirst, BoxesAtFirst
  <2>2. Tally(Entry \ Object) = 0
    BY LeavesAtFirst
  <2>3. QED
    BY <2>1, <2>2 DEF Called
<1>2. QueryInv /\ [QueriedNext]_vars => QueryInv'
  BY QueryStep
<1>3. QED
  BY <1>1, <1>2, PTL DEF QueriedSpec

------------------------------------------------------------------------------
(***************************************************************************)
(* What is shown, by the time the query returns.                           *)
(***************************************************************************)
LEMMA AnsweredIsAsked ==
  ASSUME QueryInv, Answered
  PROVE  Asked /\ \E f : /\ work = <<f>> /\ work[1] = f /\ f.pending = <<>>
                         /\ FrameFits(nodes, m_rootID, f)
<1>1. work # <<>> /\ work[1].fn \in QueryKinds /\ work[1].pending = <<>>
  BY DEF Answered
<1>2. ~Called
  <2> SUFFICES ASSUME Called PROVE FALSE
    OBVIOUS
  <2>1. work[1] \in Frame
    BY <1>1 DEF Called, TreeInv, Sound, StackOK
  <2>2. QED
    BY <1>1, <2>1 DEF QueryKinds, Frame, ImplFrames, ChooseFrames, InsertFrames, AdjustFrames, Adjust2Frames,
                CondenseFrames, DeleteFrames, ReturnFrames
<1>3. PICK f : work = <<f>> /\ FrameFits(nodes, m_rootID, f)
  BY <1>2 DEF QueryInv, Asked
<1>4. work[1] = f
  BY <1>3
<1>5. QED
  BY <1>1, <1>2, <1>3, <1>4 DEF QueryInv

LEMMA TimesIsCount ==
  ASSUME NEW T, NEW s \in Seq(T), NEW x
  PROVE  Times(x, s) = Count(s, {x})
<1>1. {k \in DOMAIN s : s[k] = x} = Places(s, {x})
  BY DEF Places
<1>2. QED
  BY <1>1 DEF Times, Count

\* Of a query's frame there are no objects in hand.
LEMMA HeldInLeaves ==
  ASSUME Resting(nodes, m_rootID), NEW f, work = <<f>>, f.fn \in QueryKinds
  PROVE  /\ \A x : TimesHeld(x) = LeafCount(nodes, {x})
         /\ \A D : {x \in ObjectPlaces : nodes[x[1]].kids[x[2]] \in D} = LeafPlaces(nodes, D)
         /\ ObjectHands = {}
<1>1. ObjectHands = {}
  <2>1. \A k \in DOMAIN work : work[k] = f
    OBVIOUS
  <2>2. InHand(f) = <<>>
    BY DEF InHand, QueryKinds
  <2>3. QED
    BY <2>1, <2>2 DEF ObjectHands
<1>2. \A D : {x \in ObjectPlaces : nodes[x[1]].kids[x[2]] \in D} = LeafPlaces(nodes, D)
  BY DEF LeafPlaces, ObjectPlaces
<1>3. ASSUME NEW x
      PROVE  TimesHeld(x) = LeafCount(nodes, {x})
  <2> DEFINE A == {y \in ObjectPlaces : nodes[y[1]].kids[y[2]] = x}
             B == {k \in ObjectHands : InHand(work[k])[2] = x}
  <2>1. TimesHeld(x) = Cardinality(A) + Cardinality(B)
    BY DEF TimesHeld, Occurrences, ObjectHands, ObjectPlaces
  <2>2. A = LeafPlaces(nodes, {x})
    BY DEF LeafPlaces, ObjectPlaces
  <2>3. B = {}
    BY <1>1
  <2> HIDE DEF A, B
  <2>4. Cardinality(B) = 0
    BY <2>3, FS_EmptySet
  <2>5. Cardinality(A) \in Nat
    <3>1. LeafCount(nodes, {x}) \in Nat
      BY TreeIsSmall, LeafPlacesFinite DEF Resting, Sound
    <3>2. QED
      BY <2>2, <3>1 DEF LeafCount
  <2>6. QED
    BY <2>1, <2>2, <2>4, <2>5 DEF LeafCount
<1>4. QED
  BY <1>1, <1>2, <1>3

LEMMA HeldAreEntries ==
  ASSUME Resting(nodes, m_rootID)
  PROVE  ObjectsHeld \subseteq Entry
<1> SUFFICES ASSUME NEW p \in DOMAIN nodes, NEW x \in ToSet(nodes[p].kids)
             PROVE  x \in Entry
  BY DEF ObjectsHeld
<1>1. nodes[p].kids \in Seq(Entry)
  BY NodesTyped DEF Resting, Sound
<1>2. QED
  BY <1>1 DEF ToSet

LEMMA RangeAnswer ==
  ASSUME QueryInv
  PROVE  RangeQueriesExact
<1> SUFFICES ASSUME Answering(RangeKinds)
             PROVE  LET q == work[1].query
                        s == work[1].shown
                    IN  /\ q.kind = work[1].fn
                        /\ \A x \in ObjectsHeld \cup ToSet(s) :
                             Times(x, s) = IF Qualifies(q, x) THEN TimesHeld(x) ELSE 0
  BY DEF RangeQueriesExact, IntersectionQueriesExact, ContainmentQueriesExact, ShownExactly, Qualifies,
         Answering, RangeKinds
<1>1. PICK f : work = <<f>> /\ work[1] = f /\ f.pending = <<>> /\ FrameFits(nodes, m_rootID, f)
  BY AnsweredIsAsked DEF Answering
<1>2. f.fn \in RangeKinds /\ Resting(nodes, m_rootID)
  BY <1>1, AnsweredIsAsked DEF Answering, Asked
<1>3. RangeOK(nodes, m_rootID, f) /\ f.fn \in QueryKinds
  BY <1>1, <1>2 DEF FrameFits
<1>4. f.shown \in Seq(Entry) /\ f.query.kind = f.fn
  BY <1>3 DEF RangeOK, QueryFrames
<1>5. ASSUME NEW x \in ObjectsHeld \cup ToSet(f.shown)
      PROVE  Times(x, f.shown) = IF Qualifies(f.query, x) THEN TimesHeld(x) ELSE 0
  <2>1. x \in Entry
    BY <1>2, <1>4, HeldAreEntries DEF ToSet
  <2>2. Times(x, f.shown) = Count(f.shown, {x})
    BY <1>4, TimesIsCount
  <2>3. TimesHeld(x) = LeafCount(nodes, {x})
    BY <1>1, <1>2, <1>3, HeldInLeaves
  <2>4. Count(f.shown, {x}) = Shows(f.query, x, LeafCount(nodes, {x}))
    BY <1>1, <1>2, <1>3, <2>1, RangeEnds
  <2>5. QED
    BY <2>2, <2>3, <2>4 DEF Shows
<1>6. QED
  BY <1>1, <1>4, <1>5

(***************************************************************************)
(* Range queries show exactly the objects that qualify, though they read   *)
(* only nodes whose boxes meet the query and report whole subtrees unread, *)
(* whatever calls filled the index.                                        *)
(***************************************************************************)
THEOREM RangeQueriesAreExact ==
  ASSUME ReinsertsSome
  PROVE  QueriedSpec => []RangeQueriesExact
BY RangeAnswer, QueriesKeepTheTree, PTL
\* What is nearer than an object, in leaves.
LEMMA NearerHeld ==
  ASSUME Resting(nodes, m_rootID), NEW f, work = <<f>>, f.fn \in QueryKinds,
         NEW q \in Queries, NEW x \in Entry
  PROVE  Occurrences(0, LAMBDA e : MinimumDistance(q.region, e.mbr) < MinimumDistance(q.region, x.mbr))
           = LeafCount(nodes, Nearer(q, x))
<1> DEFINE D == Nearer(q, x)
           places == {y \in ObjectPlaces : MinimumDistance(q.region, nodes[y[1]].kids[y[2]].mbr)
                                             < MinimumDistance(q.region, x.mbr)}
           hands == {k \in ObjectHands : MinimumDistance(q.region, InHand(work[k])[2].mbr)
                                           < MinimumDistance(q.region, x.mbr)}
<1>1. Occurrences(0, LAMBDA e : MinimumDistance(q.region, e.mbr) < MinimumDistance(q.region, x.mbr))
        = Cardinality(places) + Cardinality(hands)
  BY Zenon DEF Occurrences, ObjectHands, ObjectPlaces
<1>2. places = LeafPlaces(nodes, D)
  <2>1. {y \in ObjectPlaces : nodes[y[1]].kids[y[2]] \in D} = LeafPlaces(nodes, D)
    BY HeldInLeaves, Zenon
  <2>2. ASSUME NEW y \in ObjectPlaces
        PROVE  nodes[y[1]].kids[y[2]] \in Entry
    <3>1. PICK p \in DOMAIN nodes : y \in {p} \X DOMAIN nodes[p].kids
      BY DEF ObjectPlaces
    <3>2. y[1] = p /\ y[2] \in DOMAIN nodes[p].kids /\ nodes[p].kids \in Seq(Entry)
      BY <3>1, NodesTyped DEF Resting, Sound
    <3>3. QED
      BY <3>2
  <2>3. \A y \in ObjectPlaces : nodes[y[1]].kids[y[2]] \in D
          <=> MinimumDistance(q.region, nodes[y[1]].kids[y[2]].mbr) < MinimumDistance(q.region, x.mbr)
    BY <2>2, Zenon DEF Nearer, DistanceTo
  <2> HIDE DEF D
  <2>4. places = {y \in ObjectPlaces : nodes[y[1]].kids[y[2]] \in D}
    BY <2>3
  <2>5. QED
    BY <2>1, <2>4
<1>3. hands = {}
  BY HeldInLeaves
<1> HIDE DEF places, hands, D
<1>4. Cardinality(hands) = 0
  BY <1>3, FS_EmptySet
<1>5. Cardinality(places) = LeafCount(nodes, D)
  BY <1>2 DEF LeafCount
<1>6. LeafCount(nodes, D) \in Nat
  BY TreeIsSmall, LeafPlacesFinite DEF Resting, Sound
<1>7. QED
  BY <1>1, <1>4, <1>5, <1>6 DEF D

\* A query for at least one neighbour.
AsksForSome == \A q \in Queries : q.kind = "nearestNeighborQuery" => q.k # 0

LEMMA NearAnswer ==
  ASSUME AsksForSome, QueryInv
  PROVE  NearestNeighborsExact
<1> DEFINE nearer(q, x) ==
      Occurrences(0, LAMBDA e : MinimumDistance(q.region, e.mbr) < MinimumDistance(q.region, x.mbr))
<1> SUFFICES ASSUME Answering({"nearestNeighborQuery"})
             PROVE  LET q == work[1].query
                        s == work[1].shown
                    IN  /\ \A x \in ObjectsHeld \cup ToSet(s) :
                             Times(x, s) = IF nearer(q, x) < q.k THEN TimesHeld(x) ELSE 0
                        /\ InOrderShown(q, s)
  BY DEF NearestNeighborsExact, ShownExactly, InOrderShown, DistanceTo
<1>1. PICK f : work = <<f>> /\ work[1] = f /\ f.pending = <<>> /\ FrameFits(nodes, m_rootID, f)
  BY AnsweredIsAsked DEF Answering
<1>2. f.fn = "nearestNeighborQuery" /\ Resting(nodes, m_rootID)
  BY <1>1, AnsweredIsAsked DEF Answering, Asked
<1>3. NearOK(nodes, m_rootID, f) /\ f.fn \in QueryKinds
  BY <1>1, <1>2 DEF FrameFits
<1>3a. PICK q \in Queries : \E queue, shown :
         /\ f = QueryRecord(q, queue, shown)
         /\ q.k # 0 => NearFits(nodes, m_rootID, q, queue, shown)
  BY <1>3 DEF NearOK
<1>4. PICK queue, shown :
        /\ f = QueryRecord(q, queue, shown)
        /\ q.k # 0 => NearFits(nodes, m_rootID, q, queue, shown)
  BY <1>3a
<1>5. f.query = q /\ f.shown = shown /\ queue = f.pending /\ f.fn = q.kind
  BY <1>4 DEF QueryRecord
<1>6. NearFits(nodes, m_rootID, q, queue, shown)
  BY <1>2, <1>4, <1>5 DEF AsksForSome
<1>7. Emptied(queue)
  BY <1>1, <1>5 DEF Emptied
<1>8. NearDone(nodes, q, queue, shown)
  BY <1>2, <1>6, <1>7, NearEnds
<1>9. shown \in Seq(Entry) /\ InOrderShown(q, shown)
  BY <1>6 DEF NearFits
<1>10. ASSUME NEW x \in ObjectsHeld \cup ToSet(shown)
       PROVE  Times(x, shown) = IF nearer(q, x) < q.k THEN TimesHeld(x) ELSE 0
  <2>1. x \in Entry
    BY <1>2, <1>9, HeldAreEntries DEF ToSet
  <2>2. Times(x, shown) = Count(shown, {x})
    BY <1>9, TimesIsCount
  <2>3. TimesHeld(x) = LeafCount(nodes, {x})
    BY <1>1, <1>2, <1>3, HeldInLeaves
  <2>4. nearer(q, x) = LeafCount(nodes, Nearer(q, x))
    BY <1>1, <1>2, <1>3, <2>1, NearerHeld
  <2> HIDE DEF nearer
  <2>5. QED
    BY <1>8, <2>1, <2>2, <2>3, <2>4 DEF NearDone
<1> HIDE DEF nearer
<1>11. QED
  BY <1>1, <1>5, <1>9, <1>10

(***************************************************************************)
(* A nearest-neighbour query for one or more shows exactly the objects     *)
(* than which fewer than k are nearer, so every one as near as the k-th    *)
(* too, in the order of their distances, though it stops at the first      *)
(* entry of its queue that is farther, whatever calls filled the index and *)
(* in whatever order the queue gives what is equally near.                 *)
(***************************************************************************)
THEOREM NearestNeighborsAreExact ==
  ASSUME ReinsertsSome, AsksForSome
  PROVE  QueriedSpec => []NearestNeighborsExact
BY NearAnswer, QueriesKeepTheTree, PTL
==============================================================================
