------------------------- MODULE RTreeContractProofs -------------------------
(***************************************************************************)
(* Proofs about what the calls of RTree do for their client, on top of     *)
(* RTreeProofs: no object is lost or doubled.                              *)
(***************************************************************************)
EXTENDS RTreeProofs
LOCAL INSTANCE SequencesExt

------------------------------------------------------------------------------
(***************************************************************************)
(* Counting: how many of a list's entries are in D.                        *)
(***************************************************************************)
LEMMA OneToOne ==
  ASSUME NEW A, IsFiniteSet(A), NEW B, IsFiniteSet(B), NEW f \in [A -> B],
         \A x, y \in A : f[x] = f[y] => x = y, \A b \in B : \E a \in A : f[a] = b
  PROVE  Cardinality(B) = Cardinality(A)
<1> DEFINE g == [b \in B |-> CHOOSE a \in A : f[a] = b]
<1>1. \A b \in B : g[b] \in A /\ f[g[b]] = b
  OBVIOUS
<1>2. g \in [B -> A] /\ \A x, y \in B : g[x] = g[y] => x = y
  BY <1>1
<1> HIDE DEF g
<1>3. ~(Cardinality(B) < Cardinality(A))
  BY FS_PigeonHole
<1>4. ~(Cardinality(A) < Cardinality(B))
  BY <1>2, FS_PigeonHole
<1>5. Cardinality(A) \in Nat /\ Cardinality(B) \in Nat
  BY FS_CardinalityType
<1>6. QED
  BY <1>3, <1>4, <1>5

Places(kids, D) == {i \in DOMAIN kids : kids[i] \in D}

Count(kids, D) == Cardinality(Places(kids, D))

\* One, if x is in D.
One(x, D) == IF x \in D THEN 1 ELSE 0

LEMMA CountType ==
  ASSUME NEW T, NEW kids \in Seq(T), NEW D
  PROVE  IsFiniteSet(Places(kids, D)) /\ Count(kids, D) \in Nat
<1>1. DOMAIN kids = 1 .. Len(kids) /\ Len(kids) \in Int /\ 1 \in Int
  OBVIOUS
<1>2. IsFiniteSet(DOMAIN kids)
  BY <1>1, FS_Interval
<1>3. Places(kids, D) \in SUBSET DOMAIN kids
  BY DEF Places
<1>4. QED
  BY <1>2, <1>3, FS_Subset, FS_CardinalityType DEF Count

LEMMA Apart2 ==
  ASSUME NEW A, IsFiniteSet(A), NEW B, IsFiniteSet(B), A \cap B = {}
  PROVE  IsFiniteSet(A \cup B) /\ Cardinality(A \cup B) = Cardinality(A) + Cardinality(B)
<1>1. /\ IsFiniteSet(A \cup B)
      /\ Cardinality(A \cup B) = Cardinality(A) + Cardinality(B) - Cardinality(A \cap B)
  BY FS_Union
<1>2. Cardinality(A \cap B) = 0
  BY FS_EmptySet
<1>3. Cardinality(A) \in Nat /\ Cardinality(B) \in Nat
  BY FS_CardinalityType
<1>4. QED
  BY <1>1, <1>2, <1>3

LEMMA OneOrNone ==
  ASSUME NEW i, NEW x, NEW D
  PROVE  /\ IsFiniteSet({j \in {i} : x \in D})
         /\ Cardinality({j \in {i} : x \in D}) = One(x, D)
<1>1. CASE x \in D
  <2>1. {j \in {i} : x \in D} = {i}
    BY <1>1
  <2>2. QED
    BY <1>1, <2>1, FS_Singleton DEF One
<1>2. CASE x \notin D
  <2>1. {j \in {i} : x \in D} = {}
    BY <1>2
  <2>2. QED
    BY <1>2, <2>1, FS_EmptySet DEF One
<1>3. QED
  BY <1>1, <1>2

LEMMA CountAppended ==
  ASSUME NEW T, NEW kids \in Seq(T), NEW e \in T, NEW D
  PROVE  Count(Append(kids, e), D) = Count(kids, D) + One(e, D)
<1> DEFINE n == Len(kids)
           A == Places(kids, D)
           B == {j \in {n + 1} : e \in D}
<1>1. n \in Nat /\ DOMAIN kids = 1 .. n /\ DOMAIN Append(kids, e) = 1 .. n + 1
      /\ (\A i \in 1 .. n : Append(kids, e)[i] = kids[i]) /\ Append(kids, e)[n + 1] = e
  OBVIOUS
<1>2. Places(Append(kids, e), D) = A \cup B
  BY <1>1 DEF Places
<1>3. A \cap B = {}
  BY <1>1 DEF Places
<1>4. IsFiniteSet(A) /\ IsFiniteSet(B) /\ Cardinality(B) = One(e, D)
  BY CountType, OneOrNone
<1>5. QED
  BY <1>2, <1>3, <1>4, Apart2 DEF Count

\* A list in two parts.
InTwo(kids, a, b) ==
  /\ Len(kids) = Len(a) + Len(b)
  /\ \A i \in 1 .. Len(a) : kids[i] = a[i]
  /\ \A i \in 1 .. Len(b) : kids[Len(a) + i] = b[i]

LEMMA CountParted ==
  ASSUME NEW T, NEW kids \in Seq(T), NEW a \in Seq(T), NEW b \in Seq(T), InTwo(kids, a, b), NEW D
  PROVE  Count(kids, D) = Count(a, D) + Count(b, D)
<1> DEFINE p == Len(a)
           B == Places(b, D)
           C == {i \in p + 1 .. p + Len(b) : kids[i] \in D}
           f == [i \in B |-> p + i]
<1> USE DEF InTwo
<1>1. p \in Nat /\ Len(b) \in Nat /\ DOMAIN kids = 1 .. p + Len(b) /\ DOMAIN a = 1 .. p
      /\ DOMAIN b = 1 .. Len(b)
  OBVIOUS
<1>2. IsFiniteSet(Places(a, D)) /\ IsFiniteSet(B)
  BY CountType
<1>3. f \in [B -> C]
  BY <1>1 DEF Places
<1>4. \A x, y \in B : f[x] = f[y] => x = y
  BY <1>1 DEF Places
<1>5. ASSUME NEW c \in C
      PROVE  \E x \in B : f[x] = c
  <2>1. c - p \in B
    BY <1>1 DEF Places
  <2>2. f[c - p] = c
    BY <1>1, <2>1
  <2>3. QED
    BY <2>1, <2>2
<1>6. IsFiniteSet(C)
  <2>1. IsFiniteSet(Places(kids, D))
    BY CountType
  <2>2. C \in SUBSET Places(kids, D)
    BY <1>1 DEF Places
  <2>3. QED
    BY <2>1, <2>2, FS_Subset
<1>7. Cardinality(C) = Cardinality(B)
  <2> HIDE DEF B, C, f
  <2>1. QED
    BY <1>2, <1>3, <1>4, <1>5, <1>6, OneToOne
<1>8. Places(kids, D) = Places(a, D) \cup C
  BY <1>1 DEF Places
<1>9. Places(a, D) \cap C = {}
  BY <1>1 DEF Places
<1>10. QED
  BY <1>2, <1>6, <1>7, <1>8, <1>9, Apart2 DEF Count

\* A list in another order.
LEMMA CountReordered ==
  ASSUME NEW T, NEW kids \in Seq(T), NEW o \in Orderings(Len(kids)), NEW D,
         NEW others \in Seq(T), Len(others) = Len(kids),
         \A i \in 1 .. Len(kids) : others[i] = kids[o[i]]
  PROVE  Count(others, D) = Count(kids, D)
<1> DEFINE n == Len(kids)
           A == Places(others, D)
           B == Places(kids, D)
           f == [i \in A |-> o[i]]
<1>1. n \in Nat /\ DOMAIN kids = 1 .. n /\ DOMAIN others = 1 .. n
  OBVIOUS
<1>2. o \in [1 .. n -> 1 .. n] /\ \A j, k \in 1 .. n : o[j] = o[k] => j = k
  BY DEF Orderings
<1>3. f \in [A -> B] /\ \A x, y \in A : f[x] = f[y] => x = y
  BY <1>1, <1>2 DEF Places
<1>4. IsFiniteSet(A) /\ IsFiniteSet(B)
  BY CountType
<1>5. \A i \in 1 .. n : \E j \in 1 .. n : o[j] = i
  <2> HIDE DEF n
  <2>1. QED
    BY <1>1, <1>2, Onto
<1>6. ASSUME NEW b \in B
      PROVE  \E a \in A : f[a] = b
  <2>1. PICK j \in 1 .. n : o[j] = b
    BY <1>1, <1>5 DEF Places
  <2>2. j \in A
    BY <1>1, <2>1 DEF Places
  <2>3. QED
    BY <2>1, <2>2
<1>7. Cardinality(B) = Cardinality(A)
  <2> HIDE DEF A, B, f
  <2>1. QED
    BY <1>3, <1>4, <1>6, OneToOne
<1>8. QED
  BY <1>7 DEF Count

\* The groups of a split, and what a node keeps and reinserts.
LEMMA CountDistributed ==
  ASSUME NEW kids \in Seq(Entry), NEW g, NEW least, Distributes(kids, g, least), NEW D
  PROVE  Count(kids, D) = Count(g[1], D) + Count(g[2], D)
<1>1. PICK o \in Orderings(Len(kids)), p \in 1 .. Len(kids) - 1 :
        g = <<FirstGroup(kids, o, p), SecondGroup(kids, o, p)>>
  BY DEF Distributes
<1> DEFINE n == Len(kids)
           others == [i \in 1 .. n |-> kids[o[i]]]
<1>2. n \in Nat /\ DOMAIN kids = 1 .. n /\ p \in Nat /\ n - p \in Nat /\ p <= n
  OBVIOUS
<1>3. o \in [1 .. n -> 1 .. n]
  BY DEF Orderings
<1>4. others \in Seq(Entry) /\ Len(others) = n
  BY <1>2, <1>3
<1>5. Count(others, D) = Count(kids, D)
  BY <1>4, CountReordered
<1>6. g[1] = [k \in 1 .. p |-> kids[o[k]]] /\ g[2] = [k \in 1 .. n - p |-> kids[o[p + k]]]
  BY <1>1 DEF FirstGroup, SecondGroup
<1>7. /\ g[1] \in Seq(Entry) /\ Len(g[1]) = p
      /\ g[2] \in Seq(Entry) /\ Len(g[2]) = n - p
  <2>1. \A k \in 1 .. p : kids[o[k]] \in Entry
    BY <1>2, <1>3
  <2>2. \A k \in 1 .. n - p : kids[o[p + k]] \in Entry
    BY <1>2, <1>3
  <2>3. QED
    BY <1>2, <1>6, <2>1, <2>2
<1>8. /\ \A i \in 1 .. p : others[i] = g[1][i]
      /\ \A i \in 1 .. n - p : others[p + i] = g[2][i]
  BY <1>2, <1>6
<1> DEFINE a == g[1]
           b == g[2]
<1> HIDE DEF others, n, a, b
<1>9. /\ others \in Seq(Entry) /\ a \in Seq(Entry) /\ b \in Seq(Entry)
      /\ Len(others) = Len(a) + Len(b)
      /\ \A i \in 1 .. Len(a) : others[i] = a[i]
      /\ \A i \in 1 .. Len(b) : others[Len(a) + i] = b[i]
  BY <1>2, <1>4, <1>7, <1>8 DEF a, b
<1>10. InTwo(others, a, b)
  BY <1>9 DEF InTwo
<1>11. Count(others, D) = Count(a, D) + Count(b, D)
  BY <1>9, <1>10, CountParted
<1>12. QED
  BY <1>5, <1>11 DEF n, a, b

\* deleteEntry.
LEMMA CountOneLess ==
  ASSUME NEW kids \in Seq(Entry), NEW k \in DOMAIN kids, NEW rest, OneLess(kids, k, rest), NEW D
  PROVE  Count(kids, D) = Count(rest, D) + One(kids[k], D)
<1> DEFINE n == Len(kids)
           o == [i \in 1 .. n |-> IF i = k THEN n ELSE IF i = n THEN k ELSE i]
           others == Append(rest, kids[k])
<1>1. n \in Nat /\ DOMAIN kids = 1 .. n /\ k \in 1 .. n /\ n \in 1 .. n /\ kids[k] \in Entry
  OBVIOUS
<1>2. rest \in Seq(Entry) /\ Len(rest) = n - 1
      /\ \A i \in 1 .. n - 1 : rest[i] = IF i = k THEN kids[n] ELSE kids[i]
  BY DEF OneLess
<1>3. o \in Orderings(n)
  <2>1. \A i \in 1 .. n : o[i] = (IF i = k THEN n ELSE IF i = n THEN k ELSE i) /\ o[i] \in 1 .. n
    BY <1>1
  <2>2. ASSUME NEW i \in 1 .. n, NEW j \in 1 .. n, o[i] = o[j]
        PROVE  i = j
    <3> HIDE DEF n, o
    <3>1. QED
      BY <1>1, <2>1, <2>2
  <2>3. o \in [1 .. n -> 1 .. n]
    <3> HIDE DEF n
    <3>1. QED
      BY <2>1
  <2>4. \A i, j \in 1 .. n : o[i] = o[j] => i = j
    BY <2>2
  <2> HIDE DEF n, o
  <2>5. QED
    BY <2>3, <2>4 DEF Orderings
<1>4. others \in Seq(Entry) /\ Len(others) = n /\ others[n] = kids[k]
      /\ \A i \in 1 .. n - 1 : others[i] = rest[i]
  <2>1. /\ others \in Seq(Entry) /\ Len(others) = Len(rest) + 1 /\ others[Len(rest) + 1] = kids[k]
        /\ \A i \in 1 .. Len(rest) : others[i] = rest[i]
    <3>1. rest \in Seq(Entry) /\ kids[k] \in Entry
      BY <1>1, <1>2
    <3>2. QED
      BY <3>1
  <2>2. Len(rest) + 1 = n
    BY <1>1, <1>2
  <2>3. QED
    BY <1>2, <2>1, <2>2
<1>o. \A i \in 1 .. n : o[i] = IF i = k THEN n ELSE IF i = n THEN k ELSE i
  OBVIOUS
<1> HIDE DEF others, o, n
<1>5. \A i \in 1 .. n : others[i] = kids[o[i]]
  <2>1. ASSUME NEW i \in 1 .. n
        PROVE  others[i] = kids[o[i]]
    <3>1. CASE i = n
      BY <1>1, <1>4, <1>o, <3>1
    <3>2. CASE i # n
      <4>1. i \in 1 .. n - 1
        BY <1>1, <3>2
      <4>2. QED
        BY <1>1, <1>2, <1>4, <1>o, <3>2, <4>1
    <3>3. QED
      BY <3>1, <3>2
  <2>2. QED
    BY <2>1
<1>6. Count(others, D) = Count(kids, D)
  BY <1>3, <1>4, <1>5, CountReordered DEF n
<1>7. Count(others, D) = Count(rest, D) + One(kids[k], D)
  BY <1>1, <1>2, CountAppended DEF others
<1>8. QED
  BY <1>6, <1>7

------------------------------------------------------------------------------
(***************************************************************************)
(* On the way through the tree: the call at the bottom of the stack is the *)
(* client's, an insertion's path leads from parents to children like a     *)
(* deletion's, and an insertion into a leaf works on what the leaf holds.  *)
(***************************************************************************)
BottomOK(stack) == \A k \in DOMAIN stack : stack[k].fn = "return" <=> k = Len(stack)

Upward(pages, f) ==
  /\ f.fn \in {"chooseSubtree", "insertData", "adjustTree", "adjustTree2"}
       => Lineage(pages, f.path, f.page)
  /\ f.fn \in {"adjustTree", "adjustTree2"} => f.child \in Children(pages[f.page])
  /\ f.fn = "insertData" /\ f.node.level = 0 => f.node = pages[f.page]

WayInv ==
  /\ BottomOK(work)
  /\ work # <<>> => Upward(nodes, work[1])

\* The running call makes way for others.
Became(new) == new \in Seq(Frame) /\ work' = new \o Tail(work)

LEMMA WaitingIsUpward ==
  ASSUME NEW f, Waiting(f), NEW pages
  PROVE  Upward(pages, f)
BY DEF Waiting, Upward

LEMMA StackAfter ==
  ASSUME TreeInv, work # <<>>, NEW new, Became(new)
  PROVE  /\ Len(work) \in Nat /\ Len(work) >= 1 /\ Len(new) \in Nat
         /\ DOMAIN new = 1 .. Len(new) /\ DOMAIN work = 1 .. Len(work)
         /\ Tail(work) \in Seq(Frame) /\ DOMAIN Tail(work) = 1 .. Len(work) - 1
         /\ Len(Tail(work)) = Len(work) - 1
         /\ \A k \in 1 .. Len(work) - 1 : Tail(work)[k] = work[k + 1] /\ Waiting(work[k + 1])
         /\ work' \in Seq(Frame) /\ Len(work') = Len(new) + (Len(work) - 1)
         /\ DOMAIN work' = 1 .. Len(new) + (Len(work) - 1)
         /\ \A k \in 1 .. Len(new) : work'[k] = new[k]
         /\ \A k \in 1 .. Len(work) - 1 : work'[Len(new) + k] = work[k + 1]
<1>1. work \in Seq(Frame) /\ StackOK(nodes, m_rootID, work)
  BY DEF TreeInv, Sound, StackOK
<1>2. Len(work) \in Nat /\ Len(work) >= 1 /\ DOMAIN work = 1 .. Len(work)
  BY <1>1
<1> DEFINE tail == Tail(work)
<1>3. /\ tail \in Seq(Frame) /\ DOMAIN tail = 1 .. Len(work) - 1 /\ Len(tail) = Len(work) - 1
      /\ \A k \in 1 .. Len(work) - 1 : tail[k] = work[k + 1]
  BY <1>1, <1>2
<1>4. \A k \in DOMAIN tail : Waiting(tail[k])
  BY <1>1, TopOf
<1>5. new \in Seq(Frame) /\ work' = new \o tail
  BY DEF Became
<1>6. Len(new) \in Nat /\ DOMAIN new = 1 .. Len(new)
  BY <1>5
<1> HIDE DEF tail
<1>7. /\ work' \in Seq(Frame) /\ Len(work') = Len(new) + Len(tail)
      /\ \A k \in 1 .. Len(new) : work'[k] = new[k]
      /\ \A k \in 1 .. Len(tail) : work'[Len(new) + k] = tail[k]
  BY <1>3, <1>5, Concatenated
<1>8. DOMAIN work' = 1 .. Len(work')
  BY <1>7
<1>9. QED
  BY <1>2, <1>3, <1>4, <1>6, <1>7, <1>8 DEF tail

LEMMA WayKept ==
  ASSUME TreeInv, WayInv, work # <<>>, work[1].fn # "return", NEW new, Became(new),
         \A k \in DOMAIN new : new[k].fn # "return",
         new # <<>> => Upward(nodes', new[1])
  PROVE  WayInv'
<1> DEFINE n == Len(work)
           m == Len(new)
<1>1. /\ n \in Nat /\ n >= 1 /\ m \in Nat /\ DOMAIN new = 1 .. m /\ DOMAIN work = 1 .. n
      /\ \A k \in 1 .. n - 1 : Waiting(work[k + 1])
      /\ Len(work') = m + (n - 1) /\ DOMAIN work' = 1 .. m + (n - 1)
      /\ \A k \in 1 .. m : work'[k] = new[k]
      /\ \A k \in 1 .. n - 1 : work'[m + k] = work[k + 1]
  BY StackAfter
<1>2. n >= 2
  BY <1>1 DEF WayInv, BottomOK
<1>3. ASSUME NEW k \in 1 .. m + (n - 1)
      PROVE  work'[k].fn = "return" <=> k = m + (n - 1)
  <2>1. CASE k <= m
    <3>1. k \in 1 .. m
      BY <1>1, <2>1
    <3>2. work'[k] = new[k] /\ k \in DOMAIN new
      BY <1>1, <3>1
    <3>3. k # m + (n - 1)
      BY <1>1, <1>2, <3>1
    <3>4. QED
      BY <3>2, <3>3
  <2>2. CASE k > m
    <3>1. k - m \in 1 .. n - 1 /\ k = m + (k - m) /\ k - m + 1 \in 1 .. n
      BY <1>1, <2>2
    <3>2. work'[k] = work[k - m + 1]
      BY <1>1, <3>1
    <3>3. work[k - m + 1].fn = "return" <=> k - m + 1 = n
      BY <1>1, <3>1 DEF WayInv, BottomOK
    <3>4. QED
      BY <1>1, <3>1, <3>2, <3>3
  <2>3. QED
    BY <1>1, <2>1, <2>2
<1>4. BottomOK(work)'
  BY <1>1, <1>3 DEF BottomOK
<1>5. Upward(nodes', work'[1])
  <2>1. CASE m = 0
    <3>1. 1 \in 1 .. n - 1 /\ m + 1 = 1
      BY <1>1, <1>2, <2>1
    <3>2. work'[m + 1] = work[1 + 1] /\ Waiting(work[1 + 1])
      BY <1>1, <3>1
    <3>3. QED
      BY <3>1, <3>2, WaitingIsUpward
  <2>2. CASE m # 0
    <3>1. 1 \in 1 .. m /\ new # <<>>
      BY <1>1, <2>2
    <3>2. work'[1] = new[1]
      BY <1>1, <3>1
    <3>3. QED
      BY <3>1, <3>2
  <2>3. QED
    BY <2>1, <2>2
<1>6. QED
  BY <1>4, <1>5 DEF WayInv

LEMMA LineageUp ==
  ASSUME NEW pages, NEW root, TreeOK(pages, root), NEW page, NEW path \in Path, path # <<>>,
         Route(pages, root, path, page), Lineage(pages, path, page),
         NEW pages2, \A p \in DOMAIN pages \ {page} : pages2[p] = pages[p]
  PROVE  /\ Lineage(pages2, Front(path), Last(path))
         /\ page \in Children(pages2[Last(path)])
<1> DEFINE n == Len(path)
           up == Front(path)
<1>1. /\ n \in Nat /\ n >= 1 /\ Len(up) = n - 1 /\ Last(path) = path[n]
      /\ \A i \in 1 .. n - 1 : up[i] = path[i]
  BY PathFront
<1>2. pages[root].level \in Nat
  BY NodesTyped DEF TreeOK
<1>3. ASSUME NEW i \in 1 .. n
      PROVE  path[i] \in DOMAIN pages /\ pages2[path[i]] = pages[path[i]]
  <2>1. /\ path[i] \in DOMAIN pages /\ pages[path[i]].level = pages[root].level + 1 - i
        /\ pages[page].level = pages[root].level - n
    BY DEF Route
  <2>2. path[i] # page
    BY <1>1, <1>2, <2>1
  <2>3. QED
    BY <2>1, <2>2
<1>4. n \in 1 .. n /\ \A i \in 1 .. n - 1 : i \in 1 .. n /\ (i + 1) \in 1 .. n
  BY <1>1
<1>5. page \in Children(pages2[path[n]])
  BY <1>3, <1>4 DEF Lineage
<1>6. \A i \in 1 .. n - 1 : path[i + 1] \in Children(pages2[path[i]])
  BY <1>3, <1>4 DEF Lineage
<1> HIDE DEF n, up
<1>7. ASSUME NEW i \in 1 .. Len(up) - 1
      PROVE  up[i + 1] \in Children(pages2[up[i]])
  <2>1. i \in 1 .. n - 1 /\ i + 1 \in 1 .. n - 1
    BY <1>1
  <2>2. QED
    BY <1>1, <1>6, <2>1
<1>8. up # <<>> => Last(path) \in Children(pages2[up[Len(up)]])
  <2>1. ASSUME up # <<>>
        PROVE  Last(path) \in Children(pages2[up[Len(up)]])
    <3>1. up \in Path
      BY PathFront DEF up
    <3>2. Len(up) \in 1 .. n - 1 /\ Len(up) + 1 = n
      BY <1>1, <2>1, <3>1 DEF Path
    <3>3. up[Len(up)] = path[Len(up)] /\ path[Len(up) + 1] = Last(path)
      BY <1>1, <3>2
    <3>4. path[Len(up) + 1] \in Children(pages2[path[Len(up)]])
      BY <1>6, <3>2
    <3>5. QED
      BY <3>3, <3>4
  <2>2. QED
    BY <2>1
<1>9. QED
  BY <1>1, <1>5, <1>7, <1>8 DEF Lineage, up

LEMMA ParentIsUpward ==
  ASSUME NEW pages, NEW root, TreeOK(pages, root), NEW page, NEW path \in Path,
         Route(pages, root, path, page), Lineage(pages, path, page),
         NEW pages2, \A p \in DOMAIN pages \ {page} : pages2[p] = pages[p], NEW mbr, NEW force,
         NEW up, up = AdjustParent(page, mbr, path, force)
  PROVE  up # <<>> => Upward(pages2, up[1]) /\ up[1].fn = "adjustTree"
<1>1. CASE path = <<>>
  BY <1>1 DEF AdjustParent
<1>2. CASE path # <<>>
  <2> DEFINE f == [fn |-> "adjustTree", page |-> Last(path), child |-> page, mbr |-> mbr,
                   path |-> Front(path), force |-> force]
  <2>1. up = <<f>>
    BY <1>2 DEF AdjustParent
  <2>2. Lineage(pages2, Front(path), Last(path)) /\ page \in Children(pages2[Last(path)])
    BY <1>2, LineageUp
  <2>3. f.fn = "adjustTree" /\ f.page = Last(path) /\ f.child = page /\ f.path = Front(path)
    OBVIOUS
  <2>4. up[1] = f
    BY <2>1
  <2> HIDE DEF f
  <2>5. QED
    BY <2>2, <2>3, <2>4 DEF Upward
<1>3. QED
  BY <1>1, <1>2

------------------------------------------------------------------------------
(***************************************************************************)
(* What each step does, put without its local names.                       *)
(***************************************************************************)
LEMMA ReinsertDoes ==
  ASSUME TreeInv, Reinsert
  PROVE  /\ work[1] \in ImplFrames /\ nodes' = nodes
         /\ Became(<<ChooseFrame(m_rootID, work[1].entry, work[1].level, <<>>)>>)
<1> DEFINE f == work[1]
           g == ChooseFrame(m_rootID, f.entry, f.level, <<>>)
<1>1. Step("insertData_impl") /\ nodes' = nodes /\ work' = <<g>> \o Tail(work)
  BY DEF Reinsert, Become
<1>2. f \in ImplFrames
  BY <1>1, InStep, FrameKinds
<1>3. f.entry \in Entry /\ f.level \in Nat /\ <<>> \in Path
  BY <1>2 DEF ImplFrames, Path
<1>4. g \in Frame
  BY <1>1, <1>3, InStep, ChooseFrameOf
<1> HIDE DEF g
<1>5. <<g>> \in Seq(Frame)
  BY <1>4
<1>6. QED
  BY <1>1, <1>2, <1>5 DEF Became, g

LEMMA DescendDoes ==
  ASSUME TreeInv, Descend
  PROVE  /\ work[1] \in ChooseFrames /\ nodes' = nodes /\ work[1].fn = "chooseSubtree"
         /\ \E c \in Children(nodes[work[1].page]) :
              Became(<<ChooseFrame(c, work[1].entry, work[1].level,
                                   Append(work[1].path, work[1].page))>>)
<1> DEFINE f == work[1]
           n == nodes[f.page]
<1>1. Step("chooseSubtree") /\ nodes' = nodes /\ n.level \notin {0, f.level}
  BY Zenon DEF Descend
<1>2. PICK child \in ChosenChildren(n.level, n.kids, f.entry.mbr) :
        work' = <<[f EXCEPT !.page = n.kids[child].id, !.path = Append(@, f.page)]>> \o Tail(work)
  BY Zenon DEF Descend, Become
<1> DEFINE c == n.kids[child].id
<1>3. f \in ChooseFrames /\ ChooseOK(nodes, m_rootID, f) /\ f.fn = "chooseSubtree"
  BY <1>1, InStep, FrameKinds DEF FrameOK
<1>4. /\ f.entry \in Entry /\ f.level \in Nat /\ f.path \in Path /\ f.page \in Nat
      /\ f.page \in DOMAIN nodes
  BY <1>3 DEF ChooseFrames, ChooseOK, Route
<1>5. n.kids \in Seq(Entry) /\ n.level \in Nat
  BY <1>1, <1>4, InStep, NodesTyped
<1>6. c \in Children(n) /\ c \in Nat
  <2>1. child \in DOMAIN n.kids
    BY <1>5, ChildIsChosen
  <2>2. n.kids[child] \in Entry
    BY <1>5, <2>1
  <2>3. QED
    BY <1>1, <2>1, <2>2, EntryOf DEF Children, KidIds
<1>7. work' = <<[f EXCEPT !.page = c, !.path = Append(f.path, f.page)]>> \o Tail(work)
  BY <1>2
<1> HIDE DEF c
<1>8. Append(f.path, f.page) \in Path
  BY <1>4, PathAppended
<1>9. work' = <<ChooseFrame(c, f.entry, f.level, Append(f.path, f.page))>> \o Tail(work)
  BY <1>3, <1>6, <1>7, <1>8, ChooseFrameMoved
<1>10. ChooseFrame(c, f.entry, f.level, Append(f.path, f.page)) \in Frame
  BY <1>4, <1>6, <1>8, ChooseFrameOf
<1>11. <<ChooseFrame(c, f.entry, f.level, Append(f.path, f.page))>> \in Seq(Frame)
  BY <1>10, OneFrame
<1>12. QED
  BY <1>1, <1>3, <1>6, <1>9, <1>11 DEF Became

LEMMA ArriveDoes ==
  ASSUME TreeInv, Arrive
  PROVE  /\ work[1] \in ChooseFrames /\ work[1].fn = "chooseSubtree" /\ nodes' = nodes
         /\ nodes[work[1].page].level = work[1].level
         /\ work[1].page \in DOMAIN nodes
         /\ Became(<<InsertFrame(work[1].page, nodes[work[1].page], work[1].entry,
                                 work[1].path, FALSE)>>)
<1> DEFINE f == work[1]
           n == nodes[f.page]
           g == InsertFrame(f.page, n, f.entry, f.path, FALSE)
<1>1. Step("chooseSubtree") /\ nodes' = nodes /\ n.level \in {0, f.level} /\ work' = <<g>> \o Tail(work)
  BY DEF Arrive, Become
<1>2. f \in ChooseFrames /\ ChooseOK(nodes, m_rootID, f)
  BY <1>1, InStep, FrameKinds DEF FrameOK
<1>3. /\ f.entry \in Entry /\ f.level \in Nat /\ f.path \in Path /\ f.fn = "chooseSubtree"
      /\ f.page \in DOMAIN nodes /\ f.page \in Nat /\ f.level <= n.level
  BY <1>2 DEF ChooseFrames, ChooseOK, Route
<1>4. n \in Nodes /\ n.level \in Nat
  BY <1>1, <1>3, InStep, NodesTyped
<1>5. n.level = f.level
  <2>1. \A x, y \in Nat : x \in {0, y} /\ y <= x => x = y
    OBVIOUS
  <2>2. QED
    BY <1>1, <1>3, <1>4, <2>1
<1> DEFINE no == FALSE
<1>6. no \in BOOLEAN /\ g = InsertFrame(f.page, n, f.entry, f.path, no)
  OBVIOUS
<1> HIDE DEF no, g
<1>7. g \in Frame
  BY <1>3, <1>4, <1>6, InsertFrameOf
<1>8. <<g>> \in Seq(Frame)
  BY <1>7
<1>9. QED
  BY <1>1, <1>2, <1>3, <1>5, <1>8 DEF Became, g

\* A node with its child's new MBR.
WithChild(n, f, recompute) == Adjusted(n, Updated(n.kids, f.child, f.mbr), recompute)

LEMMA WithChildOf ==
  ASSUME NEW pages, NEW n, FitsIn(pages, n), NEW f, f.mbr \in Regions, NEW recompute \in BOOLEAN
  PROVE  /\ FitsIn(pages, WithChild(n, f, recompute)) /\ WithChild(n, f, recompute) \in Nodes
         /\ WithChild(n, f, recompute).level = n.level
         /\ WithChild(n, f, recompute).kids = Updated(n.kids, f.child, f.mbr)
         /\ WithChild(n, f, recompute).mbr \in Regions
         /\ Children(WithChild(n, f, recompute)) = Children(n)
<1> DEFINE kids == Updated(n.kids, f.child, f.mbr)
<1>1. n.kids \in Seq(Entry)
  BY DEF FitsIn, Nodes
<1>2. kids \in Seq(Entry) /\ SameIds(kids, n.kids)
  BY <1>1, UpdatedIds
<1>3. WithChild(n, f, recompute) = Adjusted(n, kids, recompute)
  BY DEF WithChild
<1> HIDE DEF kids
<1>4. QED
  BY <1>2, <1>3, AdjustedNode DEF kids

AdjustsAnyway(f) == f.force \/ MustRecompute(nodes[f.page], f.child, {f.mbr})

LEMMA AdjustTreeDoes ==
  ASSUME TreeInv, AdjustTree
  PROVE  LET f == work[1]
             n == nodes[f.page]
             m == WithChild(n, f, AdjustsAnyway(f))
         IN  /\ f \in AdjustFrames /\ f.fn = "adjustTree" /\ f.page \in DOMAIN nodes
             /\ Route(nodes, m_rootID, f.path, f.page) /\ f.path \in Path /\ f.mbr \in Regions
             /\ f.force \in BOOLEAN /\ n \in Nodes /\ FitsIn(nodes, n)
             /\ AdjustsAnyway(f) \in BOOLEAN
             /\ OnlyAt(f.page, m, nodes, nodes')
             /\ Became(IF AdjustsAnyway(f) THEN AdjustParent(f.page, m.mbr, f.path, f.force) ELSE <<>>)
<1> DEFINE f == work[1]
           n == nodes[f.page]
           recompute == AdjustsAnyway(f)
           m == WithChild(n, f, recompute)
           up == AdjustParent(f.page, m.mbr, f.path, f.force)
<1>1. /\ Step("adjustTree") /\ nodes' = [nodes EXCEPT ![f.page] = m]
      /\ work' = (IF recompute THEN up ELSE <<>>) \o Tail(work)
  BY Zenon DEF AdjustTree, Become, WithChild, AdjustsAnyway
<1>2. f \in AdjustFrames /\ Route(nodes, m_rootID, f.path, f.page) /\ f.fn = "adjustTree"
  BY <1>1, InStep, FrameKinds, Zenon DEF FrameOK
<1>3. /\ f.mbr \in Regions /\ f.path \in Path /\ f.force \in BOOLEAN
      /\ f.page \in DOMAIN nodes
  BY <1>2, SMTT(30) DEF AdjustFrames, Route
<1>4. n \in Nodes /\ n.level \in Nat /\ f.page \in Nat /\ FitsIn(nodes, n)
  BY <1>1, <1>3, InStep, NodesTyped, Zenon
<1>5. recompute \in BOOLEAN
  BY DEF AdjustsAnyway
<1> HIDE DEF recompute
<1>6. m.mbr \in Regions
  BY <1>3, <1>4, <1>5, WithChildOf
<1> HIDE DEF m
<1>7. up \in Seq(Frame)
  BY <1>1, <1>2, <1>3, <1>4, <1>6, InStep, AdjustParentOf, Zenon
<1>8. OnlyAt(f.page, m, nodes, nodes')
  BY <1>1, <1>3, Zenon DEF OnlyAt
<1>9. (IF recompute THEN up ELSE <<>>) \in Seq(Frame)
  BY <1>7
<1> HIDE DEF up
<1>10. Became(IF recompute THEN up ELSE <<>>)
  BY <1>1, <1>9 DEF Became
<1>11. QED
  BY <1>2, <1>3, <1>4, <1>5, <1>8, <1>10, Zenon DEF m, up, recompute

AdjustsAfterSplit(f) == MustRecompute(nodes[f.page], f.child, {f.mbr, f.entry.mbr})

LEMMA AdjustTreeAfterSplitDoes ==
  ASSUME TreeInv, AdjustTreeAfterSplit
  PROVE  LET f == work[1]
             n == nodes[f.page]
             go == AdjustsAfterSplit(f)
         IN  /\ f \in Adjust2Frames /\ f.fn = "adjustTree2" /\ f.page \in DOMAIN nodes
             /\ f.entry \in Entry /\ f.mbr \in Regions /\ f.path \in Path
             /\ Route(nodes, m_rootID, f.path, f.page) /\ n.level # 0 /\ FitsIn(nodes, n)
             /\ EntryAt(nodes, f.entry, n.level) /\ n \in Nodes
             /\ AdjustsAfterSplit(f) \in BOOLEAN
             /\ nodes' = nodes
             /\ Became(<<InsertFrame(f.page, WithChild(n, f, go), f.entry, f.path, go)>>)
<1> DEFINE f == work[1]
           n == nodes[f.page]
           go == AdjustsAfterSplit(f)
           m == WithChild(n, f, go)
           g == InsertFrame(f.page, m, f.entry, f.path, go)
<1>1. Step("adjustTree2") /\ nodes' = nodes /\ work' = <<g>> \o Tail(work)
  BY Zenon DEF AdjustTreeAfterSplit, Become, WithChild, AdjustsAfterSplit
<1>2. f \in Adjust2Frames /\ Adjust2OK(nodes, m_rootID, f) /\ f.fn = "adjustTree2"
  BY <1>1, InStep, FrameKinds, Zenon DEF FrameOK
<1>3. /\ f.mbr \in Regions /\ f.path \in Path /\ f.entry \in Entry /\ f.page \in DOMAIN nodes
      /\ Route(nodes, m_rootID, f.path, f.page) /\ n.level # 0 /\ EntryAt(nodes, f.entry, n.level)
  BY <1>2, SMTT(30) DEF Adjust2Frames, Adjust2OK, Route
<1>4. n \in Nodes /\ f.page \in Nat /\ FitsIn(nodes, n)
  BY <1>1, <1>3, InStep, NodesTyped, Zenon
<1>5. go \in BOOLEAN
  BY DEF AdjustsAfterSplit, MustRecompute
<1> HIDE DEF go
<1>6. m \in Nodes
  BY <1>3, <1>4, <1>5, WithChildOf
<1> HIDE DEF m
<1>7. g \in Frame
  BY <1>3, <1>4, <1>5, <1>6, InsertFrameOf
<1> HIDE DEF g
<1>8. <<g>> \in Seq(Frame)
  BY <1>7
<1>9. Became(<<g>>)
  BY <1>1, <1>8 DEF Became
<1>10. QED
  BY <1>1, <1>2, <1>3, <1>4, <1>5, <1>9, Zenon DEF g, m, go

\* A node that an entry goes into grows out of its MBR, or has done so.
GoesUp(f) == ~ContainsRegion(f.node.mbr, f.entry.mbr) \/ f.recomputed

LEMMA InsertFitsDoes ==
  ASSUME TreeInv, InsertFits
  PROVE  LET f == work[1]
             m == WithEntry(f.node, f.entry)
         IN  /\ Inserting(f) /\ ~Full(f.node)
             /\ m \in Nodes /\ m.level = f.node.level /\ m.kids = Append(f.node.kids, f.entry)
             /\ m.mbr = CombinedRegion(f.node.mbr, f.entry.mbr) /\ m.mbr \in Regions
             /\ OnlyAt(f.page, m, nodes, nodes')
             /\ GoesUp(f) \in BOOLEAN
             /\ Became(IF GoesUp(f) THEN AdjustParent(f.page, m.mbr, f.path, FALSE) ELSE <<>>)
<1> DEFINE f == work[1]
           m == WithEntry(f.node, f.entry)
           go == GoesUp(f)
           no == FALSE
           up == AdjustParent(f.page, m.mbr, f.path, no)
<1>1. /\ Step("insertData") /\ ~Full(f.node) /\ nodes' = [nodes EXCEPT ![f.page] = m]
      /\ work' = (IF go THEN up ELSE <<>>) \o Tail(work)
  BY DEF InsertFits, Become, WithEntry, GoesUp
<1>2. Inserting(f) /\ f.entry \in Entry
  BY <1>1, InsertingFacts DEF Inserting
<1>3. /\ f.node \in Nodes /\ f.page \in DOMAIN nodes /\ Route(nodes, m_rootID, f.path, f.page)
      /\ f.path \in Path
  BY <1>2 DEF Inserting, FitsIn
<1>4. f.node.kids \in Seq(Entry) /\ f.node.mbr \in Regions /\ f.node.level \in Nat
  BY <1>3 DEF Nodes
<1>5. CombinedRegion(f.node.mbr, f.entry.mbr) \in Regions /\ Append(f.node.kids, f.entry) \in Seq(Entry)
  BY <1>2, <1>4, EntryOf, CombinedRegionType
<1>6. /\ m \in Nodes /\ m.level = f.node.level /\ m.kids = Append(f.node.kids, f.entry)
      /\ m.mbr = CombinedRegion(f.node.mbr, f.entry.mbr)
  <2> DEFINE mbr == CombinedRegion(f.node.mbr, f.entry.mbr)
             kids == Append(f.node.kids, f.entry)
  <2>1. m = [f.node EXCEPT !.kids = kids, !.mbr = mbr]
    BY DEF WithEntry
  <2>2. mbr \in Regions /\ kids \in Seq(Entry)
    BY <1>5
  <2> HIDE DEF mbr, kids, m
  <2>3. m \in Nodes /\ m.level = f.node.level /\ m.kids = kids /\ m.mbr = mbr
    BY <1>3, <2>1, <2>2 DEF Nodes
  <2>4. QED
    BY <2>3 DEF mbr, kids
<1> HIDE DEF m
<1>7. OnlyAt(f.page, m, nodes, nodes')
  BY <1>1, <1>3 DEF OnlyAt
<1>8. go \in BOOLEAN
  BY DEF GoesUp
<1>13. no \in BOOLEAN
  OBVIOUS
<1> HIDE DEF go
<1>9. up \in Seq(Frame)
  <2>1. m.mbr \in Regions /\ f.page \in Nat
    BY <1>1, <1>3, <1>5, <1>6, InStep, NodesTyped
  <2> HIDE DEF no
  <2>2. QED
    BY <1>1, <1>3, <1>13, <2>1, InStep, AdjustParentOf
<1> HIDE DEF up
<1>10. (IF go THEN up ELSE <<>>) \in Seq(Frame)
  BY <1>9
<1>11. Became(IF go THEN up ELSE <<>>)
  BY <1>1, <1>10 DEF Became
<1>12. QED
  BY <1>1, <1>2, <1>5, <1>6, <1>7, <1>8, <1>11, ZenonT(30) DEF m, go, up, no

LEMMA ForcedReinsertDoes ==
  ASSUME ReinsertsSome, TreeInv, ForcedReinsert
  PROVE  LET f == work[1]
             level == f.node.level
             all == Overflowing(f.node, f.entry)
         IN  /\ Inserting(f) /\ Full(f.node) /\ f.path # <<>>
             /\ all \in Seq(Entry) /\ Len(all) = Capacity(level) + 1
             /\ \E r : /\ Distributes(all, r, 1) /\ r[1] \in Seq(Entry) /\ r[2] \in Seq(Entry)
                       /\ Len(r[1]) = Len(all) - Floor(Len(all), ReinsertFactor)
                       /\ OnlyAt(f.page, Node(level, r[1]), nodes, nodes')
                       /\ Became(AdjustParent(f.page, Node(level, r[1]).mbr, f.path, TRUE)
                                   \o Impls(r[2], level, FALSE))
<1> DEFINE f == work[1]
           level == f.node.level
           all == Overflowing(f.node, f.entry)
<1>1. /\ Step("insertData") /\ Variant = "rstar" /\ Full(f.node) /\ f.path # <<>>
  BY DEF ForcedReinsert
<1>2. PICK r \in Reinsertions(all, f.node.mbr) :
        /\ nodes' = [nodes EXCEPT ![f.page] = Node(level, r[1])]
        /\ Become(AdjustParent(f.page, Node(level, r[1]).mbr, f.path, TRUE)
                    \o [k \in DOMAIN r[2] |-> InsertAtLevel(r[2][k], level, FALSE)])
  BY DEF ForcedReinsert
<1>3. Inserting(f)
  BY <1>1, InsertingFacts
<1> DEFINE kept == Node(level, r[1])
           force == TRUE
           fresh == FALSE
           up == AdjustParent(f.page, kept.mbr, f.path, force)
           impls == Impls(r[2], level, fresh)
<1>4. /\ nodes' = [nodes EXCEPT ![f.page] = kept] /\ work' = (up \o impls) \o Tail(work)
  BY <1>2 DEF Become, Impls
<1>5. /\ f.page \in DOMAIN nodes /\ Route(nodes, m_rootID, f.path, f.page)
      /\ level \in Nat /\ f.path \in Path
  BY <1>3 DEF Inserting
<1>6. all \in Seq(Entry) /\ Len(all) = Capacity(level) + 1
  BY <1>1, <1>3, OverflowOf DEF Inserting
<1>7. Distributes(all, r, 1) /\ Len(r[1]) = Len(all) - Floor(Len(all), ReinsertFactor)
  <2>1. Capacity(level) \in {IndexCapacity, LeafCapacity} /\ Capacity(level) \in Nat
    BY CapacityAtLeastFour DEF Capacity
  <2>2. Floor(Len(all), ReinsertFactor) >= 1 /\ Len(all) >= 1
    BY <1>1, <1>6, <2>1 DEF ReinsertsSome
  <2> HIDE DEF all
  <2>3. QED
    BY <1>2, <1>6, <2>2, ReinsertionsDistribute
<1>8. /\ r[1] \in Seq(Entry) /\ r[2] \in Seq(Entry)
      /\ level # 0 => DistinctIds(r[2])
  BY <1>1, <1>3, <1>7, PartsOf
<1>9. kept.mbr \in Regions
  BY <1>5, <1>8, NodeOf
<1>10. force \in BOOLEAN /\ fresh \in BOOLEAN
  OBVIOUS
<1> HIDE DEF all, kept, force, fresh, level
<1>11. impls \in Seq(Frame)
  BY <1>5, <1>8, <1>10, ImplsOf
<1>12. OnlyAt(f.page, kept, nodes, nodes')
  BY <1>4, <1>5 DEF OnlyAt
<1>13. up \in Seq(Frame)
  <2>1. f.page \in Nat
    BY <1>1, <1>5, InStep, NodesTyped
  <2>2. QED
    BY <1>1, <1>5, <1>9, <1>10, <2>1, InStep, AdjustParentOf
<1> HIDE DEF up, impls
<1>14. up \o impls \in Seq(Frame)
  BY <1>11, <1>13, Concatenated
<1>15. Became(up \o impls)
  BY <1>4, <1>14 DEF Became
<1>16. QED
  BY <1>1, <1>3, <1>6, <1>7, <1>8, <1>12, <1>15, Zenon DEF all, kept, up, impls, force, fresh, level

LEMMA SplitNodeDoes ==
  ASSUME TreeInv, SplitNode
  PROVE  LET f == work[1]
             level == f.node.level
             all == Overflowing(f.node, f.entry)
         IN  /\ Inserting(f) /\ Full(f.node) /\ f.path # <<>>
             /\ all \in Seq(Entry) /\ Len(all) = Capacity(level) + 1
             /\ \E g, nn : /\ Distributes(all, g, LeastShare(level))
                           /\ g[1] \in Seq(Entry) /\ g[2] \in Seq(Entry)
                           /\ nn \in Nat /\ nn \notin DOMAIN nodes
                           /\ TwoPages(f.page, Node(level, g[1]), nn, Node(level, g[2]), nodes, nodes')
                           /\ Became(<<[fn |-> "adjustTree2", page |-> Last(f.path),
                                        child |-> f.page, mbr |-> Node(level, g[1]).mbr,
                                        entry |-> [id |-> nn, mbr |-> Node(level, g[2]).mbr],
                                        path |-> Front(f.path)]>>)
<1> DEFINE f == work[1]
           level == f.node.level
           all == Overflowing(f.node, f.entry)
           nn == NewPageBeside(DOMAIN nodes)
<1>1. Step("insertData") /\ Full(f.node) /\ f.path # <<>>
  BY DEF SplitNode, MustSplit
<1>2. PICK g \in Splits(level, all) :
        /\ nodes' = [p \in DOMAIN nodes \cup {nn} |->
                       CASE p = nn -> Node(level, g[2])
                         [] p = f.page -> Node(level, g[1])
                         [] OTHER -> nodes[p]]
        /\ Become(<<[fn |-> "adjustTree2", page |-> Last(f.path),
                     child |-> f.page, mbr |-> Node(level, g[1]).mbr,
                     entry |-> [id |-> nn, mbr |-> Node(level, g[2]).mbr],
                     path |-> Front(f.path)]>>)
  BY DEF SplitNode
<1> DEFINE left == Node(level, g[1])
           right == Node(level, g[2])
           entry == [id |-> nn, mbr |-> right.mbr]
           up == [fn |-> "adjustTree2", page |-> Last(f.path), child |-> f.page, mbr |-> left.mbr,
                  entry |-> entry, path |-> Front(f.path)]
<1>3. Inserting(f)
  BY <1>1, InsertingFacts
<1>4. all \in Seq(Entry) /\ Len(all) = Capacity(level) + 1
  BY <1>1, <1>3, OverflowOf DEF Inserting
<1>5. /\ f.page \in DOMAIN nodes /\ Route(nodes, m_rootID, f.path, f.page)
      /\ level \in Nat /\ f.path \in Path
  BY <1>3 DEF Inserting
<1>6. Distributes(all, g, LeastShare(level))
  <2> HIDE DEF all
  <2>1. QED
    BY <1>2, <1>4, <1>5, SplitsDistribute
<1>7. g[1] \in Seq(Entry) /\ g[2] \in Seq(Entry)
  BY <1>1, <1>3, <1>6, PartsOf
<1>8. left.mbr \in Regions /\ right.mbr \in Regions
  BY <1>5, <1>7, NodeOf
<1>9. /\ TreeOK(nodes, m_rootID) /\ DOMAIN nodes \subseteq Nat /\ f.page \in Nat
      /\ IsFiniteSet(DOMAIN nodes)
  BY <1>1, <1>5, InStep DEF TreeOK
<1>10. nn \in Nat /\ nn \notin DOMAIN nodes
  <2> DEFINE used == DOMAIN nodes
  <2>1. used \in SUBSET Nat /\ IsFiniteSet(used)
    BY <1>9
  <2> HIDE DEF used
  <2>2. NewPageBeside(used) \in Nat \ used
    BY <2>1, NewPageIsNew
  <2>3. QED
    BY <2>2 DEF used
<1> HIDE DEF left, right, nn
<1>11. TwoPages(f.page, left, nn, right, nodes, nodes')
  <2>1. nodes' = [p \in DOMAIN nodes \cup {nn} |->
                    CASE p = nn -> right [] p = f.page -> left [] OTHER -> nodes[p]]
    BY <1>2 DEF left, right
  <2>2. QED
    BY <1>5, <1>10, <2>1 DEF TwoPages
<1>12. entry \in Entry
  BY <1>8, <1>10 DEF Entry, Regions
<1>13. work' = <<up>> \o Tail(work)
  BY <1>2 DEF Become, left, right
<1>14. Last(f.path) \in Nat /\ Front(f.path) \in Path
  BY <1>1, <1>5, <1>9, RouteUp
<1> HIDE DEF entry
<1>15. up \in Frame
  BY <1>8, <1>9, <1>12, <1>14, Adjust2FrameOf
<1> HIDE DEF up
<1>16. <<up>> \in Seq(Frame)
  BY <1>15
<1>17. Became(<<up>>)
  BY <1>13, <1>16 DEF Became
<1> HIDE DEF all, level
<1>18. QED
  BY <1>1, <1>3, <1>4, <1>6, <1>7, <1>10, <1>11, <1>17, Zenon DEF up, left, right, entry, all, level

LEMMA SplitRootDoes ==
  ASSUME TreeInv, SplitRoot
  PROVE  LET f == work[1]
             level == f.node.level
             all == Overflowing(f.node, f.entry)
         IN  /\ Inserting(f) /\ Full(f.node) /\ f.path = <<>> /\ f.page = m_rootID
             /\ all \in Seq(Entry) /\ Len(all) = Capacity(level) + 1
             /\ \E g, n, nn :
                  /\ Distributes(all, g, LeastShare(level))
                  /\ g[1] \in Seq(Entry) /\ g[2] \in Seq(Entry)
                  /\ n \in Nat /\ nn \in Nat /\ n # nn /\ n \notin DOMAIN nodes /\ nn \notin DOMAIN nodes
                  /\ ThreePages(m_rootID, Node(level + 1, TwoKids(n, Node(level, g[1]).mbr,
                                                                  nn, Node(level, g[2]).mbr)),
                                n, Node(level, g[1]), nn, Node(level, g[2]), nodes, nodes')
                  /\ TwoKids(n, Node(level, g[1]).mbr, nn, Node(level, g[2]).mbr) \in Seq(Entry)
             /\ Became(<<>>)
<1> DEFINE f == work[1]
           level == f.node.level
           all == Overflowing(f.node, f.entry)
           n  == NewPageBeside(DOMAIN nodes)
           nn == NewPageBeside(DOMAIN nodes \cup {n})
<1>1. Step("insertData") /\ Full(f.node) /\ f.path = <<>> /\ work' = <<>> \o Tail(work)
  BY DEF SplitRoot, MustSplit, Become
<1>2. PICK g \in Splits(level, all) :
        nodes' = [p \in DOMAIN nodes \cup {n, nn} |->
                   CASE p = n -> Node(level, g[1])
                     [] p = nn -> Node(level, g[2])
                     [] p = m_rootID -> Node(level + 1, TwoKids(n, Node(level, g[1]).mbr,
                                                                nn, Node(level, g[2]).mbr))
                     [] OTHER -> nodes[p]]
  BY DEF SplitRoot, TwoKids
<1> DEFINE left == Node(level, g[1])
           right == Node(level, g[2])
           kids == TwoKids(n, left.mbr, nn, right.mbr)
           ptrR == Node(level + 1, kids)
<1>3. Inserting(f)
  BY <1>1, InsertingFacts
<1>4. all \in Seq(Entry) /\ Len(all) = Capacity(level) + 1
  BY <1>1, <1>3, OverflowOf DEF Inserting
<1>5. f.page = m_rootID /\ level \in Nat
  BY <1>1, <1>3 DEF Inserting, Route
<1>6. Distributes(all, g, LeastShare(level))
  <2> HIDE DEF all
  <2>1. QED
    BY <1>2, <1>4, <1>5, SplitsDistribute
<1>7. g[1] \in Seq(Entry) /\ g[2] \in Seq(Entry)
  BY <1>1, <1>3, <1>6, PartsOf
<1>8. left.mbr \in Regions /\ right.mbr \in Regions
  BY <1>5, <1>7, NodeOf
<1>9. DOMAIN nodes \subseteq Nat /\ IsFiniteSet(DOMAIN nodes) /\ m_rootID \in DOMAIN nodes
  BY <1>1, InStep DEF TreeOK
<1>10. n \in Nat /\ n \notin DOMAIN nodes /\ nn \in Nat /\ nn \notin DOMAIN nodes /\ nn # n
  <2> DEFINE used == DOMAIN nodes
  <2>1. used \in SUBSET Nat /\ IsFiniteSet(used)
    BY <1>9
  <2> HIDE DEF used
  <2>2. NewPageBeside(used) \in Nat \ used
    BY <2>1, NewPageIsNew
  <2>3. n \in Nat \ used
    BY <2>2 DEF used
  <2> HIDE DEF n
  <2> DEFINE more == used \cup {n}
  <2>4. more \in SUBSET Nat /\ IsFiniteSet(more)
    BY <2>1, <2>3, FS_AddElement
  <2> HIDE DEF more
  <2>5. NewPageBeside(more) \in Nat \ more
    BY <2>4, NewPageIsNew
  <2>6. QED
    BY <2>3, <2>5 DEF used, more
<1> HIDE DEF left, right, n, nn
<1>11. kids \in Seq(Entry)
  BY <1>8, <1>10, TwoKidsOf
<1> HIDE DEF kids, ptrR
<1>12. ThreePages(m_rootID, ptrR, n, left, nn, right, nodes, nodes')
  <2>1. nodes' = [p \in DOMAIN nodes \cup {n, nn} |->
                    CASE p = n -> left [] p = nn -> right [] p = m_rootID -> ptrR [] OTHER -> nodes[p]]
    BY <1>2 DEF left, right, ptrR, kids
  <2>2. QED
    BY <1>9, <1>10, <2>1 DEF ThreePages
<1>13. <<>> \in Seq(Frame)
  OBVIOUS
<1>14. Became(<<>>)
  BY <1>1, <1>13 DEF Became
<1> HIDE DEF all, level
<1>15. QED
  BY <1>1, <1>3, <1>4, <1>5, <1>6, <1>7, <1>10, <1>11, <1>12, <1>14, Zenon
     DEF ptrR, kids, left, right, all, level

LEMMA CondenseTreeDoes ==
  ASSUME TreeInv, CondenseTree
  PROVE  LET f == work[1]
             n == nodes[f.page]
             parent == Last(f.path)
             p == nodes[parent]
             at == PositionOf(p.kids, f.page)
         IN  /\ f \in CondenseFrames /\ f.fn = "condenseTree" /\ f.path \in Path /\ f.path # <<>>
             /\ f.toReinsert \in Seq(Nat) /\ CondenseOK(nodes, m_rootID, f)
             /\ f.page \in DOMAIN nodes /\ parent \in DOMAIN nodes /\ p.level = n.level + 1
             /\ at \in DOMAIN p.kids /\ p.kids[at].id = f.page
             /\ n \in Nodes /\ FitsIn(nodes, p) /\ p \in Nodes
             /\ Route(nodes, m_rootID, Front(f.path), parent)
             /\ OnlyAt(parent, IF Underfull(n)
                                 THEN DeleteEntry(p, at)
                                 ELSE Adjusted(p, Updated(p.kids, f.page, n.mbr), TightMBRs),
                       nodes, nodes')
             /\ Became(<<CondenseFrame(parent, Front(f.path),
                           IF Underfull(n) THEN Append(f.toReinsert, f.page) ELSE f.toReinsert)>>)
<1> DEFINE f == work[1]
           n == nodes[f.page]
           parent == Last(f.path)
           up == Front(f.path)
           p == nodes[parent]
           low == Underfull(n)
           at == PositionOf(p.kids, f.page)
           condensed == IF low THEN DeleteEntry(p, at)
                               ELSE Adjusted(p, Updated(p.kids, f.page, n.mbr), TightMBRs)
           list == IF low THEN Append(f.toReinsert, f.page) ELSE f.toReinsert
           g == CondenseFrame(parent, up, list)
<1>1. /\ Step("condenseTree") /\ f.path # <<>> /\ nodes' = [nodes EXCEPT ![parent] = condensed]
      /\ work' = <<g>> \o Tail(work)
  BY DEF CondenseTree, Become
<1>2. f \in CondenseFrames /\ CondenseOK(nodes, m_rootID, f)
  BY <1>1, InStep, FrameKinds DEF FrameOK
<1>3. /\ f.path \in Path /\ f.fn = "condenseTree" /\ f.toReinsert \in Seq(Nat)
      /\ Route(nodes, m_rootID, f.path, f.page) /\ Lineage(nodes, f.path, f.page)
  BY <1>2 DEF CondenseFrames, CondenseOK
<1>4. /\ parent \in DOMAIN nodes /\ parent \in Nat /\ up \in Path /\ f.page \in DOMAIN nodes
      /\ p.level = n.level + 1 /\ Route(nodes, m_rootID, up, parent)
  BY <1>1, <1>3, InStep, RouteUp
<1>5. Len(f.path) \in Nat /\ Len(f.path) >= 1 /\ parent = f.path[Len(f.path)]
  BY <1>1, <1>3, PathFront
<1> HIDE DEF parent, up
<1>6. f.page \in Children(p)
  BY <1>1, <1>3, <1>5 DEF Lineage
<1>7. /\ n \in Nodes /\ n.level \in Nat /\ f.page \in Nat
      /\ p \in Nodes /\ p.level \in Nat /\ p.kids \in Seq(Entry) /\ FitsIn(nodes, p)
  BY <1>1, <1>4, InStep, NodesTyped
<1>8. at \in DOMAIN p.kids /\ p.kids[at].id = f.page
  <2>1. PICK i \in DOMAIN p.kids : f.page = p.kids[i].id
    BY <1>4, <1>6, <1>7 DEF Children, KidIds
  <2>2. QED
    BY <1>7, <2>1, PositionFound
<1> HIDE DEF at, low
<1>9. list \in Seq(Nat)
  BY <1>3, <1>7
<1> HIDE DEF condensed, list
<1>10. OnlyAt(parent, condensed, nodes, nodes')
  BY <1>1, <1>4 DEF OnlyAt
<1>11. g \in Frame
  BY <1>4, <1>9, CondenseFrameOf
<1> HIDE DEF g
<1>12. <<g>> \in Seq(Frame)
  BY <1>11
<1>13. Became(<<g>>)
  BY <1>1, <1>12 DEF Became
<1>14. QED
  BY <1>1, <1>2, <1>3, <1>4, <1>7, <1>8, <1>10, <1>13, Zenon
     DEF g, condensed, list, at, low, parent, up

LEMMA CollapseRootDoes ==
  ASSUME TreeInv, CollapseRoot
  PROVE  LET f == work[1]
             n == nodes[m_rootID]
             child == n.kids[1].id
             list == f.toReinsert
         IN  /\ f \in CondenseFrames /\ f.fn = "condenseTree" /\ f.path = <<>> /\ f.page = m_rootID
             /\ list \in Seq(Nat) /\ n.level # 0 /\ Len(n.kids) = 1 /\ FitsIn(nodes, n)
             /\ child \in DOMAIN nodes /\ child # m_rootID /\ nodes[child].level = n.level - 1
             /\ child \in Children(n)
             /\ DOMAIN nodes' = DOMAIN nodes \ {child} /\ nodes'[m_rootID] = nodes[child]
             /\ \A p \in DOMAIN nodes \ {m_rootID, child} : nodes'[p] = nodes[p]
             /\ \A p \in DOMAIN nodes \ {m_rootID} : nodes[p].level < n.level
             /\ Became(Disposals(list))
<1> DEFINE f == work[1]
           tail == Tail(work)
           list == f.toReinsert
           n == nodes[m_rootID]
           child == n.kids[1].id
           m == nodes[child]
           new == Disposals(list)
<1>1. /\ Step("condenseTree") /\ f.path = <<>> /\ n.level # 0 /\ Len(n.kids) = 1
      /\ nodes' = [WithoutPage(child) EXCEPT ![m_rootID] = m]
      /\ work' = new \o tail
  BY DEF CollapseRoot, Become, AtRoot, OneChildLeft
<1>2. /\ list \in Seq(Nat) /\ f.page = m_rootID
      /\ \A i, j \in DOMAIN list : list[i] = list[j] => i = j
      /\ \A i \in DOMAIN list : list[i] \in DOMAIN nodes /\ nodes[list[i]].level < n.level
      /\ \A c : c \in HeldPages(f) <=> \E i \in DOMAIN list : c = list[i]
      /\ \A k \in DOMAIN tail : tail[k].fn = "return"
  BY <1>1, AtTheRoot
<1>3. f \in CondenseFrames /\ f.fn = "condenseTree"
  BY <1>1, InStep, FrameKinds
<1>4. /\ TreeOK(nodes, m_rootID) /\ m_rootID \in DOMAIN nodes /\ DOMAIN nodes \subseteq Nat
      /\ FitsIn(nodes, n) /\ n.kids \in Seq(Entry) /\ n.level \in Nat
  BY <1>1, InStep, NodesTyped DEF TreeOK
<1>5. OwnedOnce(nodes, m_rootID, f, tail)
  BY <1>1, InStep, HeldByTop
<1> HIDE DEF list, tail
<1>6. new \in Seq(Frame)
  BY <1>2, DisposalsOf
<1> HIDE DEF new
<1>7. \A c : c \in Children(n) <=> c = child
  BY <1>1, <1>4 DEF Children, KidIds
<1> HIDE DEF child
<1>8. child \in Children(n) /\ child \in DOMAIN nodes /\ child # m_rootID /\ m.level = n.level - 1
  <2>1. child \in Children(n)
    BY <1>7
  <2>2. QED
    BY <1>1, <1>4, <1>5, <2>1 DEF OwnedOnce, FitsIn, Children
<1>9. /\ DOMAIN nodes' = DOMAIN nodes \ {child} /\ nodes'[m_rootID] = m
      /\ \A p \in DOMAIN nodes \ {m_rootID, child} : nodes'[p] = nodes[p]
  BY <1>1, <1>4, <1>8 DEF WithoutPage
<1>10. \A c \in DOMAIN nodes \ {m_rootID} : nodes[c].level < n.level
  <2>1. \A c \in HeldPages(f) : nodes[c].level < n.level
    BY <1>2
  <2>2. \A k \in DOMAIN tail : HeldPages(tail[k]) = {}
    BY <1>2, NothingHeld
  <2>3. QED
    BY <1>4, <1>5, <2>1, <2>2, RootIsHighest
<1>11. Became(new)
  BY <1>1, <1>6 DEF Became, tail
<1>12. QED
  BY <1>1, <1>2, <1>3, <1>4, <1>8, <1>9, <1>10, <1>11, Zenon DEF new, list, child

LEMMA CondenseRootDoes ==
  ASSUME TreeInv, CondenseRoot
  PROVE  LET f == work[1]
             n == nodes[m_rootID]
         IN  /\ f \in CondenseFrames /\ f.fn = "condenseTree" /\ f.path = <<>> /\ f.page = m_rootID
             /\ f.toReinsert \in Seq(Nat) /\ ~OneChildLeft(n) /\ FitsIn(nodes, n)
             /\ m_rootID \in DOMAIN nodes
             /\ OnlyAt(m_rootID, Adjusted(n, n.kids, TightMBRs), nodes, nodes')
             /\ Became(Disposals(f.toReinsert))
<1> DEFINE f == work[1]
           list == f.toReinsert
           n == nodes[m_rootID]
           node == Adjusted(n, n.kids, TightMBRs)
           new == Disposals(list)
<1>1. /\ Step("condenseTree") /\ f.path = <<>> /\ nodes' = [nodes EXCEPT ![m_rootID] = node]
      /\ work' = new \o Tail(work) /\ ~OneChildLeft(n)
  BY DEF CondenseRoot, Become, AtRoot
<1>2. /\ list \in Seq(Nat) /\ f.page = m_rootID
      /\ \A i, j \in DOMAIN list : list[i] = list[j] => i = j
  BY <1>1, AtTheRoot
<1>3. f \in CondenseFrames /\ f.fn = "condenseTree"
  BY <1>1, InStep, FrameKinds
<1> HIDE DEF list
<1>4. new \in Seq(Frame)
  BY <1>2, DisposalsOf
<1> HIDE DEF new, node
<1>5. FitsIn(nodes, n) /\ m_rootID \in DOMAIN nodes
  BY <1>1, InStep, NodesTyped
<1>6. OnlyAt(m_rootID, node, nodes, nodes')
  BY <1>1, <1>5 DEF OnlyAt
<1>7. Became(new)
  BY <1>1, <1>4 DEF Became
<1>8. QED
  BY <1>1, <1>2, <1>3, <1>5, <1>6, <1>7, Zenon DEF new, node, list

LEMMA DeleteNodeDoes ==
  ASSUME TreeInv, DeleteNode
  PROVE  LET page == work[1].page
             n == nodes[page]
         IN  /\ work[1].fn = "deleteNode" /\ page \in DOMAIN nodes /\ page # m_rootID
             /\ n \in Nodes /\ FitsIn(nodes, n) /\ (n.level # 0 => DistinctIds(n.kids))
             /\ \A p \in DOMAIN nodes : page \notin Children(nodes[p])
             /\ ~Holds(Tail(work), page)
             /\ DOMAIN nodes' = DOMAIN nodes \ {page}
             /\ \A p \in DOMAIN nodes \ {page} : nodes'[p] = nodes[p]
             /\ Became(Impls(n.kids, n.level, TRUE))
<1> DEFINE f == work[1]
           page == f.page
           n == nodes[page]
           fresh == TRUE
           new == Impls(n.kids, n.level, fresh)
<1>1. Step("deleteNode") /\ nodes' = WithoutPage(page) /\ work' = new \o Tail(work)
  BY Zenon DEF DeleteNode, Become, ReinsertEntries, Impls
<1>2. fresh \in BOOLEAN
  OBVIOUS
<1> HIDE DEF fresh
<1>3. f.fn = "deleteNode" /\ page \in DOMAIN nodes /\ \A c : c \in HeldPages(f) <=> c = page
  BY <1>1, InStep DEF FrameOK, HeldPages
<1>4. n \in Nodes /\ FitsIn(nodes, n) /\ n.kids \in Seq(Entry) /\ n.level \in Nat
  BY <1>1, <1>3, InStep, NodesTyped
<1>5. OwnedOnce(nodes, m_rootID, f, Tail(work))
  BY <1>1, InStep, HeldByTop
<1> HIDE DEF page
<1>6. /\ page # m_rootID /\ \A p \in DOMAIN nodes : page \notin Children(nodes[p])
      /\ ~Holds(Tail(work), page)
  BY <1>3, <1>5 DEF OwnedOnce
<1>7. n.level # 0 => DistinctIds(n.kids)
  BY <1>4 DEF FitsIn
<1>8. new \in Seq(Frame)
  BY <1>2, <1>4, <1>7, ImplsOf
<1> HIDE DEF new
<1>9. DOMAIN nodes' = DOMAIN nodes \ {page} /\ \A p \in DOMAIN nodes \ {page} : nodes'[p] = nodes[p]
  BY <1>1 DEF WithoutPage
<1>10. Became(new)
  BY <1>1, <1>8 DEF Became
<1>11. QED
  BY <1>3, <1>4, <1>6, <1>7, <1>9, <1>10, Zenon DEF new, page, fresh

LEMMA FinishDoes ==
  ASSUME TreeInv, Finish
  PROVE  work[1] \in ReturnFrames /\ work[1].fn = "return" /\ nodes' = nodes /\ Became(<<>>)
<1>1. Step("return") /\ nodes' = nodes /\ work' = <<>> \o Tail(work)
  BY DEF Finish, Become
<1>2. work[1] \in ReturnFrames /\ work[1].fn = "return"
  BY <1>1, InStep, FrameKinds
<1>3. <<>> \in Seq(Frame)
  OBVIOUS
<1>4. QED
  BY <1>1, <1>2, <1>3 DEF Became

LEMMA InsertDataDoes ==
  ASSUME TreeInv, todo \in Seq(Object), InsertData
  PROVE  LET new == <<ChooseFrame(m_rootID, todo[1], 0, <<>>), Return(1)>>
         IN  /\ work = <<>> /\ todo # <<>> /\ todo[1] \in Object /\ todo[1] \in Entry
             /\ m_rootID' = m_rootID /\ nodes' = nodes
             /\ ChooseFrame(m_rootID, todo[1], 0, <<>>) \in Frame /\ Return(1) \in Frame
             /\ work' = new /\ new \in Seq(Frame)
<1> DEFINE level == 0
           path == <<>>
           delta == 1
           f == ChooseFrame(m_rootID, todo[1], level, path)
           g == Return(delta)
<1>1. /\ work = <<>> /\ todo # <<>> /\ work' = <<f, g>> /\ m_rootID' = m_rootID /\ nodes' = nodes
  BY DEF InsertData
<1>2. m_rootID \in Nat
  BY DEF TreeInv, Sound, TreeOK
<1>3. todo[1] \in Entry /\ todo[1] \in Object
  BY <1>1, RTreeAssumption
<1>4. level \in Nat /\ path \in Path /\ delta \in {-1, 1}
  BY DEF Path
<1> HIDE DEF level, path, delta
<1>5. f \in Frame
  BY <1>2, <1>3, <1>4, ChooseFrameOf
<1>6. g \in Frame
  BY <1>4, ReturnOf
<1> HIDE DEF f, g
<1>7. <<f, g>> \in Seq(Frame)
  BY <1>5, <1>6
<1>8. QED
  BY <1>1, <1>3, <1>5, <1>6, <1>7, Zenon DEF f, g, level, path, delta

LEMMA DeleteDataDoes ==
  ASSUME TreeInv, NEW o \in Object, DeleteData(o)
  PROVE  \E path \in Path, page \in DOMAIN nodes : \E child \in DOMAIN nodes[page].kids :
           LET leaf == nodes[page]
               new == <<CondenseFrame(page, path, <<>>), Return(-1)>>
           IN  /\ work = <<>> /\ m_rootID' = m_rootID
               /\ leaf.level = 0 /\ leaf \in Nodes /\ FitsIn(nodes, leaf) /\ leaf.kids[child] = o
               /\ Route(nodes, m_rootID, path, page) /\ Lineage(nodes, path, page)
               /\ OnlyAt(page, DeleteEntry(leaf, child), nodes, nodes')
               /\ CondenseFrame(page, path, <<>>) \in Frame /\ Return(-1) \in Frame
               /\ work' = new /\ new \in Seq(Frame)
<1>1. PICK p \in FindLeaf(o) :
        LET leaf == nodes[Last(p)]
            child == SelectInSeq(leaf.kids, LAMBDA e : e = o)
        IN  /\ nodes' = [nodes EXCEPT ![Last(p)] = DeleteEntry(leaf, child)]
            /\ work' = <<CondenseFrame(Last(p), Front(p), <<>>), Return(-1)>>
  BY DEF DeleteData
<1>2. work = <<>> /\ m_rootID' = m_rootID
  BY DEF DeleteData
<1>3. TreeOK(nodes, m_rootID)
  BY <1>2 DEF TreeInv, Sound
<1> DEFINE page == Last(p)
           path == Front(p)
           leaf == nodes[page]
           child == PlaceOf(leaf.kids, o)
           node == DeleteEntry(leaf, child)
           list == <<>>
           delta == -1
           f == CondenseFrame(page, path, list)
           g == Return(delta)
<1>4. nodes' = [nodes EXCEPT ![page] = node] /\ work' = <<f, g>>
  BY <1>1 DEF PlaceOf
<1>5. /\ path \in Path /\ page \in DOMAIN nodes /\ leaf.level = 0
      /\ Route(nodes, m_rootID, path, page) /\ Lineage(nodes, path, page) /\ o \in ToSet(leaf.kids)
  <2>1. p \in LeafPaths(o)
    BY DEF FindLeaf
  <2>2. QED
    BY <1>3, <2>1, LeafPathsOf
<1> HIDE DEF page, path
<1>6. FitsIn(nodes, leaf) /\ leaf \in Nodes /\ leaf.kids \in Seq(Entry) /\ page \in Nat
  BY <1>3, <1>5, NodesTyped
<1>7. child \in DOMAIN leaf.kids /\ leaf.kids[child] = o
  BY <1>5, <1>6, PositionOfObject
<1> HIDE DEF child, node
<1>8. OnlyAt(page, node, nodes, nodes')
  BY <1>4, <1>5 DEF OnlyAt
<1>9. list \in Seq(Nat) /\ delta \in {-1, 1}
  OBVIOUS
<1> HIDE DEF list, delta
<1>10. f \in Frame /\ g \in Frame
  BY <1>5, <1>6, <1>9, CondenseFrameOf, ReturnOf
<1> HIDE DEF f, g
<1>11. <<f, g>> \in Seq(Frame)
  BY <1>10
<1> HIDE DEF leaf
<1>12. /\ leaf.level = 0 /\ leaf \in Nodes /\ FitsIn(nodes, leaf) /\ leaf.kids[child] = o
       /\ child \in DOMAIN leaf.kids /\ OnlyAt(page, DeleteEntry(leaf, child), nodes, nodes')
       /\ CondenseFrame(page, path, <<>>) \in Frame /\ Return(-1) \in Frame
       /\ work' = <<CondenseFrame(page, path, <<>>), Return(-1)>>
       /\ <<CondenseFrame(page, path, <<>>), Return(-1)>> \in Seq(Frame)
  BY <1>4, <1>5, <1>6, <1>7, <1>8, <1>10, <1>11, Zenon DEF node, f, g, list, delta, leaf
<1>13. QED
  BY <1>2, <1>5, <1>12, Zenon DEF leaf

------------------------------------------------------------------------------
(***************************************************************************)
(* Calls keep the way.                                                     *)
(***************************************************************************)
LEMMA OneOnTheWay ==
  ASSUME TreeInv, WayInv, work # <<>>, work[1].fn # "return", NEW g, Became(<<g>>),
         g.fn # "return", Upward(nodes', g)
  PROVE  WayInv'
<1> DEFINE new == <<g>>
<1>1. (\A k \in DOMAIN new : new[k].fn # "return") /\ new[1] = g
  OBVIOUS
<1> HIDE DEF new
<1>2. QED
  BY <1>1, WayKept DEF new

\* The parent, and then reinsertions.
LEMMA ParentOnTheWay ==
  ASSUME TreeInv, WayInv, work # <<>>, work[1].fn # "return",
         NEW page \in DOMAIN nodes, NEW path \in Path, Route(nodes, m_rootID, path, page),
         Lineage(nodes, path, page), \A p \in DOMAIN nodes \ {page} : nodes'[p] = nodes[p],
         NEW mbr \in Regions, NEW force \in BOOLEAN, NEW rest \in Seq(Frame),
         \A k \in DOMAIN rest : Waiting(rest[k]) /\ rest[k].fn # "return",
         Became(AdjustParent(page, mbr, path, force) \o rest)
  PROVE  WayInv'
<1> DEFINE up == AdjustParent(page, mbr, path, force)
           new == up \o rest
<1>1. TreeOK(nodes, m_rootID) /\ page \in Nat
  BY NodesTyped DEF TreeInv, Sound
<1>2. up \in Seq(Frame) /\ Len(up) \in {0, 1} /\ \A k \in DOMAIN up : up[k].fn = "adjustTree"
  BY <1>1, AdjustParentOf
<1>3. up # <<>> => Upward(nodes', up[1])
  BY <1>1, ParentIsUpward
<1> HIDE DEF up
<1>4. /\ new \in Seq(Frame) /\ Len(new) = Len(up) + Len(rest)
      /\ \A i \in 1 .. Len(up) : new[i] = up[i]
      /\ \A i \in 1 .. Len(rest) : new[Len(up) + i] = rest[i]
  BY <1>2, Concatenated
<1> HIDE DEF new
<1>5. CASE up = <<>>
  <2>1. Len(up) = 0 /\ DOMAIN new = 1 .. Len(rest) /\ DOMAIN rest = 1 .. Len(rest) /\ Len(rest) \in Nat
    BY <1>4, <1>5
  <2>2. \A k \in 1 .. Len(rest) : 0 + k = k
    OBVIOUS
  <2>3. \A k \in DOMAIN new : new[k] = rest[k] /\ k \in DOMAIN rest
    BY <1>4, <2>1, <2>2
  <2>4. new # <<>> => 1 \in DOMAIN new
    BY <1>4
  <2>5. new # <<>> => Upward(nodes', new[1])
    BY <2>3, <2>4, WaitingIsUpward
  <2>6. QED
    BY <2>3, <2>5, WayKept DEF new, up
<1>6. CASE up # <<>>
  <2>1. Len(up) = 1 /\ DOMAIN up = {1} /\ Len(rest) \in Nat
    BY <1>2, <1>6
  <2>2. DOMAIN new = 1 .. 1 + Len(rest) /\ DOMAIN rest = 1 .. Len(rest)
    BY <1>4, <2>1
  <2>3. new[1] = up[1]
    BY <1>4, <2>1
  <2>4. ASSUME NEW k \in DOMAIN new, k # 1
        PROVE  new[k].fn # "return"
    <3>1. k - 1 \in 1 .. Len(rest) /\ 1 + (k - 1) = k
      BY <2>1, <2>2, <2>4
    <3>2. new[1 + (k - 1)] = rest[k - 1]
      BY <1>4, <2>1, <3>1
    <3>3. rest[k - 1].fn # "return"
      BY <2>2, <3>1
    <3>4. QED
      BY <3>1, <3>2, <3>3
  <2>5. new[1].fn = "adjustTree"
    BY <1>2, <2>1, <2>3
  <2>6. \A k \in DOMAIN new : new[k].fn # "return"
    BY <2>4, <2>5
  <2>7. Upward(nodes', new[1])
    BY <1>3, <1>6, <2>3
  <2>8. QED
    BY <2>6, <2>7, WayKept DEF new, up
<1>7. QED
  BY <1>5, <1>6

LEMMA ParentOrNot ==
  ASSUME TreeInv, WayInv, work # <<>>, work[1].fn # "return",
         NEW page \in DOMAIN nodes, NEW path \in Path, Route(nodes, m_rootID, path, page),
         Lineage(nodes, path, page), \A p \in DOMAIN nodes \ {page} : nodes'[p] = nodes[p],
         NEW mbr \in Regions, NEW force \in BOOLEAN, NEW go \in BOOLEAN,
         Became(IF go THEN AdjustParent(page, mbr, path, force) ELSE <<>>)
  PROVE  WayInv'
<1> DEFINE up == AdjustParent(page, mbr, path, force)
           rest == <<>>
<1>1. rest \in Seq(Frame) /\ DOMAIN rest = {}
  OBVIOUS
<1>2. page \in Nat /\ TreeOK(nodes, m_rootID)
  BY NodesTyped DEF TreeInv, Sound
<1>3. up \in Seq(Frame)
  BY <1>2, AdjustParentOf
<1> HIDE DEF up, rest
<1>4. CASE go
  <2>1. up \o rest = up
    BY <1>3 DEF rest
  <2>2. Became(up \o rest)
    BY <1>4, <2>1 DEF up
  <2>3. QED
    BY <1>1, <2>2, ParentOnTheWay DEF up
<1>5. CASE ~go
  <2>1. Became(rest)
    BY <1>5 DEF rest
  <2>2. (\A k \in DOMAIN rest : rest[k].fn # "return") /\ rest = <<>>
    BY <1>1 DEF rest
  <2>3. QED
    BY <2>1, <2>2, WayKept
<1>6. QED
  BY <1>4, <1>5

LEMMA WayDownStep ==
  ASSUME TreeInv, WayInv, Reinsert \/ Descend \/ Arrive
  PROVE  WayInv'
<1> DEFINE f == work[1]
<1>1. ASSUME Reinsert
      PROVE  WayInv'
  <2> DEFINE g == ChooseFrame(m_rootID, f.entry, f.level, <<>>)
  <2>1. Step("insertData_impl")
    BY <1>1 DEF Reinsert
  <2>2. Became(<<g>>)
    BY <1>1, ReinsertDoes
  <2>3. g.fn = "chooseSubtree" /\ g.path = <<>>
    BY DEF ChooseFrame
  <2> HIDE DEF g
  <2>4. Upward(nodes', g)
    BY <2>3 DEF Upward, Lineage
  <2>5. QED
    BY <2>1, <2>2, <2>3, <2>4, InStep, OneOnTheWay
<1>2. ASSUME Descend
      PROVE  WayInv'
  <2>1. Step("chooseSubtree")
    BY <1>2, Zenon DEF Descend
  <2>2. /\ f \in ChooseFrames /\ nodes' = nodes /\ f.fn = "chooseSubtree"
    BY <1>2, DescendDoes
  <2>3. PICK c \in Children(nodes[f.page]) :
          Became(<<ChooseFrame(c, f.entry, f.level, Append(f.path, f.page))>>)
    BY <1>2, DescendDoes
  <2> DEFINE g == ChooseFrame(c, f.entry, f.level, Append(f.path, f.page))
  <2>4. f.path \in Path /\ f.page \in Nat
    BY <2>2 DEF ChooseFrames
  <2>5. Lineage(nodes, f.path, f.page)
    BY <2>1, <2>2, InStep DEF WayInv, Upward
  <2>6. Lineage(nodes, Append(f.path, f.page), c)
    BY <2>4, <2>5, LineageDown
  <2>7. g.fn = "chooseSubtree" /\ g.path = Append(f.path, f.page) /\ g.page = c
    BY DEF ChooseFrame
  <2>8. Became(<<g>>)
    BY <2>3
  <2> HIDE DEF g
  <2>9. Upward(nodes', g)
    BY <2>2, <2>6, <2>7 DEF Upward
  <2>10. QED
    BY <2>1, <2>7, <2>8, <2>9, InStep, OneOnTheWay
<1>3. ASSUME Arrive
      PROVE  WayInv'
  <2> DEFINE g == InsertFrame(f.page, nodes[f.page], f.entry, f.path, FALSE)
  <2>1. Step("chooseSubtree")
    BY <1>3 DEF Arrive
  <2>2. f.fn = "chooseSubtree" /\ nodes' = nodes /\ Became(<<g>>)
    BY <1>3, ArriveDoes
  <2>3. Lineage(nodes, f.path, f.page)
    BY <2>1, <2>2, InStep DEF WayInv, Upward
  <2>4. g.fn = "insertData" /\ g.path = f.path /\ g.page = f.page /\ g.node = nodes[f.page]
    BY DEF InsertFrame
  <2> HIDE DEF g
  <2>5. Upward(nodes', g)
    BY <2>2, <2>3, <2>4 DEF Upward
  <2>6. QED
    BY <2>1, <2>2, <2>4, <2>5, InStep, OneOnTheWay
<1>4. QED
  BY <1>1, <1>2, <1>3

LEMMA RunningOnTheWay ==
  ASSUME TreeInv, WayInv, NEW fn, Step(fn), fn \in {"insertData", "adjustTree", "adjustTree2"}
  PROVE  /\ work # <<>> /\ work[1].fn = fn /\ work[1].fn # "return"
         /\ Lineage(nodes, work[1].path, work[1].page)
<1>1. work # <<>> /\ work[1].fn = fn
  BY InStep
<1>2. QED
  BY <1>1 DEF WayInv, Upward

LEMMA WayOfInsertions ==
  ASSUME ReinsertsSome, TreeInv, WayInv, InsertFits \/ AdjustTree \/ ForcedReinsert
  PROVE  WayInv'
<1> DEFINE f == work[1]
<1>1. ASSUME InsertFits
      PROVE  WayInv'
  <2> DEFINE m == WithEntry(f.node, f.entry)
             go == GoesUp(f)
             no == FALSE
  <2>1. Step("insertData")
    BY <1>1 DEF InsertFits
  <2>2. work # <<>> /\ f.fn # "return" /\ Lineage(nodes, f.path, f.page)
    BY <2>1, RunningOnTheWay
  <2>3. /\ Inserting(f) /\ m.mbr \in Regions /\ OnlyAt(f.page, m, nodes, nodes') /\ go \in BOOLEAN
        /\ Became(IF go THEN AdjustParent(f.page, m.mbr, f.path, no) ELSE <<>>)
    BY <1>1, InsertFitsDoes
  <2>4. no \in BOOLEAN
    OBVIOUS
  <2> HIDE DEF no, go, m
  <2>5. f.page \in DOMAIN nodes /\ f.path \in Path /\ Route(nodes, m_rootID, f.path, f.page)
    BY <2>3 DEF Inserting
  <2>6. \A p \in DOMAIN nodes \ {f.page} : nodes'[p] = nodes[p]
    BY <2>3 DEF OnlyAt
  <2>7. QED
    BY <2>2, <2>3, <2>4, <2>5, <2>6, ParentOrNot
<1>2. ASSUME AdjustTree
      PROVE  WayInv'
  <2> DEFINE go == AdjustsAnyway(f)
             m == WithChild(nodes[f.page], f, go)
  <2>1. Step("adjustTree")
    BY <1>2 DEF AdjustTree
  <2>2. work # <<>> /\ f.fn # "return" /\ Lineage(nodes, f.path, f.page)
    BY <2>1, RunningOnTheWay
  <2>3. /\ f.page \in DOMAIN nodes /\ f.path \in Path /\ Route(nodes, m_rootID, f.path, f.page)
        /\ f.mbr \in Regions /\ FitsIn(nodes, nodes[f.page])
        /\ f.force \in BOOLEAN /\ go \in BOOLEAN /\ OnlyAt(f.page, m, nodes, nodes')
        /\ Became(IF go THEN AdjustParent(f.page, m.mbr, f.path, f.force) ELSE <<>>)
    BY <1>2, AdjustTreeDoes
  <2> HIDE DEF go
  <2>4. m.mbr \in Regions
    BY <2>3, WithChildOf
  <2> HIDE DEF m
  <2>5. \A p \in DOMAIN nodes \ {f.page} : nodes'[p] = nodes[p]
    BY <2>3 DEF OnlyAt
  <2>6. QED
    BY <2>2, <2>3, <2>4, <2>5, ParentOrNot
<1>3. ASSUME ForcedReinsert
      PROVE  WayInv'
  <2> DEFINE level == f.node.level
             yes == TRUE
             no == FALSE
  <2>1. Step("insertData")
    BY <1>3 DEF ForcedReinsert
  <2>2. work # <<>> /\ f.fn # "return" /\ Lineage(nodes, f.path, f.page)
    BY <2>1, RunningOnTheWay
  <2>3. /\ Inserting(f)
        /\ \E r : /\ Distributes(Overflowing(f.node, f.entry), r, 1)
                  /\ r[1] \in Seq(Entry) /\ r[2] \in Seq(Entry)
                  /\ OnlyAt(f.page, Node(level, r[1]), nodes, nodes')
                  /\ Became(AdjustParent(f.page, Node(level, r[1]).mbr, f.path, yes)
                              \o Impls(r[2], level, no))
                  /\ Full(f.node)
    BY <1>3, ForcedReinsertDoes
  <2>4. PICK r : /\ Distributes(Overflowing(f.node, f.entry), r, 1)
                 /\ r[1] \in Seq(Entry) /\ r[2] \in Seq(Entry)
                 /\ OnlyAt(f.page, Node(level, r[1]), nodes, nodes')
                 /\ Became(AdjustParent(f.page, Node(level, r[1]).mbr, f.path, yes)
                             \o Impls(r[2], level, no))
                 /\ Full(f.node)
    BY <2>3
  <2>5. yes \in BOOLEAN /\ no \in BOOLEAN
    OBVIOUS
  <2> HIDE DEF yes, no
  <2>6. /\ f.page \in DOMAIN nodes /\ f.path \in Path /\ Route(nodes, m_rootID, f.path, f.page)
        /\ level \in Nat
    BY <2>3 DEF Inserting
  <2>7. level # 0 => DistinctIds(r[2])
    BY <2>3, <2>4, PartsOf
  <2> DEFINE rest == Impls(r[2], level, no)
  <2>8. /\ rest \in Seq(Frame) /\ \A k \in DOMAIN rest : Waiting(rest[k]) /\ rest[k].fn # "return"
    <3>1. /\ rest \in Seq(Frame) /\ DOMAIN rest = DOMAIN r[2]
          /\ \A k \in DOMAIN r[2] : Waiting(rest[k]) /\ rest[k].fn = "insertData_impl"
      BY <2>4, <2>5, <2>6, <2>7, ImplsOf
    <3>2. QED
      BY <3>1
  <2>9. Node(level, r[1]).mbr \in Regions
    BY <2>4, <2>6, NodeOf
  <2> HIDE DEF rest
  <2>10. Became(AdjustParent(f.page, Node(level, r[1]).mbr, f.path, yes) \o rest)
    BY <2>4 DEF rest
  <2>11. \A p \in DOMAIN nodes \ {f.page} : nodes'[p] = nodes[p]
    BY <2>4 DEF OnlyAt
  <2>12. QED
    BY <2>2, <2>5, <2>6, <2>8, <2>9, <2>10, <2>11, ParentOnTheWay
<1>4. QED
  BY <1>1, <1>2, <1>3

LEMMA WayOfSplits ==
  ASSUME TreeInv, WayInv, SplitNode \/ AdjustTreeAfterSplit \/ SplitRoot
  PROVE  WayInv'
<1> DEFINE f == work[1]
<1>1. ASSUME SplitNode
      PROVE  WayInv'
  <2> DEFINE level == f.node.level
  <2>1. Step("insertData")
    BY <1>1 DEF SplitNode
  <2>2. work # <<>> /\ f.fn # "return" /\ Lineage(nodes, f.path, f.page)
    BY <2>1, RunningOnTheWay
  <2>3. Inserting(f) /\ f.path # <<>> /\ TreeOK(nodes, m_rootID)
    BY <1>1, <2>1, SplitNodeDoes, InStep
  <2>4. PICK g, nn : /\ TwoPages(f.page, Node(level, g[1]), nn, Node(level, g[2]), nodes, nodes')
                     /\ Became(<<[fn |-> "adjustTree2", page |-> Last(f.path),
                                  child |-> f.page, mbr |-> Node(level, g[1]).mbr,
                                  entry |-> [id |-> nn, mbr |-> Node(level, g[2]).mbr],
                                  path |-> Front(f.path)]>>)
    BY <1>1, SplitNodeDoes
  <2> DEFINE h == [fn |-> "adjustTree2", page |-> Last(f.path),
                   child |-> f.page, mbr |-> Node(level, g[1]).mbr,
                   entry |-> [id |-> nn, mbr |-> Node(level, g[2]).mbr], path |-> Front(f.path)]
  <2>5. \A p \in DOMAIN nodes \ {f.page} : nodes'[p] = nodes[p]
    BY <2>4 DEF TwoPages
  <2>6. f.path \in Path /\ Route(nodes, m_rootID, f.path, f.page)
    BY <2>3 DEF Inserting
  <2>7. Lineage(nodes', Front(f.path), Last(f.path)) /\ f.page \in Children(nodes'[Last(f.path)])
    BY <2>2, <2>3, <2>5, <2>6, LineageUp
  <2>8. h.fn = "adjustTree2" /\ h.page = Last(f.path) /\ h.path = Front(f.path) /\ h.child = f.page
    OBVIOUS
  <2>9. Became(<<h>>)
    BY <2>4
  <2> HIDE DEF h
  <2>10. Upward(nodes', h)
    BY <2>7, <2>8 DEF Upward
  <2>11. QED
    BY <2>2, <2>8, <2>9, <2>10, OneOnTheWay
<1>2. ASSUME AdjustTreeAfterSplit
      PROVE  WayInv'
  <2> DEFINE go == AdjustsAfterSplit(f)
             n == WithChild(nodes[f.page], f, go)
             g == InsertFrame(f.page, n, f.entry, f.path, go)
  <2>1. Step("adjustTree2")
    BY <1>2 DEF AdjustTreeAfterSplit
  <2>2. work # <<>> /\ f.fn # "return" /\ Lineage(nodes, f.path, f.page)
    BY <2>1, RunningOnTheWay
  <2>3. /\ nodes[f.page].level # 0 /\ FitsIn(nodes, nodes[f.page]) /\ f.mbr \in Regions
        /\ go \in BOOLEAN /\ nodes' = nodes /\ Became(<<g>>)
    BY <1>2, AdjustTreeAfterSplitDoes
  <2> HIDE DEF go
  <2>4. n.level # 0
    BY <2>3, WithChildOf
  <2>5. g.fn = "insertData" /\ g.path = f.path /\ g.page = f.page /\ g.node = n
    BY DEF InsertFrame
  <2> HIDE DEF n, g
  <2>6. Upward(nodes', g)
    BY <2>2, <2>3, <2>4, <2>5 DEF Upward
  <2>7. QED
    BY <2>2, <2>3, <2>5, <2>6, OneOnTheWay
<1>3. ASSUME SplitRoot
      PROVE  WayInv'
  <2>1. Step("insertData")
    BY <1>3 DEF SplitRoot
  <2>2. work # <<>> /\ f.fn # "return"
    BY <2>1, RunningOnTheWay
  <2> DEFINE new == <<>>
  <2>3. Became(new)
    BY <1>3, SplitRootDoes
  <2>4. (\A k \in DOMAIN new : new[k].fn # "return") /\ new = <<>>
    OBVIOUS
  <2> HIDE DEF new
  <2>5. QED
    BY <2>2, <2>3, <2>4, WayKept
<1>4. QED
  BY <1>1, <1>2, <1>3

LEMMA AllWaitingOnTheWay ==
  ASSUME TreeInv, WayInv, work # <<>>, work[1].fn # "return", NEW new, Became(new),
         \A k \in DOMAIN new : Waiting(new[k]) /\ new[k].fn # "return"
  PROVE  WayInv'
<1>1. new # <<>> => 1 \in DOMAIN new
  BY DEF Became
<1>2. new # <<>> => Upward(nodes', new[1])
  BY <1>1, WaitingIsUpward
<1>3. QED
  BY <1>2, WayKept

LEMMA WayOfDeletions ==
  ASSUME TreeInv, WayInv, CondenseTree \/ CollapseRoot \/ CondenseRoot \/ DeleteNode
  PROVE  WayInv'
<1> DEFINE f == work[1]
<1>1. ASSUME CondenseTree
      PROVE  WayInv'
  <2> DEFINE g == CondenseFrame(Last(f.path), Front(f.path),
                    IF Underfull(nodes[f.page]) THEN Append(f.toReinsert, f.page) ELSE f.toReinsert)
  <2>1. Step("condenseTree")
    BY <1>1 DEF CondenseTree
  <2>2. Became(<<g>>)
    BY <1>1, CondenseTreeDoes
  <2>3. g.fn = "condenseTree"
    BY DEF CondenseFrame
  <2> HIDE DEF g
  <2>4. Upward(nodes', g)
    BY <2>3 DEF Upward
  <2>5. QED
    BY <2>1, <2>2, <2>3, <2>4, InStep, OneOnTheWay
<1>2. ASSUME CollapseRoot \/ CondenseRoot
      PROVE  WayInv'
  <2>1. Step("condenseTree") /\ f.path = <<>>
    BY <1>2 DEF CollapseRoot, CondenseRoot, AtRoot
  <2>2. Became(Disposals(f.toReinsert))
    BY <1>2, CollapseRootDoes, CondenseRootDoes
  <2>3. /\ f.toReinsert \in Seq(Nat)
        /\ \A i, j \in DOMAIN f.toReinsert : f.toReinsert[i] = f.toReinsert[j] => i = j
    BY <2>1, AtTheRoot
  <2>4. \A k \in DOMAIN Disposals(f.toReinsert) :
          Disposals(f.toReinsert)[k].fn = "deleteNode" /\ Waiting(Disposals(f.toReinsert)[k])
    BY <2>3, DisposalsOf
  <2>5. work # <<>> /\ f.fn = "condenseTree"
    BY <2>1, InStep
  <2>6. QED
    BY <2>2, <2>4, <2>5, AllWaitingOnTheWay
<1>3. ASSUME DeleteNode
      PROVE  WayInv'
  <2> DEFINE n == nodes[f.page]
             yes == TRUE
  <2>1. Step("deleteNode")
    BY <1>3 DEF DeleteNode
  <2>2. n \in Nodes /\ (n.level # 0 => DistinctIds(n.kids)) /\ Became(Impls(n.kids, n.level, yes))
    BY <1>3, DeleteNodeDoes
  <2>3. yes \in BOOLEAN /\ n.kids \in Seq(Entry) /\ n.level \in Nat
    BY <2>2 DEF Nodes
  <2> HIDE DEF yes
  <2>4. /\ DOMAIN Impls(n.kids, n.level, yes) = DOMAIN n.kids
        /\ \A k \in DOMAIN n.kids : /\ Impls(n.kids, n.level, yes)[k].fn = "insertData_impl"
                                    /\ Waiting(Impls(n.kids, n.level, yes)[k])
    BY <2>2, <2>3, ImplsOf
  <2>5. work # <<>> /\ f.fn = "deleteNode"
    BY <2>1, InStep
  <2>6. QED
    BY <2>2, <2>4, <2>5, AllWaitingOnTheWay
<1>4. QED
  BY <1>1, <1>2, <1>3

\* A call begins.
LEMMA WayOfCalls ==
  ASSUME TreeInv, NEW f \in Frame, NEW g, g.fn = "return", f.fn # "return", work' = <<f, g>>,
         Upward(nodes', f)
  PROVE  WayInv'
<1> DEFINE new == <<f, g>>
<1>1. DOMAIN new = {1, 2} /\ Len(new) = 2 /\ new[1] = f /\ new[2] = g /\ new # <<>>
  OBVIOUS
<1> HIDE DEF new
<1>2. BottomOK(new)
  BY <1>1 DEF BottomOK
<1>3. QED
  BY <1>1, <1>2 DEF WayInv, new

LEMMA WayStep ==
  ASSUME ReinsertsSome, TreeInv, ClientOK, WayInv, [Next]_vars
  PROVE  WayInv'
<1>1. ASSUME InsertData
      PROVE  WayInv'
  <2> DEFINE one == 1
             f == ChooseFrame(m_rootID, todo[1], 0, <<>>)
             g == Return(one)
  <2>0. todo \in Seq(Object)
    BY DEF ClientOK
  <2>1. /\ ChooseFrame(m_rootID, todo[1], 0, <<>>) \in Frame
        /\ work' = <<ChooseFrame(m_rootID, todo[1], 0, <<>>), Return(1)>>
    BY <1>1, <2>0, InsertDataDoes
  <2>2. f.fn = "chooseSubtree" /\ f.path = <<>> /\ g.fn = "return"
    BY DEF ChooseFrame, Return
  <2>5. f \in Frame /\ work' = <<f, g>>
    BY <2>1
  <2> HIDE DEF f, g
  <2>3. Upward(nodes', f)
    BY <2>2 DEF Upward, Lineage
  <2>4. QED
    BY <2>5, <2>2, <2>3, WayOfCalls
<1>2. ASSUME NEW o \in Object, DeleteData(o)
      PROVE  WayInv'
  <2> DEFINE minus == -1
             none == <<>>
  <2>1. PICK path \in Path, page \in DOMAIN nodes :
          CondenseFrame(page, path, none) \in Frame
            /\ work' = <<CondenseFrame(page, path, none), Return(minus)>>
    BY <1>2, DeleteDataDoes
  <2> DEFINE f == CondenseFrame(page, path, none)
             g == Return(minus)
  <2>2. f.fn = "condenseTree" /\ g.fn = "return" /\ f \in Frame /\ work' = <<f, g>>
    BY <2>1 DEF CondenseFrame, Return
  <2> HIDE DEF f, g
  <2>3. Upward(nodes', f)
    BY <2>2 DEF Upward
  <2>4. QED
    BY <2>2, <2>3, WayOfCalls
<1>3. ASSUME UNCHANGED <<nodes, m_rootID, work>>
      PROVE  WayInv'
  BY <1>3 DEF WayInv, Upward, BottomOK
<1>4. ASSUME Finish
      PROVE  WayInv'
  <2>1. Step("return")
    BY <1>4 DEF Finish
  <2>2. work # <<>> /\ work[1].fn = "return" /\ work \in Seq(Frame)
    BY <2>1, InStep DEF StackOK
  <2>8. 1 \in DOMAIN work
    BY <2>2
  <2>3. 1 = Len(work)
    BY <2>2, <2>8 DEF WayInv, BottomOK
  <2>4. work' = <<>> \o Tail(work)
    BY <1>4 DEF Finish, Become
  <2>5. work' = <<>>
    BY <2>2, <2>3, <2>4
  <2>6. BottomOK(work')
    BY <2>5 DEF BottomOK
  <2>7. QED
    BY <2>5, <2>6 DEF WayInv
<1>5. CASE Execute
  BY <1>4, <1>5, WayDownStep, WayOfInsertions, WayOfSplits, WayOfDeletions, Zenon DEF Execute
<1>6. QED
  BY <1>1, <1>2, <1>3, <1>5 DEF Next, Call, vars, DeleteNothing

LEMMA WayAtFirst ==
  ASSUME Init
  PROVE  WayInv
BY DEF Init, WayInv, BottomOK

------------------------------------------------------------------------------
(***************************************************************************)
(* How many of some objects there are in leaves, and in the hands of calls *)
(* under way.                                                              *)
(***************************************************************************)
LeafPlaces(pages, D) ==
  {x \in UNION {{p} \X DOMAIN pages[p].kids : p \in {q \in DOMAIN pages : pages[q].level = 0}} :
     pages[x[1]].kids[x[2]] \in D}

LeafCount(pages, D) == Cardinality(LeafPlaces(pages, D))

InLeaf(n, D) == IF n.level = 0 THEN Count(n.kids, D) ELSE 0

Hand(f) ==
  \/ f.fn \in {"insertData_impl", "chooseSubtree"} /\ f.level = 0
  \/ f.fn = "insertData" /\ f.node.level = 0

Hands(D) == {f \in Frame : Hand(f) /\ f.entry \in D}

HandCount(stack, D) == Count(stack, Hands(D))

\* Finitely many nodes of at most their capacity.
Small(pages) ==
  /\ IsFiniteSet(DOMAIN pages)
  /\ \A p \in DOMAIN pages : pages[p] \in Nodes /\ Len(pages[p].kids) <= Capacity(pages[p].level)

Without(pages, p) == [q \in DOMAIN pages \ {p} |-> pages[q]]

LEMMA TreeIsSmall ==
  ASSUME NEW pages, NEW root, TreeOK(pages, root)
  PROVE  Small(pages)
BY DEF TreeOK, FitsIn, Small

LEMMA WithoutIsSmall ==
  ASSUME NEW pages, Small(pages), NEW p
  PROVE  Small(Without(pages, p))
<1>1. DOMAIN Without(pages, p) = DOMAIN pages \ {p}
  BY DEF Without
<1>2. IsFiniteSet(DOMAIN pages \ {p})
  BY FS_Subset DEF Small
<1>3. \A q \in DOMAIN pages \ {p} : Without(pages, p)[q] = pages[q]
  BY DEF Without
<1>4. QED
  BY <1>1, <1>2, <1>3 DEF Small

\* The same pages.
Alike(pages, pages2) ==
  DOMAIN pages = DOMAIN pages2 /\ \A p \in DOMAIN pages : pages[p] = pages2[p]

LEMMA LeafPlacesOf ==
  ASSUME NEW pages, NEW D, NEW x
  PROVE  x \in LeafPlaces(pages, D)
           <=> \E p \in DOMAIN pages : \E i \in DOMAIN pages[p].kids :
                 x = <<p, i>> /\ pages[p].level = 0 /\ pages[p].kids[i] \in D
BY DEF LeafPlaces

LEMMA LeafCountAlike ==
  ASSUME NEW pages, NEW pages2, Alike(pages, pages2), NEW D
  PROVE  LeafCount(pages, D) = LeafCount(pages2, D)
<1>1. \A x : x \in LeafPlaces(pages, D) <=> x \in LeafPlaces(pages2, D)
  BY LeafPlacesOf DEF Alike
<1>2. LeafPlaces(pages, D) = LeafPlaces(pages2, D)
  BY <1>1
<1>3. QED
  BY <1>2 DEF LeafCount

LEMMA LeafPlacesFinite ==
  ASSUME NEW pages, Small(pages), NEW D
  PROVE  IsFiniteSet(LeafPlaces(pages, D)) /\ LeafCount(pages, D) \in Nat
<1>1. LeafCapacity \in Nat /\ LeafCapacity \in Int /\ 1 \in Int
  BY RTreeNodeAssumption
<1> DEFINE I == 1 .. LeafCapacity
<1>2. IsFiniteSet(I)
  BY <1>1, FS_Interval
<1>3. IsFiniteSet((DOMAIN pages) \X I)
  BY <1>2, FS_Product DEF Small
<1>4. ASSUME NEW x \in LeafPlaces(pages, D)
      PROVE  x \in (DOMAIN pages) \X I
  <2>1. PICK p \in DOMAIN pages : \E i \in DOMAIN pages[p].kids : x = <<p, i>> /\ pages[p].level = 0
    BY <1>4, LeafPlacesOf
  <2>2. PICK i \in DOMAIN pages[p].kids : x = <<p, i>>
    BY <2>1
  <2>3. pages[p].kids \in Seq(Entry) /\ Len(pages[p].kids) <= LeafCapacity
    BY <2>1 DEF Small, Nodes, Capacity
  <2>4. i \in I
    BY <1>1, <2>3
  <2>5. QED
    BY <2>2, <2>4
<1>5. IsFiniteSet(LeafPlaces(pages, D))
  BY <1>3, <1>4, FS_Subset
<1>6. QED
  BY <1>5, FS_CardinalityType DEF LeafCount

LEMMA LeafCountWithout ==
  ASSUME NEW pages, Small(pages), NEW p \in DOMAIN pages, NEW D
  PROVE  /\ LeafCount(pages, D) \in Nat /\ LeafCount(Without(pages, p), D) \in Nat
         /\ InLeaf(pages[p], D) \in Nat
         /\ LeafCount(pages, D) = LeafCount(Without(pages, p), D) + InLeaf(pages[p], D)
<1> DEFINE rest == Without(pages, p)
           kids == pages[p].kids
           A == LeafPlaces(rest, D)
           here == IF pages[p].level = 0 THEN Places(kids, D) ELSE {}
           B == {x \in {p} \X here : TRUE}
           f == [i \in here |-> <<p, i>>]
<1>1. kids \in Seq(Entry)
  BY DEF Small, Nodes
<1>2. IsFiniteSet(here) /\ Cardinality(here) = InLeaf(pages[p], D) /\ InLeaf(pages[p], D) \in Nat
  <2>1. IsFiniteSet(Places(kids, D)) /\ Count(kids, D) \in Nat
    BY <1>1, CountType
  <2>2. QED
    BY <2>1, FS_EmptySet DEF InLeaf, Count
<1>3. IsFiniteSet(A) /\ LeafCount(rest, D) \in Nat /\ LeafCount(pages, D) \in Nat
  BY LeafPlacesFinite, WithoutIsSmall
<1>4. DOMAIN rest = DOMAIN pages \ {p} /\ \A q \in DOMAIN pages \ {p} : rest[q] = pages[q]
  BY DEF Without
<1> HIDE DEF rest
<1>5. \A x : x \in LeafPlaces(pages, D) <=> x \in A \/ x \in B
  <2>1. ASSUME NEW x, x \in LeafPlaces(pages, D)
        PROVE  x \in A \/ x \in B
    <3>0. PICK q \in DOMAIN pages : \E i \in DOMAIN pages[q].kids :
            x = <<q, i>> /\ pages[q].level = 0 /\ pages[q].kids[i] \in D
      BY <2>1, LeafPlacesOf
    <3>1. PICK i \in DOMAIN pages[q].kids :
            x = <<q, i>> /\ pages[q].level = 0 /\ pages[q].kids[i] \in D
      BY <3>0
    <3>2. CASE q = p
      BY <3>1, <3>2 DEF Places
    <3>3. CASE q # p
      <4>1. q \in DOMAIN rest /\ rest[q] = pages[q]
        BY <1>4, <3>3
      <4>2. x \in A
        BY <3>1, <4>1, LeafPlacesOf
      <4>3. QED
        BY <4>2
    <3>4. QED
      BY <3>2, <3>3
  <2>2. ASSUME NEW x, x \in A
        PROVE  x \in LeafPlaces(pages, D)
    <3>0. PICK q \in DOMAIN rest : \E i \in DOMAIN rest[q].kids :
            x = <<q, i>> /\ rest[q].level = 0 /\ rest[q].kids[i] \in D
      BY <2>2, LeafPlacesOf
    <3>1. PICK i \in DOMAIN rest[q].kids :
            x = <<q, i>> /\ rest[q].level = 0 /\ rest[q].kids[i] \in D
      BY <3>0
    <3>2. q \in DOMAIN pages /\ rest[q] = pages[q]
      BY <1>4
    <3>3. QED
      BY <3>1, <3>2, LeafPlacesOf
  <2>3. ASSUME NEW x, x \in B
        PROVE  x \in LeafPlaces(pages, D)
    <3>1. PICK i \in here : x = <<p, i>>
      BY <2>3
    <3>2. pages[p].level = 0 /\ i \in DOMAIN kids /\ kids[i] \in D
      BY DEF Places
    <3>3. QED
      BY <3>1, <3>2, LeafPlacesOf
  <2>4. QED
    BY <2>1, <2>2, <2>3
<1>6. LeafPlaces(pages, D) = A \cup B
  BY <1>5
<1>7. A \cap B = {}
  <2>1. ASSUME NEW x \in A, x \in B
        PROVE  FALSE
    <3>0. PICK q \in DOMAIN rest : \E i \in DOMAIN rest[q].kids : x = <<q, i>>
      BY <2>1, LeafPlacesOf
    <3>1. PICK i \in DOMAIN rest[q].kids : x = <<q, i>>
      BY <3>0
    <3>2. x[1] = p /\ x[1] = q
      BY <2>1, <3>1
    <3>3. QED
      BY <1>4, <3>2
  <2>2. QED
    BY <2>1
<1>8. IsFiniteSet({p}) /\ Cardinality({p}) = 1
  BY FS_Singleton
<1> HIDE DEF here
<1>9. B = {p} \X here
  OBVIOUS
<1>10. IsFiniteSet(B) /\ Cardinality(B) = Cardinality(here)
  <2>1. IsFiniteSet(B) /\ Cardinality(B) = 1 * Cardinality(here)
    BY <1>2, <1>8, <1>9, FS_Product
  <2>2. Cardinality(here) \in Nat
    BY <1>2, FS_CardinalityType
  <2>3. QED
    BY <2>1, <2>2
<1> HIDE DEF A, B
<1>11. Cardinality(A \cup B) = Cardinality(A) + Cardinality(B)
  BY <1>3, <1>7, <1>10, Apart2
<1>12. LeafCount(pages, D) = LeafCount(rest, D) + InLeaf(pages[p], D)
  BY <1>2, <1>6, <1>10, <1>11 DEF LeafCount, A
<1>13. QED
  BY <1>2, <1>3, <1>12 DEF rest

\* One page changes.
LEMMA LeafCountOnlyAt ==
  ASSUME NEW pages, NEW pages2, Small(pages), Small(pages2), NEW p \in DOMAIN pages, NEW m,
         OnlyAt(p, m, pages, pages2), NEW D
  PROVE  /\ LeafCount(pages, D) \in Nat /\ LeafCount(pages2, D) \in Nat
         /\ InLeaf(pages[p], D) \in Nat /\ InLeaf(m, D) \in Nat
         /\ LeafCount(pages2, D) + InLeaf(pages[p], D) = LeafCount(pages, D) + InLeaf(m, D)
<1>1. DOMAIN pages2 = DOMAIN pages /\ pages2[p] = m /\ \A q \in DOMAIN pages \ {p} : pages2[q] = pages[q]
  BY DEF OnlyAt
<1>2. Alike(Without(pages2, p), Without(pages, p))
  BY <1>1 DEF Alike, Without
<1>3. LeafCount(Without(pages2, p), D) = LeafCount(Without(pages, p), D)
  BY <1>2, LeafCountAlike
<1>4. /\ LeafCount(pages, D) \in Nat /\ LeafCount(Without(pages, p), D) \in Nat
      /\ InLeaf(pages[p], D) \in Nat
      /\ LeafCount(pages, D) = LeafCount(Without(pages, p), D) + InLeaf(pages[p], D)
  BY LeafCountWithout
<1>5. /\ LeafCount(pages2, D) \in Nat /\ InLeaf(m, D) \in Nat
      /\ LeafCount(pages2, D) = LeafCount(Without(pages2, p), D) + InLeaf(m, D)
  BY <1>1, LeafCountWithout
<1>6. QED
  BY <1>3, <1>4, <1>5

LEMMA HandCountType ==
  ASSUME NEW stack \in Seq(Frame), NEW D
  PROVE  HandCount(stack, D) \in Nat
BY CountType DEF HandCount

LEMMA HandCountNone ==
  ASSUME NEW D
  PROVE  HandCount(<<>>, D) = 0
<1> DEFINE none == <<>>
<1>1. Places(none, Hands(D)) = {}
  BY DEF Places
<1>2. QED
  BY <1>1, FS_EmptySet DEF HandCount, Count

LEMMA HandCountOne ==
  ASSUME NEW f \in Frame, NEW D
  PROVE  HandCount(<<f>>, D) = One(f, Hands(D))
<1> DEFINE none == <<>>
<1>1. none \in Seq(Frame) /\ Append(none, f) = <<f>>
  OBVIOUS
<1>2. HandCount(none, D) = 0 /\ One(f, Hands(D)) \in Nat
  BY HandCountNone DEF One
<1> HIDE DEF none
<1>3. Count(Append(none, f), Hands(D)) = Count(none, Hands(D)) + One(f, Hands(D))
  BY <1>1, CountAppended
<1>4. QED
  BY <1>1, <1>2, <1>3 DEF HandCount

LEMMA HandCountParted ==
  ASSUME NEW a \in Seq(Frame), NEW b \in Seq(Frame), NEW D
  PROVE  HandCount(a \o b, D) = HandCount(a, D) + HandCount(b, D)
<1> DEFINE c == a \o b
<1>1. c = a \o b
  OBVIOUS
<1> HIDE DEF c
<1>2. /\ c \in Seq(Frame) /\ Len(c) = Len(a) + Len(b)
      /\ \A i \in 1 .. Len(a) : c[i] = a[i]
      /\ \A i \in 1 .. Len(b) : c[Len(a) + i] = b[i]
  BY <1>1, Concatenated
<1>3. InTwo(c, a, b)
  BY <1>2 DEF InTwo
<1>4. Count(c, Hands(D)) = Count(a, Hands(D)) + Count(b, Hands(D))
  BY <1>2, <1>3, CountParted
<1>5. QED
  BY <1>1, <1>4 DEF HandCount

\* The other calls' hands stay as they are.
LEMMA HandsMove ==
  ASSUME TreeInv, work # <<>>, NEW new, Became(new), NEW D
  PROVE  /\ HandCount(work, D) \in Nat /\ HandCount(work', D) \in Nat
         /\ HandCount(new, D) \in Nat /\ One(work[1], Hands(D)) \in Nat
         /\ HandCount(work', D) + One(work[1], Hands(D)) = HandCount(work, D) + HandCount(new, D)
<1>1. work \in Seq(Frame) /\ StackOK(nodes, m_rootID, work)
  BY DEF TreeInv, Sound, StackOK
<1>2. /\ work = <<work[1]>> \o Tail(work) /\ work[1] \in Frame
      /\ <<work[1]>> \in Seq(Frame) /\ Tail(work) \in Seq(Frame)
  BY <1>1, TopOf
<1>3. new \in Seq(Frame) /\ work' = new \o Tail(work)
  BY DEF Became
<1> DEFINE top == <<work[1]>>
           tail == Tail(work)
<1>4. HandCount(top, D) = One(work[1], Hands(D))
  BY <1>2, HandCountOne
<1> HIDE DEF top, tail
<1>5. HandCount(top \o tail, D) = HandCount(top, D) + HandCount(tail, D)
  BY <1>2, HandCountParted DEF top, tail
<1>6. HandCount(work, D) = HandCount(top, D) + HandCount(tail, D)
  BY <1>2, <1>5 DEF top, tail
<1>7. HandCount(new \o tail, D) = HandCount(new, D) + HandCount(tail, D)
  BY <1>2, <1>3, HandCountParted DEF tail
<1>8. HandCount(work', D) = HandCount(new, D) + HandCount(tail, D)
  BY <1>3, <1>7 DEF tail
<1>9. /\ HandCount(new, D) \in Nat /\ HandCount(tail, D) \in Nat
      /\ HandCount(top, D) \in Nat
  BY <1>2, <1>3, HandCountType DEF tail, top
<1>10. QED
  BY <1>4, <1>6, <1>8, <1>9

LEMMA NoHands ==
  ASSUME NEW stack \in Seq(Frame), \A k \in DOMAIN stack : ~Hand(stack[k]), NEW D
  PROVE  HandCount(stack, D) = 0
<1>1. Places(stack, Hands(D)) = {}
  BY DEF Places, Hands
<1>2. QED
  BY <1>1, FS_EmptySet DEF HandCount, Count

\* Reinsertions, of objects only if the level is the leaves'.
LEMMA HandCountImpls ==
  ASSUME NEW kids \in Seq(Entry), NEW level \in Nat, NEW fresh \in BOOLEAN,
         level # 0 => DistinctIds(kids), NEW D
  PROVE  HandCount(Impls(kids, level, fresh), D) = IF level = 0 THEN Count(kids, D) ELSE 0
<1> DEFINE new == Impls(kids, level, fresh)
<1>1. /\ new \in Seq(Frame) /\ DOMAIN new = DOMAIN kids
      /\ \A k \in DOMAIN kids : /\ new[k].fn = "insertData_impl" /\ new[k].level = level
                                /\ new[k].entry = kids[k]
  BY ImplsOf
<1> HIDE DEF new
<1>2. \A k \in DOMAIN kids : new[k] \in Frame
  BY <1>1
<1>3. CASE level = 0
  <2>1. Places(new, Hands(D)) = Places(kids, D)
    BY <1>1, <1>2, <1>3 DEF Places, Hands, Hand
  <2>2. QED
    BY <1>3, <2>1 DEF HandCount, Count, new
<1>4. CASE level # 0
  <2>1. \A k \in DOMAIN new : ~Hand(new[k])
    BY <1>1, <1>4 DEF Hand
  <2>2. HandCount(new, D) = 0
    BY <1>1, <2>1, NoHands
  <2>3. QED
    BY <1>4, <2>2 DEF new
<1>5. QED
  BY <1>3, <1>4

(***************************************************************************)
(* Objects are neither lost nor doubled on the way: what leaves and calls  *)
(* have together.                                                          *)
(***************************************************************************)
Tally(D) == LeafCount(nodes, D) + HandCount(work, D)

\* What the running call has and does to the leaves makes up for what it
\* leaves to others.
Balanced(new, D) ==
  /\ LeafCount(nodes, D) \in Nat /\ LeafCount(nodes', D) \in Nat
  /\ LeafCount(nodes', D) + HandCount(new, D) = LeafCount(nodes, D) + One(work[1], Hands(D))

LEMMA TallyKept ==
  ASSUME TreeInv, work # <<>>, NEW new, Became(new), NEW D, Balanced(new, D)
  PROVE  Tally(D)' = Tally(D)
<1> DEFINE h == HandCount(work, D)
           i == HandCount(work', D)
           j == HandCount(new, D)
           k == One(work[1], Hands(D))
           a == LeafCount(nodes, D)
           b == LeafCount(nodes', D)
<1>1. h \in Nat /\ i \in Nat /\ j \in Nat /\ k \in Nat /\ i + k = h + j
  BY HandsMove
<1>2. a \in Nat /\ b \in Nat /\ b + j = a + k
  BY DEF Balanced
<1>3. Tally(D) = a + h /\ Tally(D)' = b + i
  BY DEF Tally
<1> HIDE DEF a, b, h, i, j, k
<1>4. QED
  BY <1>1, <1>2, <1>3

LEMMA OneHand ==
  ASSUME NEW f \in Frame, NEW D
  PROVE  One(f, Hands(D)) = IF Hand(f) THEN One(f.entry, D) ELSE 0
BY DEF One, Hands

\* The running call passes on what it has in hand, and no page changes.
LEMMA TallyPassedOn ==
  ASSUME TreeInv, work # <<>>, NEW g, Became(<<g>>), nodes' = nodes,
         Hand(g) <=> Hand(work[1]), Hand(g) => g.entry = work[1].entry, NEW D
  PROVE  Tally(D)' = Tally(D)
<1> DEFINE new == <<g>>
<1>1. new \in Seq(Frame) /\ 1 \in DOMAIN new /\ new[1] = g
  BY DEF Became
<1>2. g \in Frame
  BY <1>1
<1>3. HandCount(new, D) = One(g, Hands(D))
  BY <1>2, HandCountOne
<1> HIDE DEF new
<1>4. work[1] \in Frame
  BY TopOf DEF TreeInv, Sound
<1>5. One(g, Hands(D)) = One(work[1], Hands(D))
  BY <1>2, <1>4, OneHand
<1>6. LeafCount(nodes, D) \in Nat
  BY TreeIsSmall, LeafPlacesFinite DEF TreeInv, Sound
<1>7. Balanced(new, D)
  BY <1>3, <1>5, <1>6 DEF Balanced
<1>8. QED
  BY <1>7, TallyKept DEF new

LEMMA TallyGoingDown ==
  ASSUME TreeInv, WayInv, Reinsert \/ Descend \/ Arrive \/ AdjustTreeAfterSplit, NEW D
  PROVE  Tally(D)' = Tally(D)
<1> DEFINE f == work[1]
<1>1. ASSUME Reinsert
      PROVE  Tally(D)' = Tally(D)
  <2> DEFINE g == ChooseFrame(m_rootID, f.entry, f.level, <<>>)
  <2>1. work # <<>> /\ f.fn = "insertData_impl"
    BY <1>1, InStep DEF Reinsert
  <2>2. Became(<<g>>) /\ nodes' = nodes
    BY <1>1, ReinsertDoes
  <2>3. g.fn = "chooseSubtree" /\ g.level = f.level /\ g.entry = f.entry
    BY DEF ChooseFrame
  <2> HIDE DEF g
  <2>4. Hand(g) <=> Hand(f)
    BY <2>1, <2>3 DEF Hand
  <2>5. QED
    BY <2>1, <2>2, <2>3, <2>4, TallyPassedOn
<1>2. ASSUME Descend
      PROVE  Tally(D)' = Tally(D)
  <2>1. work # <<>> /\ f.fn = "chooseSubtree"
    BY <1>2, InStep, Zenon DEF Descend
  <2>2. nodes' = nodes /\ \E c : Became(<<ChooseFrame(c, f.entry, f.level, Append(f.path, f.page))>>)
    BY <1>2, DescendDoes
  <2>3. PICK c : Became(<<ChooseFrame(c, f.entry, f.level, Append(f.path, f.page))>>)
    BY <2>2
  <2> DEFINE g == ChooseFrame(c, f.entry, f.level, Append(f.path, f.page))
  <2>4. g.fn = "chooseSubtree" /\ g.level = f.level /\ g.entry = f.entry /\ Became(<<g>>)
    BY <2>3 DEF ChooseFrame
  <2> HIDE DEF g
  <2>5. Hand(g) <=> Hand(f)
    BY <2>1, <2>4 DEF Hand
  <2>6. QED
    BY <2>1, <2>2, <2>4, <2>5, TallyPassedOn, Zenon
<1>3. ASSUME Arrive
      PROVE  Tally(D)' = Tally(D)
  <2> DEFINE g == InsertFrame(f.page, nodes[f.page], f.entry, f.path, FALSE)
  <2>1. work # <<>> /\ f.fn = "chooseSubtree"
    BY <1>3, InStep DEF Arrive
  <2>2. nodes' = nodes /\ nodes[f.page].level = f.level /\ Became(<<g>>)
    BY <1>3, ArriveDoes
  <2>3. g.fn = "insertData" /\ g.node = nodes[f.page] /\ g.entry = f.entry
    BY DEF InsertFrame
  <2> HIDE DEF g
  <2>4. Hand(g) <=> Hand(f)
    BY <2>1, <2>2, <2>3 DEF Hand
  <2>5. QED
    BY <2>1, <2>2, <2>3, <2>4, TallyPassedOn
<1>4. ASSUME AdjustTreeAfterSplit
      PROVE  Tally(D)' = Tally(D)
  <2> DEFINE go == AdjustsAfterSplit(f)
             n == WithChild(nodes[f.page], f, go)
             g == InsertFrame(f.page, n, f.entry, f.path, go)
  <2>1. work # <<>>
    BY <1>4, InStep DEF AdjustTreeAfterSplit
  <2>2. /\ f.fn = "adjustTree2" /\ nodes[f.page].level # 0 /\ FitsIn(nodes, nodes[f.page])
        /\ f.mbr \in Regions /\ go \in BOOLEAN /\ nodes' = nodes /\ Became(<<g>>)
    BY <1>4, AdjustTreeAfterSplitDoes
  <2> HIDE DEF go
  <2>3. n.level # 0
    BY <2>2, WithChildOf
  <2>4. g.fn = "insertData" /\ g.node = n
    BY DEF InsertFrame
  <2> HIDE DEF n, g
  <2>5. ~Hand(g) /\ ~Hand(f)
    BY <2>2, <2>3, <2>4 DEF Hand
  <2>6. QED
    BY <2>1, <2>2, <2>5, TallyPassedOn
<1>5. QED
  BY <1>1, <1>2, <1>3, <1>4

\* One page changes.
LEMMA TallyOnePage ==
  ASSUME TreeInv, TreeInv', work # <<>>, NEW new, Became(new), NEW p \in DOMAIN nodes, NEW m,
         OnlyAt(p, m, nodes, nodes'), NEW D,
         InLeaf(m, D) + HandCount(new, D) = InLeaf(nodes[p], D) + One(work[1], Hands(D))
  PROVE  Tally(D)' = Tally(D)
<1>1. Small(nodes) /\ Small(nodes')
  BY TreeIsSmall DEF TreeInv, Sound
<1> DEFINE a == LeafCount(nodes, D)
           b == LeafCount(nodes', D)
           x == InLeaf(nodes[p], D)
           y == InLeaf(m, D)
           j == HandCount(new, D)
           k == One(work[1], Hands(D))
<1>2. a \in Nat /\ b \in Nat /\ x \in Nat /\ y \in Nat /\ b + x = a + y
  BY <1>1, LeafCountOnlyAt
<1>3. j \in Nat /\ k \in Nat
  BY HandsMove
<1>4. y + j = x + k
  OBVIOUS
<1> HIDE DEF a, b, x, y, j, k
<1>5. b + j = a + k
  BY <1>2, <1>3, <1>4
<1>6. Balanced(new, D)
  BY <1>2, <1>5 DEF Balanced, a, b, j, k
<1>7. QED
  BY <1>6, TallyKept

LEMMA ParentsAreNoHands ==
  ASSUME TreeInv, NEW page \in DOMAIN nodes, NEW path \in Path, Route(nodes, m_rootID, path, page),
         NEW mbr \in Regions, NEW force \in BOOLEAN, NEW go \in BOOLEAN, NEW D
  PROVE  /\ AdjustParent(page, mbr, path, force) \in Seq(Frame)
         /\ HandCount(AdjustParent(page, mbr, path, force), D) = 0
         /\ HandCount(IF go THEN AdjustParent(page, mbr, path, force) ELSE <<>>, D) = 0
<1> DEFINE up == AdjustParent(page, mbr, path, force)
<1>1. page \in Nat /\ TreeOK(nodes, m_rootID)
  BY NodesTyped DEF TreeInv, Sound
<1>2. up \in Seq(Frame) /\ \A k \in DOMAIN up : up[k].fn = "adjustTree"
  BY <1>1, AdjustParentOf
<1> HIDE DEF up
<1>3. \A k \in DOMAIN up : ~Hand(up[k])
  BY <1>2 DEF Hand
<1>4. HandCount(up, D) = 0
  BY <1>2, <1>3, NoHands
<1>5. HandCount(IF go THEN up ELSE <<>>, D) = 0
  BY <1>4, HandCountNone
<1>6. QED
  BY <1>2, <1>4, <1>5 DEF up

\* What an insertion has in hand.
LEMMA InsertingHand ==
  ASSUME TreeInv, NEW f \in Frame, Inserting(f), NEW D
  PROVE  /\ One(f, Hands(D)) = IF f.node.level = 0 THEN One(f.entry, D) ELSE 0
         /\ f.node.kids \in Seq(Entry) /\ Count(f.node.kids, D) \in Nat /\ One(f.entry, D) \in Nat
<1>1. Hand(f) <=> f.node.level = 0
  BY DEF Inserting, Hand
<1>2. f.node.kids \in Seq(Entry)
  BY DEF Inserting, FitsIn, Nodes
<1>3. Count(f.node.kids, D) \in Nat
  BY <1>2, CountType
<1>4. QED
  BY <1>1, <1>2, <1>3, OneHand DEF One

\* The page that an insertion into a leaf works on is as it read it.
LEMMA InsertingReads ==
  ASSUME TreeInv, WayInv, NEW fn, Step(fn), Inserting(work[1]), NEW D
  PROVE  InLeaf(nodes[work[1].page], D) = InLeaf(work[1].node, D)
<1> DEFINE f == work[1]
<1>1. f.fn = "insertData" /\ f.node.level = nodes[f.page].level
  BY DEF Inserting
<1>2. f.node.level = 0 => f.node = nodes[f.page]
  BY <1>1, InStep DEF WayInv, Upward
<1>3. QED
  BY <1>1, <1>2 DEF InLeaf

LEMMA OverflowCount ==
  ASSUME TreeInv, NEW f \in Frame, Inserting(f), Full(f.node), NEW D
  PROVE  Count(Overflowing(f.node, f.entry), D) = Count(f.node.kids, D) + One(f.entry, D)
<1> DEFINE kids == f.node.kids
<1>5. FitsIn(nodes, f.node) /\ f.node.level \in Nat /\ f.entry \in Entry
  BY DEF Inserting
<1>6. kids \in Seq(Entry) /\ Len(kids) <= Capacity(f.node.level) /\ Len(kids) >= Capacity(f.node.level)
  BY <1>5 DEF FitsIn, Nodes, Full
<1>7. Capacity(f.node.level) \in Nat
  BY <1>5, CapacityAtLeastFour
<1> HIDE DEF kids
<1>1. kids \in Seq(Entry) /\ Len(kids) = Capacity(f.node.level) /\ f.entry \in Entry
  BY <1>5, <1>6, <1>7
<1>2. SubSeq(kids, 1, Len(kids)) = kids
  BY <1>1
<1>3. Overflowing(f.node, f.entry) = Append(kids, f.entry)
  BY <1>1, <1>2 DEF Overflowing, kids
<1>4. Count(Append(kids, f.entry), D) = Count(kids, D) + One(f.entry, D)
  BY <1>1, CountAppended
<1>8. QED
  BY <1>3, <1>4 DEF kids

\* Two groups of the entries of an overflowing node.
LEMMA GroupsCount ==
  ASSUME TreeInv, NEW f \in Frame, Inserting(f), Full(f.node), NEW g, NEW least,
         Distributes(Overflowing(f.node, f.entry), g, least), NEW D
  PROVE  /\ Count(f.node.kids, D) + One(f.entry, D) = Count(g[1], D) + Count(g[2], D)
         /\ Count(g[1], D) \in Nat /\ Count(g[2], D) \in Nat
<1>1. FitsIn(nodes, f.node) /\ f.entry \in Entry
  BY DEF Inserting
<1>2. Overflowing(f.node, f.entry) \in Seq(Entry)
  BY <1>1, OverflowOf
<1>3. Count(Overflowing(f.node, f.entry), D) = Count(g[1], D) + Count(g[2], D)
  BY <1>2, CountDistributed
<1>4. g[1] \in Seq(Entry) /\ g[2] \in Seq(Entry)
  BY PartsOf
<1>5. Count(g[1], D) \in Nat /\ Count(g[2], D) \in Nat
  BY <1>4, CountType
<1>6. QED
  BY <1>3, <1>5, OverflowCount

LEMMA InLeafOfNode ==
  ASSUME NEW level \in Nat, NEW kids \in Seq(Entry), NEW D
  PROVE  InLeaf(Node(level, kids), D) = IF level = 0 THEN Count(kids, D) ELSE 0
BY DEF InLeaf, Node

LEMMA TallyInserting ==
  ASSUME ReinsertsSome, TreeInv, WayInv, TreeInv', InsertFits \/ AdjustTree \/ ForcedReinsert, NEW D
  PROVE  Tally(D)' = Tally(D)
<1> DEFINE f == work[1]
<1>1. ASSUME InsertFits
      PROVE  Tally(D)' = Tally(D)
  <2> DEFINE m == WithEntry(f.node, f.entry)
             go == GoesUp(f)
             no == FALSE
             new == IF go THEN AdjustParent(f.page, m.mbr, f.path, no) ELSE <<>>
  <2>1. Step("insertData") /\ work # <<>> /\ f \in Frame
    BY <1>1, InStep DEF InsertFits
  <2>2. /\ Inserting(f) /\ m.level = f.node.level /\ m.kids = Append(f.node.kids, f.entry)
        /\ m.mbr \in Regions /\ OnlyAt(f.page, m, nodes, nodes') /\ go \in BOOLEAN
        /\ Became(new)
    BY <1>1, InsertFitsDoes
  <2>3. no \in BOOLEAN
    OBVIOUS
  <2> HIDE DEF go, no, m
  <2>4. f.page \in DOMAIN nodes /\ f.path \in Path /\ Route(nodes, m_rootID, f.path, f.page)
        /\ f.entry \in Entry
    BY <2>2 DEF Inserting
  <2>5. HandCount(new, D) = 0
    <3> DEFINE page == f.page
               path == f.path
               mbr == m.mbr
    <3>1. /\ page \in DOMAIN nodes /\ path \in Path /\ Route(nodes, m_rootID, path, page)
          /\ mbr \in Regions /\ no \in BOOLEAN /\ go \in BOOLEAN
      BY <2>2, <2>3, <2>4
    <3>2. new = IF go THEN AdjustParent(page, mbr, path, no) ELSE <<>>
      OBVIOUS
    <3> HIDE DEF page, path, mbr, new
    <3>3. QED
      BY <3>1, <3>2, ParentsAreNoHands
  <2>6. /\ One(f, Hands(D)) = IF f.node.level = 0 THEN One(f.entry, D) ELSE 0
        /\ f.node.kids \in Seq(Entry) /\ Count(f.node.kids, D) \in Nat /\ One(f.entry, D) \in Nat
    BY <2>1, <2>2, InsertingHand
  <2>7. InLeaf(nodes[f.page], D) = InLeaf(f.node, D)
    BY <2>1, <2>2, InsertingReads
  <2>8. Count(m.kids, D) = Count(f.node.kids, D) + One(f.entry, D)
    BY <2>2, <2>4, <2>6, CountAppended
  <2>9. InLeaf(m, D) = InLeaf(f.node, D) + One(f, Hands(D))
    BY <2>2, <2>6, <2>8 DEF InLeaf
  <2>10. InLeaf(f.node, D) \in Nat /\ One(f, Hands(D)) \in Nat
    BY <2>6 DEF InLeaf
  <2> HIDE DEF new
  <2>11. InLeaf(m, D) + HandCount(new, D) = InLeaf(nodes[f.page], D) + One(f, Hands(D))
    BY <2>5, <2>7, <2>9, <2>10
  <2>12. QED
    BY <2>1, <2>2, <2>4, <2>11, TallyOnePage
<1>2. ASSUME AdjustTree
      PROVE  Tally(D)' = Tally(D)
  <2> DEFINE n == nodes[f.page]
             go == AdjustsAnyway(f)
             m == WithChild(n, f, go)
             new == IF go THEN AdjustParent(f.page, m.mbr, f.path, f.force) ELSE <<>>
  <2>1. work # <<>> /\ f \in Frame
    BY <1>2, InStep DEF AdjustTree
  <2>2. /\ f.page \in DOMAIN nodes /\ f.path \in Path /\ Route(nodes, m_rootID, f.path, f.page)
        /\ f.mbr \in Regions /\ FitsIn(nodes, n) /\ f.fn = "adjustTree"
        /\ f.force \in BOOLEAN /\ go \in BOOLEAN /\ OnlyAt(f.page, m, nodes, nodes') /\ Became(new)
    BY <1>2, AdjustTreeDoes
  <2> HIDE DEF go
  <2>10. m.mbr \in Regions
    BY <2>2, WithChildOf
  <2>12. FitsIn(nodes, n) /\ f.mbr \in Regions /\ go \in BOOLEAN
    BY <2>2
  <2>11. m.level = n.level
    BY <2>12, WithChildOf
  <2> HIDE DEF m
  <2>3. m.mbr \in Regions /\ m.level = n.level
    BY <2>10, <2>11
  <2>4. n.level # 0
    BY <2>1, <2>2 DEF WayInv, Upward, Children
  <2>5. HandCount(new, D) = 0
    <3> DEFINE page == f.page
               path == f.path
               mbr == m.mbr
               force == f.force
    <3>1. /\ page \in DOMAIN nodes /\ path \in Path /\ Route(nodes, m_rootID, path, page)
          /\ mbr \in Regions /\ force \in BOOLEAN /\ go \in BOOLEAN
      BY <2>2, <2>3
    <3>2. new = IF go THEN AdjustParent(page, mbr, path, force) ELSE <<>>
      OBVIOUS
    <3> HIDE DEF page, path, mbr, force, new
    <3>3. QED
      BY <3>1, <3>2, ParentsAreNoHands
  <2>6. One(f, Hands(D)) = 0
    BY <2>1, <2>2, OneHand DEF Hand
  <2>7. InLeaf(m, D) = 0 /\ InLeaf(n, D) = 0
    BY <2>3, <2>4 DEF InLeaf
  <2> HIDE DEF new
  <2>8. InLeaf(m, D) + HandCount(new, D) = InLeaf(n, D) + One(f, Hands(D))
    BY <2>5, <2>6, <2>7
  <2>9. QED
    BY <2>1, <2>2, <2>8, TallyOnePage
<1>3. ASSUME ForcedReinsert
      PROVE  Tally(D)' = Tally(D)
  <2> DEFINE level == f.node.level
             yes == TRUE
             no == FALSE
  <2>1. Step("insertData") /\ work # <<>> /\ f \in Frame
    BY <1>3, InStep DEF ForcedReinsert
  <2>2. /\ Inserting(f) /\ Full(f.node)
        /\ \E r : /\ Distributes(Overflowing(f.node, f.entry), r, 1)
                  /\ r[1] \in Seq(Entry) /\ r[2] \in Seq(Entry)
                  /\ OnlyAt(f.page, Node(level, r[1]), nodes, nodes')
                  /\ Became(AdjustParent(f.page, Node(level, r[1]).mbr, f.path, yes)
                              \o Impls(r[2], level, no))
    BY <1>3, ForcedReinsertDoes
  <2>3. PICK r : /\ Distributes(Overflowing(f.node, f.entry), r, 1)
                 /\ r[1] \in Seq(Entry) /\ r[2] \in Seq(Entry)
                 /\ OnlyAt(f.page, Node(level, r[1]), nodes, nodes')
                 /\ Became(AdjustParent(f.page, Node(level, r[1]).mbr, f.path, yes)
                             \o Impls(r[2], level, no))
    BY <2>2
  <2>4. yes \in BOOLEAN /\ no \in BOOLEAN
    OBVIOUS
  <2> HIDE DEF yes, no
  <2>5. /\ f.page \in DOMAIN nodes /\ f.path \in Path /\ Route(nodes, m_rootID, f.path, f.page)
        /\ level \in Nat
    BY <2>2 DEF Inserting
  <2>6. level # 0 => DistinctIds(r[2])
    BY <2>2, <2>3, PartsOf
  <2> DEFINE rest == Impls(r[2], level, no)
             up == AdjustParent(f.page, Node(level, r[1]).mbr, f.path, yes)
             m == Node(level, r[1])
  <2>7. rest \in Seq(Frame) /\ HandCount(rest, D) = IF level = 0 THEN Count(r[2], D) ELSE 0
    BY <2>3, <2>4, <2>5, <2>6, ImplsOf, HandCountImpls
  <2>8. m.mbr \in Regions
    BY <2>3, <2>5, NodeOf
  <2>9. up \in Seq(Frame) /\ HandCount(up, D) = 0
    BY <2>4, <2>5, <2>8, ParentsAreNoHands
  <2>10. InLeaf(m, D) = IF level = 0 THEN Count(r[1], D) ELSE 0
    BY <2>3, <2>5, InLeafOfNode
  <2> HIDE DEF rest, up
  <2>11. HandCount(up \o rest, D) = IF level = 0 THEN Count(r[2], D) ELSE 0
    <3>1. HandCount(up \o rest, D) = HandCount(up, D) + HandCount(rest, D)
      BY <2>7, <2>9, HandCountParted
    <3>2. HandCount(rest, D) \in Nat
      BY <2>7, HandCountType
    <3>3. QED
      BY <2>7, <2>9, <3>1, <3>2
  <2>12. /\ Count(f.node.kids, D) + One(f.entry, D) = Count(r[1], D) + Count(r[2], D)
         /\ Count(r[1], D) \in Nat /\ Count(r[2], D) \in Nat
    BY <2>1, <2>2, <2>3, GroupsCount
  <2>13. /\ One(f, Hands(D)) = IF level = 0 THEN One(f.entry, D) ELSE 0
         /\ Count(f.node.kids, D) \in Nat /\ One(f.entry, D) \in Nat
    BY <2>1, <2>2, InsertingHand
  <2>14. InLeaf(nodes[f.page], D) = IF level = 0 THEN Count(f.node.kids, D) ELSE 0
    BY <2>1, <2>2, InsertingReads DEF InLeaf
  <2> HIDE DEF m, level
  <2>15. InLeaf(m, D) + HandCount(up \o rest, D) = InLeaf(nodes[f.page], D) + One(f, Hands(D))
    BY <2>10, <2>11, <2>12, <2>13, <2>14
  <2>16. Became(up \o rest) /\ OnlyAt(f.page, m, nodes, nodes')
    BY <2>3 DEF up, rest, m, level
  <2>17. QED
    BY <2>1, <2>5, <2>15, <2>16, TallyOnePage
<1>4. QED
  BY <1>1, <1>2, <1>3

\* A new page beside another.
LEMMA LeafCountTwo ==
  ASSUME NEW pages, NEW pages2, Small(pages), Small(pages2), NEW p \in DOMAIN pages,
         NEW q, q \notin DOMAIN pages, NEW left, NEW right,
         TwoPages(p, left, q, right, pages, pages2), NEW D
  PROVE  /\ LeafCount(pages, D) \in Nat /\ LeafCount(pages2, D) \in Nat
         /\ InLeaf(pages[p], D) \in Nat /\ InLeaf(left, D) \in Nat /\ InLeaf(right, D) \in Nat
         /\ LeafCount(pages2, D) + InLeaf(pages[p], D)
              = LeafCount(pages, D) + InLeaf(left, D) + InLeaf(right, D)
<1> DEFINE mid == Without(pages2, q)
<1>1. /\ DOMAIN pages2 = DOMAIN pages \cup {q} /\ pages2[p] = left /\ pages2[q] = right
      /\ \A x \in DOMAIN pages \ {p} : pages2[x] = pages[x]
  BY DEF TwoPages
<1>2. /\ DOMAIN mid = DOMAIN pages /\ mid[p] = left
      /\ \A x \in DOMAIN pages \ {p} : mid[x] = pages[x]
  BY <1>1 DEF Without
<1>3. Small(mid)
  BY WithoutIsSmall
<1>4. /\ LeafCount(pages2, D) \in Nat /\ LeafCount(mid, D) \in Nat /\ InLeaf(right, D) \in Nat
      /\ LeafCount(pages2, D) = LeafCount(mid, D) + InLeaf(right, D)
  BY <1>1, LeafCountWithout
<1> HIDE DEF mid
<1>5. OnlyAt(p, left, pages, mid)
  BY <1>2 DEF OnlyAt
<1>6. /\ LeafCount(pages, D) \in Nat /\ InLeaf(pages[p], D) \in Nat /\ InLeaf(left, D) \in Nat
      /\ LeafCount(mid, D) + InLeaf(pages[p], D) = LeafCount(pages, D) + InLeaf(left, D)
  BY <1>3, <1>5, LeafCountOnlyAt
<1>7. QED
  BY <1>4, <1>6

\* Two new pages.
LEMMA LeafCountThree ==
  ASSUME NEW pages, NEW pages2, Small(pages), Small(pages2), NEW p \in DOMAIN pages,
         NEW n, NEW nn, n \notin DOMAIN pages, nn \notin DOMAIN pages, n # nn,
         NEW node, NEW left, NEW right,
         ThreePages(p, node, n, left, nn, right, pages, pages2), NEW D
  PROVE  /\ LeafCount(pages, D) \in Nat /\ LeafCount(pages2, D) \in Nat /\ InLeaf(node, D) \in Nat
         /\ InLeaf(pages[p], D) \in Nat /\ InLeaf(left, D) \in Nat /\ InLeaf(right, D) \in Nat
         /\ LeafCount(pages2, D) + InLeaf(pages[p], D)
              = LeafCount(pages, D) + InLeaf(node, D) + InLeaf(left, D) + InLeaf(right, D)
<1> DEFINE mid == Without(pages2, nn)
<1>1. /\ DOMAIN pages2 = DOMAIN pages \cup {n, nn}
      /\ pages2[p] = node /\ pages2[n] = left /\ pages2[nn] = right
      /\ \A x \in DOMAIN pages \ {p} : pages2[x] = pages[x]
  BY DEF ThreePages
<1>2. /\ DOMAIN mid = DOMAIN pages \cup {n} /\ mid[p] = node /\ mid[n] = left
      /\ \A x \in DOMAIN pages \ {p} : mid[x] = pages[x]
  BY <1>1 DEF Without
<1>3. Small(mid)
  BY WithoutIsSmall
<1>4. /\ LeafCount(pages2, D) \in Nat /\ LeafCount(mid, D) \in Nat /\ InLeaf(right, D) \in Nat
      /\ LeafCount(pages2, D) = LeafCount(mid, D) + InLeaf(right, D)
  BY <1>1, LeafCountWithout
<1> HIDE DEF mid
<1>5. TwoPages(p, node, n, left, pages, mid)
  BY <1>2 DEF TwoPages
<1>6. /\ LeafCount(pages, D) \in Nat /\ InLeaf(pages[p], D) \in Nat /\ InLeaf(node, D) \in Nat
      /\ InLeaf(left, D) \in Nat
      /\ LeafCount(mid, D) + InLeaf(pages[p], D)
           = LeafCount(pages, D) + InLeaf(node, D) + InLeaf(left, D)
  BY <1>3, <1>5, LeafCountTwo
<1>7. QED
  BY <1>4, <1>6

LEMMA TallySplitting ==
  ASSUME TreeInv, WayInv, TreeInv', SplitNode \/ SplitRoot, NEW D
  PROVE  Tally(D)' = Tally(D)
<1> DEFINE f == work[1]
           level == f.node.level
<1>1. Small(nodes) /\ Small(nodes')
  BY TreeIsSmall DEF TreeInv, Sound
<1>2. Step("insertData") /\ work # <<>> /\ f \in Frame
  BY InStep DEF SplitNode, SplitRoot
<1>3. Inserting(f) /\ Full(f.node)
  BY SplitNodeDoes, SplitRootDoes
<1>4. f.page \in DOMAIN nodes /\ level \in Nat
  BY <1>3 DEF Inserting
<1>5. /\ One(f, Hands(D)) = IF level = 0 THEN One(f.entry, D) ELSE 0
      /\ Count(f.node.kids, D) \in Nat /\ One(f.entry, D) \in Nat
  BY <1>2, <1>3, InsertingHand
<1>6. InLeaf(nodes[f.page], D) = IF level = 0 THEN Count(f.node.kids, D) ELSE 0
  BY <1>2, <1>3, InsertingReads DEF InLeaf
<1>7. ASSUME NEW g, Distributes(Overflowing(f.node, f.entry), g, LeastShare(level)),
             g[1] \in Seq(Entry), g[2] \in Seq(Entry)
      PROVE  InLeaf(Node(level, g[1]), D) + InLeaf(Node(level, g[2]), D)
               = InLeaf(nodes[f.page], D) + One(f, Hands(D))
  <2>1. /\ Count(f.node.kids, D) + One(f.entry, D) = Count(g[1], D) + Count(g[2], D)
        /\ Count(g[1], D) \in Nat /\ Count(g[2], D) \in Nat
    BY <1>2, <1>3, <1>7, GroupsCount
  <2>2. /\ InLeaf(Node(level, g[1]), D) = IF level = 0 THEN Count(g[1], D) ELSE 0
        /\ InLeaf(Node(level, g[2]), D) = IF level = 0 THEN Count(g[2], D) ELSE 0
    BY <1>4, <1>7, InLeafOfNode
  <2> HIDE DEF level
  <2>3. QED
    BY <1>5, <1>6, <2>1, <2>2
<1>8. ASSUME SplitNode
      PROVE  Tally(D)' = Tally(D)
  <2>1. PICK g, nn :
          /\ Distributes(Overflowing(f.node, f.entry), g, LeastShare(level))
          /\ g[1] \in Seq(Entry) /\ g[2] \in Seq(Entry)
          /\ nn \in Nat /\ nn \notin DOMAIN nodes
          /\ TwoPages(f.page, Node(level, g[1]), nn, Node(level, g[2]), nodes, nodes')
          /\ Became(<<[fn |-> "adjustTree2", page |-> Last(f.path),
                       child |-> f.page, mbr |-> Node(level, g[1]).mbr,
                       entry |-> [id |-> nn, mbr |-> Node(level, g[2]).mbr],
                       path |-> Front(f.path)]>>)
    BY <1>8, SplitNodeDoes
  <2> DEFINE left == Node(level, g[1])
             right == Node(level, g[2])
             h == [fn |-> "adjustTree2", page |-> Last(f.path), child |-> f.page, mbr |-> left.mbr,
                   entry |-> [id |-> nn, mbr |-> right.mbr], path |-> Front(f.path)]
             new == <<h>>
  <2>2. Became(new) /\ h.fn = "adjustTree2" /\ new[1] = h
    BY <2>1
  <2>3. TwoPages(f.page, left, nn, right, nodes, nodes')
    BY <2>1
  <2> HIDE DEF h
  <2>4. new \in Seq(Frame) /\ DOMAIN new = {1}
    BY <2>2 DEF Became
  <2>5. HandCount(new, D) = 0
    <3>1. \A k \in DOMAIN new : ~Hand(new[k])
      BY <2>2, <2>4 DEF Hand
    <3>2. QED
      BY <2>4, <3>1, NoHands
  <2>6. InLeaf(left, D) + InLeaf(right, D) = InLeaf(nodes[f.page], D) + One(f, Hands(D))
    BY <1>7, <2>1
  <2> HIDE DEF left, right, new
  <2>7. /\ LeafCount(nodes, D) \in Nat /\ LeafCount(nodes', D) \in Nat
        /\ InLeaf(nodes[f.page], D) \in Nat /\ InLeaf(left, D) \in Nat /\ InLeaf(right, D) \in Nat
        /\ LeafCount(nodes', D) + InLeaf(nodes[f.page], D)
             = LeafCount(nodes, D) + InLeaf(left, D) + InLeaf(right, D)
    BY <1>1, <1>4, <2>1, <2>3, LeafCountTwo
  <2>8. One(f, Hands(D)) \in Nat
    BY DEF One
  <2>9. Balanced(new, D)
    BY <2>5, <2>6, <2>7, <2>8 DEF Balanced
  <2>10. QED
    BY <1>2, <2>2, <2>9, TallyKept
<1>9. ASSUME SplitRoot
      PROVE  Tally(D)' = Tally(D)
  <2>1. f.page = m_rootID
    BY <1>9, SplitRootDoes
  <2>2. PICK g, n, nn :
          /\ Distributes(Overflowing(f.node, f.entry), g, LeastShare(level))
          /\ g[1] \in Seq(Entry) /\ g[2] \in Seq(Entry)
          /\ n \in Nat /\ nn \in Nat /\ n # nn /\ n \notin DOMAIN nodes /\ nn \notin DOMAIN nodes
          /\ ThreePages(m_rootID, Node(level + 1, TwoKids(n, Node(level, g[1]).mbr,
                                                          nn, Node(level, g[2]).mbr)),
                        n, Node(level, g[1]), nn, Node(level, g[2]), nodes, nodes')
          /\ TwoKids(n, Node(level, g[1]).mbr, nn, Node(level, g[2]).mbr) \in Seq(Entry)
    BY <1>9, SplitRootDoes
  <2> DEFINE left == Node(level, g[1])
             right == Node(level, g[2])
             kids == TwoKids(n, left.mbr, nn, right.mbr)
             node == Node(level + 1, kids)
             new == <<>>
  <2>3. Became(new) /\ HandCount(new, D) = 0
    BY <1>9, SplitRootDoes, HandCountNone
  <2>4. ThreePages(m_rootID, node, n, left, nn, right, nodes, nodes') /\ kids \in Seq(Entry)
    BY <2>2
  <2> HIDE DEF kids
  <2>5. InLeaf(node, D) = 0
    <3>1. level + 1 \in Nat /\ level + 1 # 0
      BY <1>4
    <3>2. QED
      BY <2>4, <3>1, InLeafOfNode
  <2>6. InLeaf(left, D) + InLeaf(right, D) = InLeaf(nodes[f.page], D) + One(f, Hands(D))
    BY <1>7, <2>2
  <2> HIDE DEF left, right, new, node
  <2>7. /\ LeafCount(nodes, D) \in Nat /\ LeafCount(nodes', D) \in Nat
        /\ InLeaf(nodes[f.page], D) \in Nat /\ InLeaf(left, D) \in Nat /\ InLeaf(right, D) \in Nat
        /\ LeafCount(nodes', D) + InLeaf(nodes[f.page], D)
             = LeafCount(nodes, D) + InLeaf(node, D) + InLeaf(left, D) + InLeaf(right, D)
    BY <1>1, <1>4, <2>1, <2>2, <2>4, LeafCountThree
  <2>8. One(f, Hands(D)) \in Nat
    BY DEF One
  <2>9. Balanced(new, D)
    BY <2>3, <2>5, <2>6, <2>7, <2>8 DEF Balanced
  <2>10. QED
    BY <1>2, <2>3, <2>9, TallyKept
<1>10. QED
  BY <1>8, <1>9

\* deleteEntry takes one entry out.
LEMMA InLeafDeleted ==
  ASSUME NEW n \in Nodes, NEW k \in DOMAIN n.kids, NEW D
  PROVE  /\ DeleteEntry(n, k).level = n.level /\ InLeaf(DeleteEntry(n, k), D) \in Nat
         /\ InLeaf(n, D) = InLeaf(DeleteEntry(n, k), D) + (IF n.level = 0 THEN One(n.kids[k], D) ELSE 0)
<1>1. n.kids \in Seq(Entry)
  BY DEF Nodes
<1> DEFINE rest == WithoutEntry(n.kids, k)
<1>2. OneLess(n.kids, k, rest)
  BY <1>1, OneOut
<1>3. DeleteEntry(n, k).kids = rest /\ DeleteEntry(n, k).level = n.level
  BY DEF DeleteEntry, WithoutEntry, Nodes
<1> HIDE DEF rest
<1>4. Count(n.kids, D) = Count(rest, D) + One(n.kids[k], D)
  BY <1>1, <1>2, CountOneLess
<1>5. rest \in Seq(Entry)
  BY <1>2 DEF OneLess
<1>6. Count(rest, D) \in Nat
  BY <1>5, CountType
<1>7. QED
  BY <1>3, <1>4, <1>6 DEF InLeaf

\* The call has nothing in hand and leaves others nothing, and the leaves stay
\* as they are.
LEMMA TallyUntouched ==
  ASSUME TreeInv, TreeInv', work # <<>>, ~Hand(work[1]), NEW new, Became(new),
         \A k \in DOMAIN new : ~Hand(new[k]), NEW D, LeafCount(nodes', D) = LeafCount(nodes, D)
  PROVE  Tally(D)' = Tally(D)
<1>1. new \in Seq(Frame)
  BY DEF Became
<1>2. HandCount(new, D) = 0
  BY <1>1, NoHands
<1>3. work[1] \in Frame
  BY TopOf DEF TreeInv, Sound
<1>4. One(work[1], Hands(D)) = 0
  BY <1>3, OneHand
<1>5. LeafCount(nodes, D) \in Nat
  BY TreeIsSmall, LeafPlacesFinite DEF TreeInv, Sound
<1>6. Balanced(new, D)
  BY <1>2, <1>4, <1>5 DEF Balanced
<1>7. QED
  BY <1>6, TallyKept

LEMMA LeavesUntouched ==
  ASSUME TreeInv, TreeInv', NEW p \in DOMAIN nodes, NEW m, OnlyAt(p, m, nodes, nodes'), NEW D,
         InLeaf(m, D) = InLeaf(nodes[p], D)
  PROVE  LeafCount(nodes', D) = LeafCount(nodes, D)
<1>1. Small(nodes) /\ Small(nodes')
  BY TreeIsSmall DEF TreeInv, Sound
<1>2. /\ LeafCount(nodes, D) \in Nat /\ LeafCount(nodes', D) \in Nat
      /\ InLeaf(nodes[p], D) \in Nat /\ InLeaf(m, D) \in Nat
      /\ LeafCount(nodes', D) + InLeaf(nodes[p], D) = LeafCount(nodes, D) + InLeaf(m, D)
  BY <1>1, LeafCountOnlyAt
<1>3. QED
  BY <1>2

LEMMA TallyCondensing ==
  ASSUME TreeInv, TreeInv', CondenseTree \/ CollapseRoot \/ CondenseRoot, NEW D
  PROVE  Tally(D)' = Tally(D)
<1> DEFINE f == work[1]
<1>1. Step("condenseTree") /\ work # <<>> /\ f.fn = "condenseTree"
  BY InStep DEF CondenseTree, CollapseRoot, CondenseRoot
<1>2. ~Hand(f)
  BY <1>1 DEF Hand
<1>3. Small(nodes) /\ Small(nodes')
  BY TreeIsSmall DEF TreeInv, Sound
<1>4. ASSUME CondenseTree
      PROVE  Tally(D)' = Tally(D)
  <2> DEFINE n == nodes[f.page]
             parent == Last(f.path)
             p == nodes[parent]
             at == PositionOf(p.kids, f.page)
             a == DeleteEntry(p, at)
             b == Adjusted(p, Updated(p.kids, f.page, n.mbr), TightMBRs)
             m == IF Underfull(n) THEN a ELSE b
             g == CondenseFrame(parent, Front(f.path),
                    IF Underfull(n) THEN Append(f.toReinsert, f.page) ELSE f.toReinsert)
             new == <<g>>
  <2>1. /\ parent \in DOMAIN nodes /\ p.level = n.level + 1 /\ at \in DOMAIN p.kids
        /\ n \in Nodes /\ p \in Nodes /\ OnlyAt(parent, m, nodes, nodes') /\ Became(new)
    BY <1>4, CondenseTreeDoes
  <2>2. g.fn = "condenseTree" /\ DOMAIN new = {1} /\ new[1] = g
    BY DEF CondenseFrame
  <2>3. n.level \in Nat
    BY <2>1 DEF Nodes
  <2>4. p.level # 0
    BY <2>1, <2>3
  <2>5. a.level = p.level
    BY <2>1, InLeafDeleted
  <2>6. b.level = p.level
    BY <2>1 DEF Adjusted, Nodes
  <2> HIDE DEF a, b, g
  <2>7. InLeaf(m, D) = 0 /\ InLeaf(p, D) = 0
    BY <2>4, <2>5, <2>6 DEF InLeaf
  <2> HIDE DEF m
  <2>8. LeafCount(nodes', D) = LeafCount(nodes, D)
    BY <2>1, <2>7, LeavesUntouched
  <2>9. \A k \in DOMAIN new : ~Hand(new[k])
    BY <2>2 DEF Hand
  <2> HIDE DEF new
  <2>10. QED
    BY <1>1, <1>2, <2>1, <2>8, <2>9, TallyUntouched
<1>5. ASSUME CollapseRoot \/ CondenseRoot
      PROVE  /\ Became(Disposals(f.toReinsert))
             /\ \A k \in DOMAIN Disposals(f.toReinsert) : ~Hand(Disposals(f.toReinsert)[k])
  <2>1. f.path = <<>> /\ Became(Disposals(f.toReinsert))
    BY <1>5, CollapseRootDoes, CondenseRootDoes
  <2>2. /\ f.toReinsert \in Seq(Nat)
        /\ \A i, j \in DOMAIN f.toReinsert : f.toReinsert[i] = f.toReinsert[j] => i = j
    BY <1>1, <2>1, AtTheRoot
  <2>3. \A k \in DOMAIN Disposals(f.toReinsert) : Disposals(f.toReinsert)[k].fn = "deleteNode"
    BY <2>2, DisposalsOf
  <2>4. QED
    BY <2>1, <2>3 DEF Hand
<1>6. ASSUME CondenseRoot
      PROVE  Tally(D)' = Tally(D)
  <2> DEFINE n == nodes[m_rootID]
             m == Adjusted(n, n.kids, TightMBRs)
  <2>1. m_rootID \in DOMAIN nodes /\ OnlyAt(m_rootID, m, nodes, nodes') /\ n \in Nodes
    BY <1>6, CondenseRootDoes DEF FitsIn
  <2>2. m.level = n.level /\ m.kids = n.kids
    BY <2>1 DEF Adjusted, Nodes
  <2> HIDE DEF m
  <2>3. InLeaf(m, D) = InLeaf(n, D)
    BY <2>2 DEF InLeaf
  <2>4. LeafCount(nodes', D) = LeafCount(nodes, D)
    BY <2>1, <2>3, LeavesUntouched
  <2>5. QED
    BY <1>1, <1>2, <1>5, <1>6, <2>4, TallyUntouched
<1>7. ASSUME CollapseRoot
      PROVE  Tally(D)' = Tally(D)
  <2> DEFINE n == nodes[m_rootID]
             child == n.kids[1].id
             mid == Without(nodes, child)
  <2>1. /\ n.level # 0 /\ child \in DOMAIN nodes /\ child # m_rootID
        /\ DOMAIN nodes' = DOMAIN nodes \ {child} /\ nodes'[m_rootID] = nodes[child]
        /\ \A p \in DOMAIN nodes \ {m_rootID, child} : nodes'[p] = nodes[p]
    BY <1>7, CollapseRootDoes
  <2>2. m_rootID \in DOMAIN nodes
    BY DEF TreeInv, Sound, TreeOK
  <2>3. /\ DOMAIN mid = DOMAIN nodes \ {child}
        /\ \A p \in DOMAIN nodes \ {child} : mid[p] = nodes[p]
    BY DEF Without
  <2>4. /\ LeafCount(nodes, D) \in Nat /\ LeafCount(mid, D) \in Nat /\ InLeaf(nodes[child], D) \in Nat
        /\ LeafCount(nodes, D) = LeafCount(mid, D) + InLeaf(nodes[child], D)
    BY <1>3, <2>1, LeafCountWithout
  <2>5. Small(mid)
    BY <1>3, WithoutIsSmall
  <2> HIDE DEF mid, child
  <2>6. OnlyAt(m_rootID, nodes[child], mid, nodes') /\ m_rootID \in DOMAIN mid /\ mid[m_rootID] = n
    BY <2>1, <2>2, <2>3 DEF OnlyAt
  <2>7. /\ LeafCount(nodes', D) \in Nat /\ InLeaf(mid[m_rootID], D) \in Nat
        /\ LeafCount(nodes', D) + InLeaf(mid[m_rootID], D) = LeafCount(mid, D) + InLeaf(nodes[child], D)
    BY <1>3, <2>5, <2>6, LeafCountOnlyAt
  <2>8. InLeaf(mid[m_rootID], D) = 0
    BY <2>1, <2>6 DEF InLeaf
  <2>9. LeafCount(nodes', D) = LeafCount(nodes, D)
    BY <2>4, <2>7, <2>8
  <2>10. QED
    BY <1>1, <1>2, <1>5, <1>7, <2>9, TallyUntouched
<1>8. QED
  BY <1>4, <1>6, <1>7

LEMMA TallyDeletingNode ==
  ASSUME TreeInv, TreeInv', DeleteNode, NEW D
  PROVE  Tally(D)' = Tally(D)
<1> DEFINE f == work[1]
           n == nodes[f.page]
           yes == TRUE
           new == Impls(n.kids, n.level, yes)
<1>1. work # <<>> /\ f.fn = "deleteNode" /\ f \in Frame
  BY InStep DEF DeleteNode
<1>2. /\ f.page \in DOMAIN nodes /\ n \in Nodes /\ (n.level # 0 => DistinctIds(n.kids))
      /\ DOMAIN nodes' = DOMAIN nodes \ {f.page}
      /\ \A p \in DOMAIN nodes \ {f.page} : nodes'[p] = nodes[p]
      /\ Became(new)
  BY DeleteNodeDoes
<1>3. yes \in BOOLEAN /\ n.kids \in Seq(Entry) /\ n.level \in Nat
  BY <1>2 DEF Nodes
<1> HIDE DEF yes
<1>4. HandCount(new, D) = IF n.level = 0 THEN Count(n.kids, D) ELSE 0
  BY <1>2, <1>3, HandCountImpls
<1>5. HandCount(new, D) = InLeaf(n, D)
  BY <1>4 DEF InLeaf
<1> HIDE DEF new
<1>6. One(f, Hands(D)) = 0
  BY <1>1, OneHand DEF Hand
<1>7. Small(nodes)
  BY TreeIsSmall DEF TreeInv, Sound
<1>8. /\ LeafCount(nodes, D) \in Nat /\ LeafCount(Without(nodes, f.page), D) \in Nat
      /\ InLeaf(n, D) \in Nat
      /\ LeafCount(nodes, D) = LeafCount(Without(nodes, f.page), D) + InLeaf(n, D)
  BY <1>2, <1>7, LeafCountWithout
<1>9. Alike(Without(nodes, f.page), nodes')
  BY <1>2 DEF Alike, Without
<1>10. LeafCount(nodes', D) = LeafCount(Without(nodes, f.page), D)
  BY <1>9, LeafCountAlike
<1>11. Balanced(new, D)
  BY <1>5, <1>6, <1>8, <1>10 DEF Balanced
<1>12. QED
  BY <1>1, <1>2, <1>11, TallyKept

LEMMA TallyFinishing ==
  ASSUME TreeInv, TreeInv', Finish, NEW D
  PROVE  Tally(D)' = Tally(D)
<1> DEFINE new == <<>>
<1>1. work # <<>> /\ work[1].fn = "return" /\ nodes' = nodes /\ Became(new)
  BY FinishDoes, InStep DEF Finish
<1>2. ~Hand(work[1]) /\ \A k \in DOMAIN new : ~Hand(new[k])
  BY <1>1 DEF Hand
<1>3. LeafCount(nodes', D) = LeafCount(nodes, D)
  BY <1>1
<1> HIDE DEF new
<1>4. QED
  BY <1>1, <1>2, <1>3, TallyUntouched

(***************************************************************************)
(* Whatever a call under way does, the objects that leaves and calls have  *)
(* together stay the same.                                                 *)
(***************************************************************************)
LEMMA TallyStaysTheSame ==
  ASSUME ReinsertsSome, TreeInv, WayInv, TreeInv', Execute, NEW D
  PROVE  Tally(D)' = Tally(D)
BY TallyGoingDown, TallyInserting, TallySplitting, TallyCondensing, TallyDeletingNode,
   TallyFinishing, Zenon DEF Execute

LEMMA PairOf ==
  ASSUME NEW T, NEW f \in T, NEW g \in T
  PROVE  <<f>> \o <<g>> = <<f, g>>
<1>1. <<f>> \in Seq(T) /\ <<g>> \in Seq(T) /\ Len(<<f>>) = 1 /\ Len(<<g>>) = 1
  OBVIOUS
<1>2. <<f>> \o <<g>> \in Seq(T) /\ <<f, g>> \in Seq(T)
  OBVIOUS
<1>3. Len(<<f>> \o <<g>>) = 2 /\ Len(<<f, g>>) = 2
  BY <1>1
<1>4. (<<f>> \o <<g>>)[1] = f /\ (<<f>> \o <<g>>)[2] = g
  BY <1>1
<1>5. \A c \in Seq(T) : Len(c) = 2 => c = <<c[1], c[2]>>
  OBVIOUS
<1> DEFINE c == <<f>> \o <<g>>
<1>6. c \in Seq(T) /\ Len(c) = 2 /\ c[1] = f /\ c[2] = g
  BY <1>2, <1>3, <1>4
<1> HIDE DEF c
<1>7. c = <<f, g>>
  BY <1>5, <1>6
<1>8. QED
  BY <1>7 DEF c

LEMMA TallyInsertData ==
  ASSUME TreeInv, todo \in Seq(Object), InsertData, NEW D
  PROVE  /\ Tally(D) \in Nat /\ todo[1] \in Object
         /\ Tally(D)' = Tally(D) + One(todo[1], D)
<1> DEFINE f == ChooseFrame(m_rootID, todo[1], 0, <<>>)
           g == Return(1)
           new == <<f, g>>
<1>1. /\ work = <<>> /\ nodes' = nodes /\ f \in Frame /\ g \in Frame /\ work' = new
      /\ new \in Seq(Frame) /\ todo[1] \in Object
  BY InsertDataDoes
<1>2. f.fn = "chooseSubtree" /\ f.level = 0 /\ f.entry = todo[1] /\ g.fn = "return"
  BY DEF ChooseFrame, Return
<1> DEFINE a == <<f>>
           b == <<g>>
<1> HIDE DEF f, g
<1>3. a \o b = new
  BY <1>1, PairOf
<1> HIDE DEF new
<1>4. HandCount(a, D) = One(f, Hands(D)) /\ HandCount(b, D) = One(g, Hands(D))
  BY <1>1, HandCountOne
<1>5. One(f, Hands(D)) = One(todo[1], D) /\ One(g, Hands(D)) = 0
  BY <1>1, <1>2, OneHand DEF Hand
<1>6. a \in Seq(Frame) /\ b \in Seq(Frame)
  BY <1>1
<1> HIDE DEF a, b
<1>7. HandCount(a \o b, D) = HandCount(a, D) + HandCount(b, D)
  BY <1>6, HandCountParted
<1>8. One(todo[1], D) \in Nat
  BY DEF One
<1>9. HandCount(work', D) = One(todo[1], D)
  BY <1>1, <1>3, <1>4, <1>5, <1>7, <1>8
<1>10. HandCount(work, D) = 0
  BY <1>1, HandCountNone
<1>13. LeafCount(nodes, D) \in Nat
  BY TreeIsSmall, LeafPlacesFinite DEF TreeInv, Sound
<1>11. LeafCount(nodes, D) \in Nat /\ LeafCount(nodes', D) = LeafCount(nodes, D)
  BY <1>1, <1>13
<1>12. QED
  BY <1>1, <1>8, <1>9, <1>10, <1>11 DEF Tally

LEMMA TallyDeleteData ==
  ASSUME TreeInv, TreeInv', NEW o \in Object, DeleteData(o), NEW D
  PROVE  Tally(D)' \in Nat /\ Tally(D) = Tally(D)' + One(o, D)
<1> DEFINE none == <<>>
           minus == -1
<1>1. PICK path \in Path, page \in DOMAIN nodes : \E child \in DOMAIN nodes[page].kids :
        LET leaf == nodes[page]
            new == <<CondenseFrame(page, path, none), Return(minus)>>
        IN  /\ work = <<>> /\ leaf.level = 0 /\ leaf \in Nodes /\ leaf.kids[child] = o
            /\ OnlyAt(page, DeleteEntry(leaf, child), nodes, nodes')
            /\ work' = new /\ new \in Seq(Frame)
  BY DeleteDataDoes
<1>2. PICK child \in DOMAIN nodes[page].kids :
        LET leaf == nodes[page]
            new == <<CondenseFrame(page, path, none), Return(minus)>>
        IN  /\ work = <<>> /\ leaf.level = 0 /\ leaf \in Nodes /\ leaf.kids[child] = o
            /\ OnlyAt(page, DeleteEntry(leaf, child), nodes, nodes')
            /\ work' = new /\ new \in Seq(Frame)
  BY <1>1
<1> DEFINE f == CondenseFrame(page, path, none)
           g == Return(minus)
           leaf == nodes[page]
           m == DeleteEntry(leaf, child)
           new == <<f, g>>
<1>3. /\ work = <<>> /\ leaf.level = 0 /\ leaf \in Nodes /\ leaf.kids[child] = o
      /\ OnlyAt(page, m, nodes, nodes') /\ work' = new /\ new \in Seq(Frame)
  BY <1>2
<1>4. f.fn = "condenseTree" /\ g.fn = "return"
  BY DEF CondenseFrame, Return
<1>5. DOMAIN new = {1, 2} /\ new[1] = f /\ new[2] = g
  OBVIOUS
<1> HIDE DEF f, g
<1>6. \A k \in DOMAIN new : ~Hand(new[k])
  BY <1>4, <1>5 DEF Hand
<1>7. HandCount(new, D) = 0
  BY <1>3, <1>6, NoHands
<1>8. HandCount(work, D) = 0
  BY <1>3, HandCountNone
<1>9. InLeaf(m, D) \in Nat /\ InLeaf(leaf, D) = InLeaf(m, D) + One(o, D)
  BY <1>3, InLeafDeleted
<1>10. Small(nodes) /\ Small(nodes')
  BY TreeIsSmall DEF TreeInv, Sound
<1> HIDE DEF m, new
<1>11. /\ LeafCount(nodes, D) \in Nat /\ LeafCount(nodes', D) \in Nat
       /\ LeafCount(nodes', D) + InLeaf(leaf, D) = LeafCount(nodes, D) + InLeaf(m, D)
  BY <1>3, <1>10, LeafCountOnlyAt
<1>12. One(o, D) \in Nat
  BY DEF One
<1>13. LeafCount(nodes, D) = LeafCount(nodes', D) + One(o, D)
  BY <1>9, <1>11, <1>12
<1>14. QED
  BY <1>3, <1>7, <1>8, <1>11, <1>13 DEF Tally

------------------------------------------------------------------------------
(***************************************************************************)
(* The objects are counted: the counter is behind by what the call under   *)
(* way is going to add to it.                                              *)
(***************************************************************************)
Pending(stack) == IF stack = <<>> THEN 0 ELSE stack[Len(stack)].delta

DataInv ==
  /\ "u64Data" \in DOMAIN m_stats
  /\ m_stats.u64Data \in Nat
  /\ m_stats.u64Data + Pending(work) = Tally(Entry)

LEMMA TallyType ==
  ASSUME TreeInv, NEW D
  PROVE  Tally(D) \in Nat
<1>1. LeafCount(nodes, D) \in Nat
  BY TreeIsSmall, LeafPlacesFinite DEF TreeInv, Sound
<1>2. HandCount(work, D) \in Nat
  BY HandCountType DEF TreeInv, Sound, StackOK
<1>3. QED
  BY <1>1, <1>2 DEF Tally

LEMMA EveryStepBecomes ==
  ASSUME ReinsertsSome, TreeInv, Execute
  PROVE  work # <<>> /\ \E new : Became(new)
<1>1. work # <<>>
  BY Zenon DEF Execute, Step, Running, Reinsert, Descend, Arrive, InsertFits, ForcedReinsert, SplitRoot,
     SplitNode, AdjustTree, AdjustTreeAfterSplit, CondenseTree, CollapseRoot, CondenseRoot,
     DeleteNode, Finish
<1>2. Reinsert => \E new : Became(new)
  BY ReinsertDoes
<1>3. Descend => \E new : Became(new)
  BY DescendDoes
<1>4. Arrive => \E new : Became(new)
  BY ArriveDoes
<1>5. InsertFits => \E new : Became(new)
  BY InsertFitsDoes
<1>6. ForcedReinsert => \E new : Became(new)
  BY ForcedReinsertDoes
<1>7. SplitRoot => \E new : Became(new)
  BY SplitRootDoes
<1>8. SplitNode => \E new : Became(new)
  BY SplitNodeDoes
<1>9. AdjustTree => \E new : Became(new)
  BY AdjustTreeDoes
<1>10. AdjustTreeAfterSplit => \E new : Became(new)
  BY AdjustTreeAfterSplitDoes
<1>11. CondenseTree => \E new : Became(new)
  BY CondenseTreeDoes
<1>12. CollapseRoot => \E new : Became(new)
  BY CollapseRootDoes
<1>13. CondenseRoot => \E new : Became(new)
  BY CondenseRootDoes
<1>14. DeleteNode => \E new : Became(new)
  BY DeleteNodeDoes
<1>15. Finish => \E new : Became(new)
  BY FinishDoes
<1>16. QED
  BY <1>1, <1>2, <1>3, <1>4, <1>5, <1>6, <1>7, <1>8, <1>9, <1>10, <1>11, <1>12, <1>13, <1>14,
     <1>15, Zenon DEF Execute

\* The client's call stays at the bottom.
LEMMA BottomStays ==
  ASSUME TreeInv, WayInv, work # <<>>, work[1].fn # "return", NEW new, Became(new)
  PROVE  work' # <<>> /\ work'[Len(work')] = work[Len(work)]
<1> DEFINE n == Len(work)
           m == Len(new)
<1>1. /\ n \in Nat /\ n >= 1 /\ m \in Nat /\ DOMAIN work = 1 .. n
      /\ Len(work') = m + (n - 1) /\ DOMAIN work' = 1 .. m + (n - 1)
      /\ \A k \in 1 .. n - 1 : work'[m + k] = work[k + 1]
  BY StackAfter
<1>2. n >= 2
  BY <1>1 DEF WayInv, BottomOK
<1> HIDE DEF n, m
<1>3. n - 1 \in 1 .. n - 1 /\ (n - 1) + 1 = n
  BY <1>1, <1>2
<1>4. work'[m + (n - 1)] = work[n]
  BY <1>1, <1>3
<1>5. work' # <<>>
  BY <1>1, <1>2
<1>6. QED
  BY <1>1, <1>4, <1>5 DEF n

\* Only the end of a call changes what is counted.
LEMMA DataUntouched ==
  ASSUME "u64Data" \in DOMAIN m_stats, Execute, ~Finish
  PROVE  "u64Data" \in DOMAIN m_stats' /\ m_stats'.u64Data = m_stats.u64Data
<1>1. CASE m_stats' = m_stats
  BY <1>1
<1>2. ASSUME NEW a, NEW b, NEW c,
             m_stats' = [m_stats EXCEPT !.u32Nodes = a, !.u32TreeHeight = b, !.nodesInLevel = c]
      PROVE  "u64Data" \in DOMAIN m_stats' /\ m_stats'.u64Data = m_stats.u64Data
  BY <1>2
<1>3. ASSUME NEW a, NEW c, m_stats' = [m_stats EXCEPT !.u32Nodes = a, !.nodesInLevel = c]
      PROVE  "u64Data" \in DOMAIN m_stats' /\ m_stats'.u64Data = m_stats.u64Data
  BY <1>3
<1>4. CASE SplitRoot
  BY <1>2, <1>4 DEF SplitRoot
<1>5. CASE SplitNode
  BY <1>3, <1>5 DEF SplitNode
<1>6. CASE CollapseRoot
  BY <1>2, <1>6, Zenon DEF CollapseRoot
<1>7. CASE DeleteNode
  BY <1>3, <1>7, Zenon DEF DeleteNode
<1>8. CASE ~(SplitRoot \/ SplitNode \/ CollapseRoot \/ DeleteNode)
  <2>1. m_stats' = m_stats
    BY <1>8, Zenon DEF Execute, Reinsert, Descend, Arrive, InsertFits, ForcedReinsert, AdjustTree,
         AdjustTreeAfterSplit, CondenseTree, CondenseRoot
  <2>2. QED
    BY <1>1, <2>1
<1>9. QED
  BY <1>4, <1>5, <1>6, <1>7, <1>8

LEMMA DataStep ==
  ASSUME ReinsertsSome, TreeInv, WayInv, ClientOK, DataInv, [Next]_vars, TreeInv'
  PROVE  DataInv'
<1>1. m_stats.u64Data \in Nat /\ "u64Data" \in DOMAIN m_stats
      /\ m_stats.u64Data + Pending(work) = Tally(Entry)
  BY DEF DataInv
<1>9. LeafCount(nodes', Entry) \in Nat
  BY TreeIsSmall, LeafPlacesFinite DEF TreeInv, Sound
<1>10. HandCount(work', Entry) \in Nat
  BY HandCountType DEF TreeInv, Sound, StackOK
<1>11. Tally(Entry)' \in Nat
  BY <1>9, <1>10 DEF Tally
<1>2. Tally(Entry) \in Nat /\ Tally(Entry)' \in Nat
  BY <1>11, TallyType
<1>3. ASSUME Finish
      PROVE  DataInv'
  <2>1. Step("return")
    BY <1>3 DEF Finish
  <2>2. work # <<>> /\ work[1].fn = "return" /\ work \in Seq(Frame)
    BY <2>1, InStep DEF StackOK
  <2>3. 1 \in DOMAIN work
    BY <2>2
  <2>4. 1 = Len(work)
    BY <2>2, <2>3 DEF WayInv, BottomOK
  <2>5. work' = <<>>
    <3>1. work' = <<>> \o Tail(work)
      BY <1>3 DEF Finish, Become
    <3>2. QED
      BY <2>2, <2>4, <3>1
  <2>6. Pending(work) = work[1].delta /\ Pending(work') = 0
    BY <2>2, <2>4, <2>5 DEF Pending
  <2>7. work[1] \in ReturnFrames
    BY <1>3, FinishDoes
  <2>8. work[1].delta \in Int
    BY <2>7 DEF ReturnFrames
  <2>9. m_stats' = [m_stats EXCEPT !.u64Data = @ + work[1].delta]
    BY <1>3 DEF Finish
  <2>10. "u64Data" \in DOMAIN m_stats' /\ m_stats'.u64Data = m_stats.u64Data + work[1].delta
    BY <1>1, <2>9
  <2>11. Tally(Entry)' = Tally(Entry)
    BY <1>3, TallyFinishing
  <2>12. m_stats'.u64Data = Tally(Entry)
    BY <1>1, <2>6, <2>10
  <2>13. QED
    BY <1>2, <2>6, <2>10, <2>11, <2>12 DEF DataInv
<1>4. ASSUME Execute, ~Finish
      PROVE  DataInv'
  <2>1. "u64Data" \in DOMAIN m_stats' /\ m_stats'.u64Data = m_stats.u64Data
    BY <1>1, <1>4, DataUntouched
  <2>2. Tally(Entry)' = Tally(Entry)
    BY <1>4, TallyStaysTheSame
  <2>3. work # <<>> /\ \E new : Became(new)
    BY <1>4, EveryStepBecomes
  <2>4. work[1].fn # "return"
    BY <1>4, Zenon DEF Execute, Step, Running, Reinsert, Descend, Arrive, InsertFits, ForcedReinsert,
       SplitRoot, SplitNode, AdjustTree, AdjustTreeAfterSplit, CondenseTree, CollapseRoot,
       CondenseRoot, DeleteNode
  <2>5. work' # <<>> /\ work'[Len(work')] = work[Len(work)]
    BY <2>3, <2>4, BottomStays
  <2>6. Pending(work') = Pending(work)
    BY <2>3, <2>5 DEF Pending
  <2>7. QED
    BY <1>1, <2>1, <2>2, <2>6 DEF DataInv
<1>5. ASSUME InsertData
      PROVE  DataInv'
  <2>1. todo \in Seq(Object)
    BY DEF ClientOK
  <2>2. /\ work = <<>> /\ work' = <<ChooseFrame(m_rootID, todo[1], 0, <<>>), Return(1)>>
        /\ todo[1] \in Entry
    BY <1>5, <2>1, InsertDataDoes
  <2>3. Pending(work) = 0 /\ Pending(work') = 1
    BY <2>2 DEF Pending, Return
  <2>4. Tally(Entry)' = Tally(Entry) + One(todo[1], Entry)
    BY <1>5, <2>1, TallyInsertData
  <2>5. One(todo[1], Entry) = 1
    BY <2>2 DEF One
  <2>6. m_stats' = m_stats
    BY <1>5 DEF InsertData
  <2>7. QED
    BY <1>1, <1>2, <2>3, <2>4, <2>5, <2>6 DEF DataInv
<1>6. ASSUME NEW o \in Object, DeleteData(o)
      PROVE  DataInv'
  <2>1. PICK path, page : work' = <<CondenseFrame(page, path, <<>>), Return(-1)>>
    BY <1>6, DeleteDataDoes
  <2>2. work = <<>> /\ m_stats' = m_stats
    BY <1>6 DEF DeleteData
  <2>3. Pending(work) = 0 /\ Pending(work') = -1
    BY <2>1, <2>2 DEF Pending, Return
  <2>4. Tally(Entry) = Tally(Entry)' + One(o, Entry)
    BY <1>6, TallyDeleteData
  <2>5. One(o, Entry) = 1
    BY RTreeAssumption DEF One
  <2>6. QED
    BY <1>1, <1>2, <2>2, <2>3, <2>4, <2>5 DEF DataInv
<1>7. ASSUME UNCHANGED <<nodes, work, m_stats>>
      PROVE  DataInv'
  <2>1. Tally(Entry)' = Tally(Entry)
    BY <1>7 DEF Tally
  <2>2. QED
    BY <1>1, <1>7, <2>1 DEF DataInv
<1>8. QED
  BY <1>3, <1>4, <1>5, <1>6, <1>7, Zenon DEF Next, Call, vars, DeleteNothing

LEMMA LeavesAtFirst ==
  ASSUME Init, NEW D
  PROVE  Tally(D) = 0
<1>1. /\ DOMAIN nodes = {m_rootID} /\ nodes[m_rootID].kids = <<>> /\ work = <<>>
  BY DEF Init, Node
<1>2. LeafPlaces(nodes, D) = {}
  BY <1>1 DEF LeafPlaces
<1>3. LeafCount(nodes, D) = 0
  BY <1>2, FS_EmptySet DEF LeafCount
<1>4. HandCount(work, D) = 0
  BY <1>1, HandCountNone
<1>5. QED
  BY <1>3, <1>4 DEF Tally

LEMMA DataAtFirst ==
  ASSUME Init
  PROVE  DataInv
<1>1. m_stats = [u32Nodes |-> 1, u64Data |-> 0, u32TreeHeight |-> 1, nodesInLevel |-> <<1>>]
      /\ work = <<>>
  BY DEF Init
<1>2. Tally(Entry) = 0 /\ Pending(work) = 0
  BY <1>1, LeavesAtFirst DEF Pending
<1>3. QED
  BY <1>1, <1>2 DEF DataInv

(***************************************************************************)
(* What RTree counts as the occurrences of objects.                        *)
(***************************************************************************)
ObjectHands == {k \in DOMAIN work : InHand(work[k]) # <<>> /\ InHand(work[k])[1] = 0}

ObjectPlaces ==
  UNION {{p} \X DOMAIN nodes[p].kids : p \in {q \in DOMAIN nodes : nodes[q].level = 0}}

LEMMA InHandOf ==
  ASSUME NEW f \in Frame, f.fn = "adjustTree2" => nodes[f.page].level # 0
  PROVE  /\ InHand(f) # <<>> /\ InHand(f)[1] = 0 <=> Hand(f)
         /\ Hand(f) => InHand(f)[2] = f.entry
<1>1. CASE f.fn \in {"insertData_impl", "chooseSubtree"}
  <2>1. InHand(f) = <<f.level, f.entry>>
    BY <1>1 DEF InHand
  <2>2. InHand(f) # <<>>
    BY <2>1
  <2>3. QED
    BY <1>1, <2>1, <2>2 DEF Hand
<1>2. CASE f.fn = "insertData"
  <2>1. InHand(f) = <<f.node.level, f.entry>>
    BY <1>2 DEF InHand
  <2>2. InHand(f) # <<>>
    BY <2>1
  <2>3. QED
    BY <1>2, <2>1, <2>2 DEF Hand
<1>3. CASE f.fn = "adjustTree2"
  <2>1. InHand(f) = <<nodes[f.page].level, f.entry>>
    BY <1>3 DEF InHand
  <2>2. InHand(f)[1] # 0
    BY <1>3, <2>1
  <2>3. QED
    BY <1>3, <2>2 DEF Hand
<1>4. CASE f.fn \notin {"insertData_impl", "chooseSubtree", "insertData", "adjustTree2"}
  <2>1. InHand(f) = <<>>
    BY <1>4 DEF InHand
  <2>2. QED
    BY <1>4, <2>1 DEF Hand
<1>5. QED
  BY <1>1, <1>2, <1>3, <1>4

LEMMA ObjectHandsOf ==
  ASSUME TreeInv, NEW D
  PROVE  {k \in ObjectHands : InHand(work[k])[2] \in D} = Places(work, Hands(D))
<1>1. ASSUME NEW k \in DOMAIN work
      PROVE  /\ work[k] \in Frame
             /\ InHand(work[k]) # <<>> /\ InHand(work[k])[1] = 0 <=> Hand(work[k])
             /\ Hand(work[k]) => InHand(work[k])[2] = work[k].entry
  <2>1. work[k] \in Frame /\ FrameOK(nodes, m_rootID, work[k])
    BY DEF TreeInv, Sound, StackOK
  <2>2. work[k].fn = "adjustTree2" => nodes[work[k].page].level # 0
    BY <2>1 DEF FrameOK, Adjust2OK
  <2>3. QED
    BY <2>1, <2>2, InHandOf
<1>2. QED
  BY <1>1 DEF ObjectHands, Places, Hands

LEMMA OccurrencesOf ==
  ASSUME TreeInv
  PROVE  /\ \A o : Occurrences(0, LAMBDA e : e = o) = Tally({o})
         /\ Occurrences(0, LAMBDA e : TRUE) = Tally(Entry)
<1>1. ASSUME NEW o
      PROVE  Occurrences(0, LAMBDA e : e = o) = Tally({o})
  <2> DEFINE A == {x \in ObjectPlaces : nodes[x[1]].kids[x[2]] = o}
             B == {k \in ObjectHands : InHand(work[k])[2] = o}
  <2>1. Occurrences(0, LAMBDA e : e = o) = Cardinality(A) + Cardinality(B)
    BY DEF Occurrences, ObjectHands, ObjectPlaces
  <2>2. A = LeafPlaces(nodes, {o})
    BY DEF LeafPlaces, ObjectPlaces
  <2>3. B = {k \in ObjectHands : InHand(work[k])[2] \in {o}}
    OBVIOUS
  <2>4. B = Places(work, Hands({o}))
    BY <2>3, ObjectHandsOf
  <2> HIDE DEF A, B
  <2>5. QED
    BY <2>1, <2>2, <2>4 DEF Tally, LeafCount, HandCount, Count
<1>2. Occurrences(0, LAMBDA e : TRUE) = Tally(Entry)
  <2> DEFINE A == {x \in ObjectPlaces : TRUE}
             B == {k \in ObjectHands : TRUE}
  <2>1. Occurrences(0, LAMBDA e : TRUE) = Cardinality(A) + Cardinality(B)
    BY DEF Occurrences, ObjectHands, ObjectPlaces
  <2>2. A = LeafPlaces(nodes, Entry)
    <3>1. ASSUME NEW x \in ObjectPlaces
          PROVE  nodes[x[1]].kids[x[2]] \in Entry
      <4>1. PICK p \in DOMAIN nodes : x \in {p} \X DOMAIN nodes[p].kids
        BY DEF ObjectPlaces
      <4>2. x[1] = p /\ x[2] \in DOMAIN nodes[p].kids
        BY <4>1
      <4>3. nodes[p].kids \in Seq(Entry)
        BY NodesTyped DEF TreeInv, Sound
      <4>4. QED
        BY <4>2, <4>3
    <3>2. LeafPlaces(nodes, Entry) = {x \in ObjectPlaces : nodes[x[1]].kids[x[2]] \in Entry}
      BY DEF LeafPlaces, ObjectPlaces
    <3>3. QED
      BY <3>1, <3>2
  <2>3. B = Places(work, Hands(Entry))
    <3>1. ASSUME NEW k \in ObjectHands
          PROVE  InHand(work[k])[2] \in Entry
      <4>1. k \in DOMAIN work /\ InHand(work[k]) # <<>> /\ InHand(work[k])[1] = 0
        BY DEF ObjectHands
      <4>2. work[k] \in Frame /\ FrameOK(nodes, m_rootID, work[k])
        BY <4>1 DEF TreeInv, Sound, StackOK
      <4>3. work[k].fn = "adjustTree2" => nodes[work[k].page].level # 0
        BY <4>2 DEF FrameOK, Adjust2OK
      <4>4. Hand(work[k]) /\ InHand(work[k])[2] = work[k].entry
        BY <4>1, <4>2, <4>3, InHandOf
      <4>5. work[k].entry \in Entry
        <5>1. CASE work[k].fn = "insertData_impl"
          BY <4>2, <5>1, FrameKinds DEF ImplFrames
        <5>2. CASE work[k].fn = "chooseSubtree"
          BY <4>2, <5>2, FrameKinds DEF ChooseFrames
        <5>3. CASE work[k].fn = "insertData"
          BY <4>2, <5>3, FrameKinds DEF InsertFrames
        <5>4. QED
          BY <4>4, <5>1, <5>2, <5>3 DEF Hand
      <4>6. QED
        BY <4>4, <4>5
    <3>2. {k \in ObjectHands : InHand(work[k])[2] \in Entry} = Places(work, Hands(Entry))
      BY ObjectHandsOf
    <3>3. QED
      BY <3>1, <3>2
  <2> HIDE DEF A, B
  <2>4. QED
    BY <2>1, <2>2, <2>3 DEF Tally, LeafCount, HandCount, Count
<1>3. QED
  BY <1>1, <1>2

(***************************************************************************)
(* The tree, the way through it and the count hold together.               *)
(***************************************************************************)
CallInv == TreeInv /\ ClientOK /\ WayInv /\ DataInv

LEMMA CallStep ==
  ASSUME ReinsertsSome, CallInv, [Next]_vars
  PROVE  CallInv'
<1>1. TreeInv' /\ ClientOK'
  BY TreeStep, ClientStep DEF CallInv
<1>2. WayInv'
  BY WayStep DEF CallInv
<1>3. DataInv'
  BY <1>1, DataStep DEF CallInv
<1>4. QED
  BY <1>1, <1>2, <1>3 DEF CallInv

THEOREM CallsKeepCount ==
  ASSUME ReinsertsSome
  PROVE  Spec => []CallInv
<1>1. Init => CallInv
  BY InitSound, InitClient, WayAtFirst, DataAtFirst DEF CallInv
<1>2. CallInv /\ [Next]_vars => CallInv'
  BY CallStep
<1>3. QED
  BY <1>1, <1>2, PTL DEF Spec

(***************************************************************************)
(* m_u64Data is the number of objects in the leaves between calls,         *)
(* whatever splits, forced reinsertions and condensations happened.        *)
(***************************************************************************)
THEOREM DataIsCounted ==
  ASSUME ReinsertsSome
  PROVE  Spec => []DataCounted
<1>1. CallInv => DataCounted
  <2> SUFFICES ASSUME CallInv, work = <<>>
               PROVE  m_stats.u64Data = Occurrences(0, LAMBDA e : TRUE)
    BY DEF DataCounted, Idle
  <2>1. Occurrences(0, LAMBDA e : TRUE) = Tally(Entry)
    BY OccurrencesOf DEF CallInv
  <2>2. m_stats.u64Data \in Nat /\ m_stats.u64Data + 0 = Tally(Entry)
    BY DEF CallInv, DataInv, Pending
  <2>3. QED
    BY <2>1, <2>2
<1>2. QED
  BY <1>1, CallsKeepCount, PTL

------------------------------------------------------------------------------
\* A node's MBR covers its entries.
LEMMA NodeBoxCovers ==
  ASSUME NEW kids \in Seq(Entry)
  PROVE  /\ NodeBox(kids) \in Regions /\ MBRs(kids) \in SUBSET Regions
         /\ IsBoxOf(NodeBox(kids), MBRs(kids))
         /\ ContainsRegion(NodeBox(kids), InfiniteRegion)
         /\ \A k \in DOMAIN kids : ContainsRegion(NodeBox(kids), kids[k].mbr)
<1>1. \A k \in 1 .. Len(kids) : kids[k].mbr \in Regions
  <2> SUFFICES ASSUME NEW k \in 1 .. Len(kids)
               PROVE  kids[k].mbr \in Regions
    OBVIOUS
  <2>1. kids[k] \in Entry
    OBVIOUS
  <2>2. QED
    BY <2>1, EntryOf
<1>2. /\ MBRs(kids) \in SUBSET Regions /\ NodeBox(kids) \in Regions
      /\ IsBoxOf(NodeBox(kids), MBRs(kids))
  BY <1>1, NodeBoxIsBox
<1>3. \A k \in DOMAIN kids : kids[k].mbr \in MBRs(kids)
  BY DEF MBRs
<1> DEFINE box == NodeBox(kids)
<1> HIDE DEF box
<1>4. \A d \in Dim : box.low[d] <= Infinity /\ -Infinity <= box.high[d]
  BY <1>2 DEF IsBoxOf, box
<1>5. ContainsRegion(box, InfiniteRegion)
  BY <1>4 DEF ContainsRegion, InfiniteRegion
<1>6. \A r \in MBRs(kids) : ContainsRegion(box, r)
  BY <1>2 DEF IsBoxOf, ContainsRegion, box
<1>7. QED
  BY <1>2, <1>3, <1>5, <1>6 DEF box

------------------------------------------------------------------------------
(***************************************************************************)
(* The pages of each level, and how the counters stand to them.  They      *)
(* agree if a root never loses its only child without a sibling of that    *)
(* child; otherwise nodesInLevel may be too high (collapsing sets it to    *)
(* two), but never too low.                                                *)
(***************************************************************************)
AtLevel(pages, l) == {p \in DOMAIN pages : pages[p].level = l}

SizeAt(pages, l) == Cardinality(AtLevel(pages, l))

Stats == [u32Nodes : Nat, u64Data : Nat, u32TreeHeight : Nat, nodesInLevel : Seq(Nat)]

Tallies(count, size, exact) == IF exact THEN count = size ELSE count >= size

Counted(pages, height, stats, exact) ==
  /\ stats.u32Nodes = Cardinality(DOMAIN pages)
  /\ stats.u32TreeHeight = height + 1
  /\ Len(stats.nodesInLevel) = height + 1
  /\ \A l \in 0 .. height : Tallies(stats.nodesInLevel[l + 1], SizeAt(pages, l), exact)

CountInv(exact) == m_stats \in Stats /\ Counted(nodes, nodes[m_rootID].level, m_stats, exact)

\* Of the nodes that wait to be deleted only the first may be as high as the
\* root, which took its sibling's place.
LowWaits(pages, root, stack) ==
  \A k \in DOMAIN stack \ {1} :
    stack[k].fn = "deleteNode" => pages[stack[k].page].level < pages[root].level

WaitInv == LowWaits(nodes, m_rootID, work)

LEMMA LevelsFinite ==
  ASSUME NEW pages, NEW root, TreeOK(pages, root), NEW l
  PROVE  IsFiniteSet(AtLevel(pages, l)) /\ SizeAt(pages, l) \in Nat
<1>1. IsFiniteSet(DOMAIN pages) /\ AtLevel(pages, l) \subseteq DOMAIN pages
  BY DEF TreeOK, AtLevel
<1>2. IsFiniteSet(AtLevel(pages, l))
  BY <1>1, FS_Subset
<1>3. QED
  BY <1>2, FS_CardinalityType DEF SizeAt

\* Pages that stay at their levels.
LEMMA SameLevelsCount ==
  ASSUME NEW pages, NEW pages2, DOMAIN pages2 = DOMAIN pages,
         \A p \in DOMAIN pages : pages2[p].level = pages[p].level, NEW l
  PROVE  SizeAt(pages2, l) = SizeAt(pages, l)
<1>1. AtLevel(pages2, l) = AtLevel(pages, l)
  BY DEF AtLevel
<1>2. QED
  BY <1>1 DEF SizeAt

\* A page that comes.
Joins(pages, q, pages2) ==
  /\ q \notin DOMAIN pages /\ DOMAIN pages2 = DOMAIN pages \cup {q}
  /\ \A p \in DOMAIN pages : pages2[p].level = pages[p].level

LEMMA PageCounts ==
  ASSUME NEW pages, NEW root, TreeOK(pages, root), NEW q, NEW pages2, Joins(pages, q, pages2), NEW l
  PROVE  /\ Cardinality(DOMAIN pages2) = Cardinality(DOMAIN pages) + 1
         /\ SizeAt(pages2, l) = IF l = pages2[q].level THEN SizeAt(pages, l) + 1 ELSE SizeAt(pages, l)
<1>1. IsFiniteSet(DOMAIN pages) /\ IsFiniteSet(AtLevel(pages, l))
  BY LevelsFinite DEF TreeOK
<1>0. /\ q \notin DOMAIN pages /\ DOMAIN pages2 = DOMAIN pages \cup {q}
      /\ \A p \in DOMAIN pages : pages2[p].level = pages[p].level
  BY DEF Joins
<1>2. Cardinality(DOMAIN pages2) = Cardinality(DOMAIN pages) + 1
  BY <1>0, <1>1, FS_AddElement
<1>3. q \notin AtLevel(pages, l)
  BY <1>0 DEF AtLevel
<1>4. CASE l = pages2[q].level
  <2>1. AtLevel(pages2, l) = AtLevel(pages, l) \cup {q}
    BY <1>0, <1>4 DEF AtLevel
  <2>2. QED
    BY <1>1, <1>2, <1>3, <1>4, <2>1, FS_AddElement DEF SizeAt
<1>5. CASE l # pages2[q].level
  <2>1. AtLevel(pages2, l) = AtLevel(pages, l)
    BY <1>0, <1>5 DEF AtLevel
  <2>2. QED
    BY <1>2, <1>5, <2>1 DEF SizeAt
<1>6. QED
  BY <1>4, <1>5

\* A page that goes.
LEMMA PageUncounts ==
  ASSUME NEW pages, NEW root, TreeOK(pages, root), NEW q, NEW pages2, Joins(pages2, q, pages), NEW l
  PROVE  /\ Cardinality(DOMAIN pages2) = Cardinality(DOMAIN pages) - 1
         /\ SizeAt(pages2, l) = IF l = pages[q].level THEN SizeAt(pages, l) - 1 ELSE SizeAt(pages, l)
         /\ l = pages[q].level => SizeAt(pages, l) >= 1
<1>1. IsFiniteSet(DOMAIN pages) /\ IsFiniteSet(AtLevel(pages, l)) /\ SizeAt(pages, l) \in Nat
  BY LevelsFinite DEF TreeOK
<1>0. /\ q \in DOMAIN pages /\ DOMAIN pages2 = DOMAIN pages \ {q}
      /\ \A p \in DOMAIN pages \ {q} : pages2[p].level = pages[p].level
  BY DEF Joins
<1>2. Cardinality(DOMAIN pages2) = Cardinality(DOMAIN pages) - 1
  BY <1>0, <1>1, FS_RemoveElement
<1>4. CASE l = pages[q].level
  <2>1. AtLevel(pages2, l) = AtLevel(pages, l) \ {q} /\ q \in AtLevel(pages, l)
    BY <1>0, <1>4 DEF AtLevel
  <2>2. Cardinality(AtLevel(pages, l)) # 0
    BY <1>1, <2>1, FS_EmptySet
  <2>3. SizeAt(pages2, l) = SizeAt(pages, l) - 1
    BY <1>1, <2>1, FS_RemoveElement DEF SizeAt
  <2>4. QED
    BY <1>1, <1>2, <1>4, <2>2, <2>3 DEF SizeAt
<1>5. CASE l # pages[q].level
  <2>1. AtLevel(pages2, l) = AtLevel(pages, l)
    BY <1>0, <1>5 DEF AtLevel
  <2>2. QED
    BY <1>2, <1>5, <2>1 DEF SizeAt
<1>6. QED
  BY <1>4, <1>5

------------------------------------------------------------------------------
(***************************************************************************)
(* Who is as high as the root.                                             *)
(***************************************************************************)
LEMMA HeldIsLow ==
  ASSUME TreeInv, NEW f \in Frame, FrameOK(nodes, m_rootID, f), ~Disposing(f),
         NEW p \in DOMAIN nodes, p \in HeldPages(f)
  PROVE  nodes[p].level < nodes[m_rootID].level
<1>1. TreeOK(nodes, m_rootID)
  BY DEF TreeInv, Sound
<1>2. \A q \in DOMAIN nodes : nodes[q].level \in Nat /\ nodes[q].level <= nodes[m_rootID].level
  BY <1>1, NodesTyped
<1>3. InHand(f) # <<>> /\ InHand(f)[1] = nodes[p].level + 1
  BY <1>1, HeldIsInHand
<1>4. m_rootID \in DOMAIN nodes
  BY <1>1 DEF TreeOK
<1>5. nodes[p].level \in Nat /\ nodes[m_rootID].level \in Nat
  BY <1>2, <1>4
<1>6. CASE f.fn = "insertData_impl"
  <2>1. InHand(f)[1] = f.level /\ f.level <= nodes[m_rootID].level
    BY <1>6 DEF InHand, FrameOK, ImplOK
  <2>2. QED
    BY <1>3, <1>5, <2>1
<1>7. CASE f.fn = "chooseSubtree"
  <2>1. InHand(f)[1] = f.level /\ f.level <= nodes[f.page].level /\ f.page \in DOMAIN nodes
    BY <1>7 DEF InHand, FrameOK, ChooseOK, Route
  <2>2. nodes[f.page].level \in Nat /\ nodes[f.page].level <= nodes[m_rootID].level
    BY <1>2, <2>1
  <2>3. nodes[p].level + 1 <= nodes[f.page].level
    BY <1>3, <2>1, Zenon
  <2>4. QED
    BY <1>5, <2>2, <2>3
<1>8. CASE f.fn = "insertData"
  <2>1. InHand(f)[1] = f.node.level /\ f.node.level = nodes[f.page].level /\ f.page \in DOMAIN nodes
    BY <1>8 DEF InHand, FrameOK, InsertOK, Route
  <2>2. nodes[f.page].level \in Nat /\ nodes[f.page].level <= nodes[m_rootID].level
    BY <1>2, <2>1
  <2>3. nodes[p].level + 1 = nodes[f.page].level
    BY <1>3, <2>1, Zenon
  <2>4. QED
    BY <1>5, <2>2, <2>3
<1>9. CASE f.fn = "adjustTree2"
  <2>1. InHand(f)[1] = nodes[f.page].level /\ f.page \in DOMAIN nodes
    BY <1>9 DEF InHand, FrameOK, Adjust2OK, Route
  <2>2. nodes[f.page].level \in Nat /\ nodes[f.page].level <= nodes[m_rootID].level
    BY <1>2, <2>1
  <2>3. nodes[p].level + 1 = nodes[f.page].level
    BY <1>3, <2>1, Zenon
  <2>4. QED
    BY <1>5, <2>2, <2>3
<1>10. QED
  BY <1>3, <1>6, <1>7, <1>8, <1>9 DEF InHand

\* No page but the root's, and the one that goes.
LEMMA BelowRoot ==
  ASSUME TreeInv, WaitInv, work # <<>>, work[1].fn # "condenseTree",
         NEW p \in DOMAIN nodes \ {m_rootID}, work[1].fn = "deleteNode" => work[1].page # p
  PROVE  nodes[p].level < nodes[m_rootID].level
<1>1. /\ TreeOK(nodes, m_rootID) /\ StackOK(nodes, m_rootID, work) /\ work \in Seq(Frame)
      /\ OneOwner(nodes, m_rootID, work)
  BY OneOwnerEach DEF TreeInv, Sound, StackOK, TreeOK
<1>2. CASE \E q \in DOMAIN nodes : p \in Children(nodes[q])
  <2>1. PICK q \in DOMAIN nodes : p \in Children(nodes[q])
    BY <1>2
  <2>2. /\ nodes[q].level \in Nat /\ nodes[q].level <= nodes[m_rootID].level
        /\ FitsIn(nodes, nodes[q]) /\ m_rootID \in DOMAIN nodes
    BY <1>1, NodesTyped DEF TreeOK
  <2>3. nodes[p].level = nodes[q].level - 1
    BY <2>1, <2>2 DEF FitsIn, Children
  <2>4. nodes[m_rootID].level \in Nat
    BY <1>1, <2>2, NodesTyped
  <2>5. QED
    BY <2>2, <2>3, <2>4
<1>3. CASE Holds(work, p)
  <2>1. PICK k \in DOMAIN work : p \in HeldPages(work[k])
    BY <1>3 DEF Holds
  <2>2. work[k] \in Frame /\ FrameOK(nodes, m_rootID, work[k])
    BY <1>1 DEF StackOK
  <2>3. work[k].fn # "condenseTree"
    <3>1. k # 1 => Waiting(work[k])
      BY <1>1 DEF StackOK
    <3>2. QED
      BY <3>1 DEF Waiting
  <2>4. CASE work[k].fn = "deleteNode"
    <3>1. p = work[k].page
      BY <2>1, <2>4 DEF HeldPages
    <3>2. k # 1
      BY <2>4, <3>1
    <3>3. QED
      BY <2>4, <3>1, <3>2 DEF WaitInv, LowWaits
  <2>5. CASE work[k].fn # "deleteNode"
    BY <2>1, <2>2, <2>3, <2>5, HeldIsLow DEF Disposing
  <2>6. QED
    BY <2>4, <2>5
<1>4. QED
  BY <1>1, <1>2, <1>3 DEF OneOwner

(***************************************************************************)
(* The nodes that wait to be deleted stay low.                             *)
(***************************************************************************)
LEMMA WaitAfter ==
  ASSUME TreeInv, work # <<>>, NEW new, Became(new),
         \A k \in DOMAIN new \ {1} :
           new[k].fn = "deleteNode" => nodes'[new[k].page].level < nodes'[m_rootID'].level,
         \A k \in DOMAIN Tail(work) : Tail(work)[k].fn = "deleteNode" =>
           nodes'[Tail(work)[k].page].level < nodes'[m_rootID'].level
  PROVE  WaitInv'
<1> DEFINE n == Len(work)
           m == Len(new)
           tail == Tail(work)
<1>1. /\ n \in Nat /\ n >= 1 /\ m \in Nat /\ DOMAIN new = 1 .. m /\ DOMAIN tail = 1 .. n - 1
      /\ DOMAIN work' = 1 .. m + (n - 1)
      /\ \A k \in 1 .. m : work'[k] = new[k]
      /\ \A k \in 1 .. n - 1 : work'[m + k] = tail[k]
  BY StackAfter
<1> HIDE DEF n, m, tail
<1>2. ASSUME NEW k \in DOMAIN work' \ {1}, work'[k].fn = "deleteNode"
      PROVE  nodes'[work'[k].page].level < nodes'[m_rootID'].level
  <2>1. k \in 1 .. m + (n - 1) /\ k # 1
    BY <1>1
  <2>2. CASE k <= m
    <3>1. k \in DOMAIN new \ {1} /\ work'[k] = new[k]
      BY <1>1, <2>1, <2>2
    <3>2. QED
      BY <1>2, <3>1
  <2>3. CASE ~ k <= m
    <3>1. k - m \in 1 .. n - 1 /\ m + (k - m) = k
      BY <1>1, <2>1, <2>3
    <3>2. k - m \in DOMAIN tail /\ work'[k] = tail[k - m]
      BY <1>1, <3>1
    <3>3. QED
      BY <1>2, <3>2 DEF tail
  <2>4. QED
    BY <2>2, <2>3
<1>3. QED
  BY <1>2 DEF WaitInv, LowWaits

\* Pages that no one else's call holds may go, and the root may rise.
LEMMA WaitKept ==
  ASSUME TreeInv, WaitInv, work # <<>>, m_rootID' = m_rootID, NEW new, Became(new),
         \A k \in DOMAIN new : new[k].fn # "deleteNode",
         \A p \in DOMAIN nodes : Holds(Tail(work), p) /\ p # m_rootID => nodes'[p].level = nodes[p].level,
         nodes'[m_rootID].level \in Nat, nodes[m_rootID].level <= nodes'[m_rootID].level
  PROVE  WaitInv'
<1>1. ASSUME NEW k \in DOMAIN Tail(work), Tail(work)[k].fn = "deleteNode"
      PROVE  nodes'[Tail(work)[k].page].level < nodes'[m_rootID'].level
  <2> DEFINE p == Tail(work)[k].page
  <2>1. /\ k \in 1 .. Len(work) - 1 /\ Tail(work)[k] = work[k + 1]
        /\ Len(work) \in Nat /\ DOMAIN work = 1 .. Len(work)
    BY StackAfter
  <2>2. k + 1 \in DOMAIN work \ {1}
    BY <2>1
  <2>3. p \in HeldPages(Tail(work)[k])
    BY <1>1 DEF HeldPages
  <2>4. Holds(Tail(work), p)
    BY <2>3 DEF Holds
  <2>5. /\ TreeOK(nodes, m_rootID) /\ OneOwner(nodes, m_rootID, work)
    BY OneOwnerEach DEF TreeInv, Sound, StackOK, TreeOK
  <2>6. p \in DOMAIN nodes /\ p # m_rootID
    BY <2>1, <2>2, <2>3, <2>5 DEF OneOwner
  <2>7. nodes[p].level < nodes[m_rootID].level
    BY <1>1, <2>1, <2>2 DEF WaitInv, LowWaits
  <2>8. nodes'[p].level = nodes[p].level
    BY <2>4, <2>6
  <2>9. nodes[p].level \in Nat /\ nodes[m_rootID].level \in Nat
    BY <2>5, <2>6, NodesTyped DEF TreeOK
  <2> HIDE DEF p
  <2>10. nodes'[p].level < nodes'[m_rootID].level
    BY <2>7, <2>8, <2>9
  <2>11. QED
    BY <2>10 DEF p
<1>2. QED
  BY <1>1, WaitAfter

\* Condensations are only called by the client.
LEMMA WaitCondensing ==
  ASSUME TreeInv, work # <<>>, work[1].fn = "condenseTree", NEW new, Became(new),
         \A k \in DOMAIN new \ {1} :
           new[k].fn = "deleteNode" => nodes'[new[k].page].level < nodes'[m_rootID'].level
  PROVE  WaitInv'
<1>1. \A k \in DOMAIN Tail(work) : Tail(work)[k].fn = "return"
  <2>1. /\ DOMAIN Tail(work) = 1 .. Len(work) - 1 /\ DOMAIN work = 1 .. Len(work) /\ Len(work) \in Nat
        /\ \A k \in 1 .. Len(work) - 1 : Tail(work)[k] = work[k + 1]
    BY StackAfter
  <2>2. \A k \in DOMAIN work \ {1} : work[k].fn = "return"
    BY DEF TreeInv, Sound, StackOK
  <2>3. QED
    BY <2>1, <2>2
<1>2. QED
  BY <1>1, WaitAfter

------------------------------------------------------------------------------
(***************************************************************************)
(* Calls that leave every page at its level and have no page deleted.      *)
(***************************************************************************)
LevelsStay ==
  /\ m_rootID' = m_rootID /\ DOMAIN nodes' = DOMAIN nodes
  /\ \A p \in DOMAIN nodes : nodes'[p].level = nodes[p].level

MovesOn == \E new : Became(new) /\ \A k \in DOMAIN new : new[k].fn # "deleteNode"

LEMMA OnlyAtStays ==
  ASSUME m_rootID' = m_rootID, NEW p \in DOMAIN nodes, NEW m, m.level = nodes[p].level,
         OnlyAt(p, m, nodes, nodes')
  PROVE  LevelsStay
BY DEF OnlyAt, LevelsStay

LEMMA OneCall ==
  ASSUME NEW g, Became(<<g>>), g.fn # "deleteNode"
  PROVE  MovesOn
<1> DEFINE new == <<g>>
<1>1. \A k \in DOMAIN new : new[k].fn # "deleteNode"
  OBVIOUS
<1>2. Became(new)
  OBVIOUS
<1> HIDE DEF new
<1>3. QED
  BY <1>1, <1>2 DEF MovesOn

LEMMA NoCall ==
  ASSUME Became(<<>>)
  PROVE  MovesOn
<1> DEFINE new == <<>>
<1>1. \A k \in DOMAIN new : new[k].fn # "deleteNode"
  OBVIOUS
<1>2. Became(new)
  OBVIOUS
<1> HIDE DEF new
<1>3. QED
  BY <1>1, <1>2 DEF MovesOn

LEMMA ParentCalls ==
  ASSUME TreeInv, NEW page \in DOMAIN nodes, NEW path \in Path, Route(nodes, m_rootID, path, page),
         NEW mbr \in Regions, NEW force \in BOOLEAN
  PROVE  \A k \in DOMAIN AdjustParent(page, mbr, path, force) :
           AdjustParent(page, mbr, path, force)[k].fn # "deleteNode"
<1>1. page \in Nat /\ TreeOK(nodes, m_rootID)
  BY NodesTyped DEF TreeInv, Sound
<1>2. \A k \in DOMAIN AdjustParent(page, mbr, path, force) :
        AdjustParent(page, mbr, path, force)[k].fn = "adjustTree"
  BY <1>1, AdjustParentOf
<1>3. QED
  BY <1>2

LEMMA ParentMoves ==
  ASSUME TreeInv, NEW page \in DOMAIN nodes, NEW path \in Path, Route(nodes, m_rootID, path, page),
         NEW mbr \in Regions, NEW force \in BOOLEAN, NEW go,
         Became(IF go THEN AdjustParent(page, mbr, path, force) ELSE <<>>)
  PROVE  MovesOn
<1>1. CASE go
  <2> DEFINE new == AdjustParent(page, mbr, path, force)
  <2>1. Became(new) /\ \A k \in DOMAIN new : new[k].fn # "deleteNode"
    BY <1>1, ParentCalls
  <2> HIDE DEF new
  <2>2. QED
    BY <2>1 DEF MovesOn
<1>2. CASE ~go
  BY <1>2, NoCall
<1>3. QED
  BY <1>1, <1>2

LEMMA GoingDownMoves ==
  ASSUME TreeInv, Reinsert \/ Descend \/ Arrive \/ AdjustTreeAfterSplit
  PROVE  LevelsStay /\ MovesOn /\ work # <<>> /\ work[1].fn \notin {"deleteNode", "condenseTree"}
<1>1. Step("insertData_impl") \/ Step("chooseSubtree") \/ Step("adjustTree2")
  BY Zenon DEF Reinsert, Descend, Arrive, AdjustTreeAfterSplit
<1>2. work # <<>> /\ m_rootID' = m_rootID /\ work[1].fn \notin {"deleteNode", "condenseTree"}
  BY <1>1, InStep
<1>3. nodes' = nodes
  BY ReinsertDoes, DescendDoes, ArriveDoes, AdjustTreeAfterSplitDoes
<1>4. LevelsStay
  BY <1>2, <1>3 DEF LevelsStay
<1>5. CASE Reinsert
  <2> DEFINE g == ChooseFrame(m_rootID, work[1].entry, work[1].level, <<>>)
  <2>1. Became(<<g>>) /\ g.fn # "deleteNode"
    BY <1>5, ReinsertDoes DEF ChooseFrame
  <2> HIDE DEF g
  <2>2. QED
    BY <1>2, <1>4, <2>1, OneCall
<1>6. CASE Descend
  <2>1. PICK c : Became(<<ChooseFrame(c, work[1].entry, work[1].level,
                                      Append(work[1].path, work[1].page))>>)
    BY <1>6, DescendDoes
  <2> DEFINE g == ChooseFrame(c, work[1].entry, work[1].level, Append(work[1].path, work[1].page))
  <2>2. Became(<<g>>) /\ g.fn # "deleteNode"
    BY <2>1 DEF ChooseFrame
  <2> HIDE DEF g
  <2>3. QED
    BY <1>2, <1>4, <2>2, OneCall
<1>7. CASE Arrive
  <2> DEFINE g == InsertFrame(work[1].page, nodes[work[1].page], work[1].entry, work[1].path, FALSE)
  <2>1. Became(<<g>>) /\ g.fn # "deleteNode"
    BY <1>7, ArriveDoes DEF InsertFrame
  <2> HIDE DEF g
  <2>2. QED
    BY <1>2, <1>4, <2>1, OneCall
<1>8. CASE AdjustTreeAfterSplit
  <2> DEFINE f == work[1]
             go == AdjustsAfterSplit(f)
             g == InsertFrame(f.page, WithChild(nodes[f.page], f, go), f.entry, f.path, go)
  <2>1. Became(<<g>>) /\ g.fn # "deleteNode"
    BY <1>8, AdjustTreeAfterSplitDoes DEF InsertFrame
  <2> HIDE DEF g
  <2>2. QED
    BY <1>2, <1>4, <2>1, OneCall
<1>9. QED
  BY <1>5, <1>6, <1>7, <1>8

LEMMA WritingMoves ==
  ASSUME ReinsertsSome, TreeInv, InsertFits \/ ForcedReinsert \/ AdjustTree
  PROVE  LevelsStay /\ MovesOn /\ work # <<>> /\ work[1].fn \notin {"deleteNode", "condenseTree"}
<1> DEFINE f == work[1]
<1>1. Step("insertData") \/ Step("adjustTree")
  BY Zenon DEF InsertFits, ForcedReinsert, AdjustTree
<1>2. work # <<>> /\ m_rootID' = m_rootID /\ f.fn \notin {"deleteNode", "condenseTree"}
  BY <1>1, InStep
<1>3. CASE InsertFits
  <2> DEFINE m == WithEntry(f.node, f.entry)
             go == GoesUp(f)
             no == FALSE
             mbr == m.mbr
  <2>1. /\ Inserting(f) /\ m.level = f.node.level /\ mbr \in Regions /\ OnlyAt(f.page, m, nodes, nodes')
        /\ Became(IF go THEN AdjustParent(f.page, mbr, f.path, no) ELSE <<>>) /\ no \in BOOLEAN
    BY <1>3, InsertFitsDoes
  <2>2. /\ f.path \in Path /\ Route(nodes, m_rootID, f.path, f.page)
        /\ f.node.level = nodes[f.page].level /\ f.page \in DOMAIN nodes
    BY <2>1 DEF Inserting
  <2> HIDE DEF m, go, no, mbr
  <2>3. LevelsStay
    BY <1>2, <2>1, <2>2, OnlyAtStays
  <2>4. MovesOn
    BY <2>1, <2>2, ParentMoves
  <2>5. QED
    BY <1>2, <2>3, <2>4
<1>4. CASE AdjustTree
  <2> DEFINE n == nodes[f.page]
             go == AdjustsAnyway(f)
             m == WithChild(n, f, go)
             mbr == m.mbr
  <2>1. /\ f.page \in DOMAIN nodes /\ Route(nodes, m_rootID, f.path, f.page) /\ f.path \in Path
        /\ f.force \in BOOLEAN /\ FitsIn(nodes, n) /\ go \in BOOLEAN /\ f.mbr \in Regions
        /\ OnlyAt(f.page, m, nodes, nodes')
        /\ Became(IF go THEN AdjustParent(f.page, mbr, f.path, f.force) ELSE <<>>)
    BY <1>4, AdjustTreeDoes
  <2> HIDE DEF go
  <2>2. m.level = n.level /\ mbr \in Regions
    <3>1. FitsIn(nodes, n) /\ f.mbr \in Regions /\ go \in BOOLEAN
      BY <2>1
    <3> HIDE DEF n, f
    <3>2. QED
      BY <3>1, WithChildOf
  <2> HIDE DEF m, mbr
  <2>3. LevelsStay
    BY <1>2, <2>1, <2>2, OnlyAtStays
  <2>4. MovesOn
    BY <2>1, <2>2, ParentMoves
  <2>5. QED
    BY <1>2, <2>3, <2>4
<1>5. CASE ForcedReinsert
  <2> DEFINE level == f.node.level
             all == Overflowing(f.node, f.entry)
             yes == TRUE
             no == FALSE
  <2>1. /\ Inserting(f) /\ Full(f.node) /\ f.path # <<>>
        /\ all \in Seq(Entry) /\ Len(all) = Capacity(level) + 1
        /\ \E r : /\ Distributes(all, r, 1) /\ r[1] \in Seq(Entry) /\ r[2] \in Seq(Entry)
                  /\ OnlyAt(f.page, Node(level, r[1]), nodes, nodes')
                  /\ Became(AdjustParent(f.page, Node(level, r[1]).mbr, f.path, yes)
                              \o Impls(r[2], level, no))
    BY <1>5, ForcedReinsertDoes
  <2> HIDE DEF yes, no
  <2>2. PICK r : /\ Distributes(all, r, 1) /\ r[1] \in Seq(Entry) /\ r[2] \in Seq(Entry)
                 /\ OnlyAt(f.page, Node(level, r[1]), nodes, nodes')
                 /\ Became(AdjustParent(f.page, Node(level, r[1]).mbr, f.path, yes)
                             \o Impls(r[2], level, no))
    BY <2>1
  <2> DEFINE m == Node(level, r[1])
             mbr == m.mbr
             up == AdjustParent(f.page, mbr, f.path, yes)
             rest == Impls(r[2], level, no)
             new == up \o rest
  <2>3. /\ f.path \in Path /\ Route(nodes, m_rootID, f.path, f.page) /\ level \in Nat
        /\ level = nodes[f.page].level /\ f.page \in DOMAIN nodes
    BY <2>1 DEF Inserting
  <2>4. m.level = level /\ mbr \in Regions
    BY <2>2, NodeBoxCovers DEF Node
  <2>5. LevelsStay
    <3>1. OnlyAt(f.page, m, nodes, nodes') /\ m.level = nodes[f.page].level
      BY <2>2, <2>3, <2>4
    <3> HIDE DEF m, f
    <3>2. QED
      BY <1>2, <2>3, <3>1, OnlyAtStays
  <2>6. yes \in BOOLEAN /\ no \in BOOLEAN
    BY DEF yes, no
  <2>7. level # 0 => DistinctIds(r[2])
    BY <2>1, <2>2, PartsOf
  <2>8. /\ rest \in Seq(Frame) /\ DOMAIN rest = DOMAIN r[2]
        /\ \A k \in DOMAIN rest : rest[k].fn = "insertData_impl"
    BY <2>2, <2>3, <2>6, <2>7, ImplsOf
  <2>9. \A k \in DOMAIN up : up[k].fn # "deleteNode"
    <3> HIDE DEF mbr
    <3>1. QED
      BY <2>3, <2>4, <2>6, ParentCalls
  <2>10. up \in Seq(Frame)
    <3>1. TreeOK(nodes, m_rootID) /\ f.page \in DOMAIN nodes
      BY <2>3 DEF TreeInv, Sound
    <3> HIDE DEF mbr, f
    <3>2. f.page \in Nat
      BY <3>1, NodesTyped
    <3>3. QED
      BY <2>3, <2>4, <2>6, <3>1, <3>2, AdjustParentOf
  <2> HIDE DEF up, rest
  <2>11. Became(new) /\ \A k \in DOMAIN new : new[k].fn # "deleteNode"
    <3>1. \A k \in DOMAIN new : (k \in DOMAIN up /\ new[k] = up[k])
                                  \/ (k - Len(up) \in DOMAIN rest /\ new[k] = rest[k - Len(up)])
      BY <2>8, <2>10
    <3>2. \A k \in DOMAIN new : new[k].fn # "deleteNode"
      <4> HIDE DEF new
      <4>1. QED
        BY <2>8, <2>9, <3>1
    <3>3. QED
      BY <2>2, <3>2, Zenon DEF up, rest
  <2> HIDE DEF new
  <2>12. MovesOn
    BY <2>11 DEF MovesOn
  <2>13. QED
    BY <1>2, <2>5, <2>12
<1>6. QED
  BY <1>3, <1>4, <1>5

LEMMA CountsStay ==
  ASSUME TreeInv, NEW exact \in BOOLEAN, CountInv(exact), LevelsStay, m_stats' = m_stats
  PROVE  CountInv(exact)'
<1>1. m_rootID \in DOMAIN nodes
  BY DEF TreeInv, Sound, TreeOK
<1>2. nodes'[m_rootID'].level = nodes[m_rootID].level /\ DOMAIN nodes' = DOMAIN nodes
  BY <1>1 DEF LevelsStay
<1>3. \A l : SizeAt(nodes', l) = SizeAt(nodes, l)
  BY SameLevelsCount DEF LevelsStay
<1>4. Counted(nodes', nodes'[m_rootID'].level, m_stats', exact)
  BY <1>2, <1>3 DEF CountInv, Counted
<1>5. QED
  BY <1>4 DEF CountInv

LEMMA WaitStays ==
  ASSUME TreeInv, WaitInv, LevelsStay, MovesOn, work # <<>>
  PROVE  WaitInv'
<1>1. PICK new : Became(new) /\ \A k \in DOMAIN new : new[k].fn # "deleteNode"
  BY DEF MovesOn
<1>2. m_rootID \in DOMAIN nodes /\ nodes[m_rootID].level \in Nat
  BY NodesTyped DEF TreeInv, Sound, TreeOK
<1>3. /\ m_rootID' = m_rootID /\ nodes'[m_rootID].level = nodes[m_rootID].level
      /\ \A p \in DOMAIN nodes : nodes'[p].level = nodes[p].level
  BY <1>2 DEF LevelsStay
<1>4. nodes'[m_rootID].level \in Nat /\ nodes[m_rootID].level <= nodes'[m_rootID].level
  BY <1>2, <1>3
<1>5. QED
  BY <1>1, <1>3, <1>4, WaitKept

\* A node without one of its entries, or with a child's new MBR, is at its level.
LEMMA CondensingLevels ==
  ASSUME TreeInv, CondenseTree
  PROVE  LevelsStay /\ work # <<>> /\ work[1].fn = "condenseTree" /\ WaitInv'
<1> DEFINE f == work[1]
           n == nodes[f.page]
           parent == Last(f.path)
           p == nodes[parent]
           at == PositionOf(p.kids, f.page)
           list == IF Underfull(n) THEN Append(f.toReinsert, f.page) ELSE f.toReinsert
           m == IF Underfull(n) THEN DeleteEntry(p, at)
                                ELSE Adjusted(p, Updated(p.kids, f.page, n.mbr), TightMBRs)
           g == CondenseFrame(parent, Front(f.path), list)
           new == <<g>>
<1>1. Step("condenseTree")
  BY Zenon DEF CondenseTree
<1>2. work # <<>> /\ m_rootID' = m_rootID /\ f.fn = "condenseTree"
  BY <1>1, InStep
<1>3. parent \in DOMAIN nodes /\ p \in Nodes /\ OnlyAt(parent, m, nodes, nodes') /\ Became(new)
  BY CondenseTreeDoes
<1>4. m.level = p.level
  <2>1. p = [p EXCEPT !.level = @] /\ "level" \in DOMAIN p
    BY <1>3 DEF Nodes
  <2> HIDE DEF p
  <2>2. DeleteEntry(p, at).level = p.level
    BY <2>1 DEF DeleteEntry
  <2>3. Adjusted(p, Updated(p.kids, f.page, n.mbr), TightMBRs).level = p.level
    BY <2>1 DEF Adjusted
  <2>4. QED
    BY <2>2, <2>3
<1>5. LevelsStay
  <2> HIDE DEF m, p
  <2>1. QED
    BY <1>2, <1>3, <1>4, OnlyAtStays DEF p
<1>6. \A k \in DOMAIN new \ {1} : new[k].fn = "deleteNode" => nodes'[new[k].page].level < nodes'[m_rootID'].level
  <2> HIDE DEF g
  <2>1. QED
    OBVIOUS
<1> HIDE DEF new
<1>7. WaitInv'
  BY <1>2, <1>3, <1>6, WaitCondensing
<1>8. QED
  BY <1>2, <1>5, <1>7

(***************************************************************************)
(* The nodes that were cut off, one of each level, are deleted from the    *)
(* highest down.                                                           *)
(***************************************************************************)
LEMMA DisposalsReversed ==
  ASSUME NEW list \in Seq(Nat)
  PROVE  /\ DOMAIN Disposals(list) = 1 .. Len(list) /\ Len(list) \in Nat
         /\ \A k \in 1 .. Len(list) : /\ Len(list) + 1 - k \in 1 .. Len(list)
                                      /\ Disposals(list)[k].fn = "deleteNode"
                                      /\ Disposals(list)[k].page = list[Len(list) + 1 - k]
<1> DEFINE n == Len(list)
<1>1. n \in Nat /\ DOMAIN list = 1 .. n
  OBVIOUS
<1>2. \A k \in 1 .. n : n + 1 - k \in 1 .. n /\ (n - k) + 1 = n + 1 - k
  BY <1>1
<1>3. \A k \in 1 .. n : Reverse(list)[k] = list[n + 1 - k]
  BY <1>1, <1>2 DEF Reverse
<1> HIDE DEF n
<1>4. QED
  BY <1>1, <1>2, <1>3 DEF Disposals, n

\* Where a condensation ends: the nodes' levels, before and after.
LEMMA DisposalsLow ==
  ASSUME TreeInv, Step("condenseTree"), AtRoot(work[1])
  PROVE  LET list == work[1].toReinsert
             new == Disposals(list)
         IN  /\ list \in Seq(Nat)
             /\ \A k \in DOMAIN new : /\ new[k].fn = "deleteNode" /\ new[k].page \in DOMAIN nodes
                                      /\ new[k].page # m_rootID
                                      /\ nodes[new[k].page].level < nodes[m_rootID].level
             /\ \A k \in DOMAIN new \ {1} : nodes[new[k].page].level < nodes[new[1].page].level
                                            /\ 1 \in DOMAIN new
<1> DEFINE list == work[1].toReinsert
           new == Disposals(list)
           n == Len(list)
<1>1. /\ list \in Seq(Nat)
      /\ \A i \in DOMAIN list : /\ list[i] \in DOMAIN nodes
                                /\ nodes[list[i]].level < nodes[m_rootID].level
                                /\ \A j \in 1 .. i - 1 : nodes[list[j]].level < nodes[list[i]].level
  BY AtTheRoot DEF AtRoot
<1>2. /\ DOMAIN new = 1 .. n /\ n \in Nat
      /\ \A k \in 1 .. n : /\ n + 1 - k \in 1 .. n /\ new[k].fn = "deleteNode"
                           /\ new[k].page = list[n + 1 - k]
  BY <1>1, DisposalsReversed
<1>3. DOMAIN list = 1 .. n
  BY <1>1
<1>4. nodes[m_rootID].level \in Nat
  BY NodesTyped DEF TreeInv, Sound, TreeOK
<1> HIDE DEF list, new, n
<1>5. \A k \in DOMAIN new : /\ new[k].fn = "deleteNode" /\ new[k].page \in DOMAIN nodes
                            /\ new[k].page # m_rootID
                            /\ nodes[new[k].page].level < nodes[m_rootID].level
  <2>1. \A i \in 1 .. n : /\ list[i] \in DOMAIN nodes /\ list[i] # m_rootID
                          /\ nodes[list[i]].level < nodes[m_rootID].level
    BY <1>1, <1>3, <1>4
  <2>2. ASSUME NEW k \in DOMAIN new
        PROVE  new[k].fn = "deleteNode" /\ \E i \in 1 .. n : new[k].page = list[i]
    BY <1>2
  <2>3. QED
    BY <2>1, <2>2
<1>6. ASSUME NEW k \in DOMAIN new \ {1}
      PROVE  nodes[new[k].page].level < nodes[new[1].page].level /\ 1 \in DOMAIN new
  <2>1. k \in 1 .. n /\ 1 \in 1 .. n /\ n \in 1 .. n /\ n + 1 - k \in 1 .. n - 1 /\ n + 1 - 1 = n
    BY <1>2
  <2>2. new[1].page = list[n] /\ new[k].page = list[n + 1 - k]
    BY <1>2, <2>1
  <2>3. nodes[list[n + 1 - k]].level < nodes[list[n]].level
    BY <1>1, <1>3, <2>1
  <2>4. QED
    BY <1>2, <2>1, <2>2, <2>3
<1>7. QED
  BY <1>1, <1>5, <1>6 DEF list, new

LEMMA CondensedRootLevels ==
  ASSUME TreeInv, CondenseRoot
  PROVE  LevelsStay /\ work # <<>> /\ WaitInv'
<1> DEFINE f == work[1]
           n == nodes[m_rootID]
           m == Adjusted(n, n.kids, TightMBRs)
           new == Disposals(f.toReinsert)
<1>1. Step("condenseTree") /\ AtRoot(f)
  BY Zenon DEF CondenseRoot
<1>2. work # <<>> /\ m_rootID' = m_rootID /\ f.fn = "condenseTree" /\ m_rootID \in DOMAIN nodes
  BY <1>1, InStep
<1>3. OnlyAt(m_rootID, m, nodes, nodes') /\ Became(new) /\ n \in Nodes
  BY CondenseRootDoes DEF FitsIn
<1>4. m.level = n.level
  BY <1>3 DEF Adjusted, Nodes
<1> HIDE DEF m
<1>5. LevelsStay
  BY <1>2, <1>3, <1>4, OnlyAtStays
<1>6. \A k \in DOMAIN new : new[k].page \in DOMAIN nodes /\ nodes[new[k].page].level < nodes[m_rootID].level
  BY <1>1, DisposalsLow
<1> HIDE DEF new
<1>7. \A k \in DOMAIN new : nodes'[new[k].page].level < nodes'[m_rootID'].level
  BY <1>2, <1>5, <1>6 DEF LevelsStay
<1>8. WaitInv'
  BY <1>2, <1>3, <1>7, WaitCondensing
<1>9. QED
  BY <1>2, <1>5, <1>8

------------------------------------------------------------------------------
(***************************************************************************)
(* Calls that make or delete pages.                                        *)
(***************************************************************************)
LEMMA TalliesMore ==
  ASSUME NEW exact \in BOOLEAN, NEW count \in Nat, NEW size \in Nat, Tallies(count, size, exact)
  PROVE  /\ Tallies(count + 1, size + 1, exact)
         /\ size >= 1 => count - 1 \in Nat /\ Tallies(count - 1, size - 1, exact)
BY DEF Tallies

LEMMA NodesInLevels ==
  ASSUME TreeInv, NEW exact \in BOOLEAN, CountInv(exact)
  PROVE  /\ m_stats \in Stats /\ m_stats.nodesInLevel \in Seq(Nat)
         /\ nodes[m_rootID].level \in Nat /\ m_rootID \in DOMAIN nodes /\ TreeOK(nodes, m_rootID)
         /\ m_stats.u32Nodes = Cardinality(DOMAIN nodes) /\ Cardinality(DOMAIN nodes) \in Nat
         /\ m_stats.u32TreeHeight = nodes[m_rootID].level + 1
         /\ Len(m_stats.nodesInLevel) = nodes[m_rootID].level + 1
         /\ DOMAIN m_stats.nodesInLevel = 1 .. nodes[m_rootID].level + 1
         /\ \A l \in 0 .. nodes[m_rootID].level :
              /\ l + 1 \in DOMAIN m_stats.nodesInLevel /\ m_stats.nodesInLevel[l + 1] \in Nat
              /\ SizeAt(nodes, l) \in Nat
              /\ Tallies(m_stats.nodesInLevel[l + 1], SizeAt(nodes, l), exact)
<1>1. TreeOK(nodes, m_rootID) /\ m_rootID \in DOMAIN nodes
  BY DEF TreeInv, Sound, TreeOK
<1>2. nodes[m_rootID].level \in Nat
  BY <1>1, NodesTyped
<1>3. m_stats \in Stats /\ m_stats.nodesInLevel \in Seq(Nat)
  BY DEF CountInv, Stats
<1>4. Cardinality(DOMAIN nodes) \in Nat
  BY <1>1, FS_CardinalityType DEF TreeOK
<1>5. \A l : SizeAt(nodes, l) \in Nat
  BY <1>1, LevelsFinite
<1>6. /\ m_stats.u32Nodes = Cardinality(DOMAIN nodes)
      /\ m_stats.u32TreeHeight = nodes[m_rootID].level + 1
      /\ Len(m_stats.nodesInLevel) = nodes[m_rootID].level + 1
      /\ \A l \in 0 .. nodes[m_rootID].level : Tallies(m_stats.nodesInLevel[l + 1], SizeAt(nodes, l), exact)
  BY DEF CountInv, Counted
<1> DEFINE height == nodes[m_rootID].level
           counts == m_stats.nodesInLevel
<1>7. counts \in Seq(Nat) /\ Len(counts) = height + 1 /\ height \in Nat
  BY <1>2, <1>3, <1>6
<1> HIDE DEF counts, height
<1>8. DOMAIN counts = 1 .. height + 1 /\ \A l \in 0 .. height : l + 1 \in DOMAIN counts /\ counts[l + 1] \in Nat
  BY <1>7
<1>9. QED
  BY <1>1, <1>2, <1>3, <1>4, <1>5, <1>6, <1>8 DEF counts, height

\* What becomes of the counters.
With(stats, n, h, counts) ==
  [stats EXCEPT !.u32Nodes = n, !.u32TreeHeight = h, !.nodesInLevel = counts]

LEMMA CountsWith ==
  ASSUME NEW counts \in Seq(Nat), NEW k \in DOMAIN counts, NEW n \in Nat, NEW new,
         new = [counts EXCEPT ![k] = n]
  PROVE  /\ new \in Seq(Nat) /\ Len(new) = Len(counts) /\ new[k] = n
         /\ \A j \in DOMAIN counts : j # k => new[j] = counts[j]
OBVIOUS

\* One more of a level.
LEMMA CountsOfSplits ==
  ASSUME TreeInv, NEW exact \in BOOLEAN, CountInv(exact), WaitInv, SplitNode
  PROVE  CountInv(exact)' /\ WaitInv'
<1> DEFINE f == work[1]
           level == f.node.level
           all == Overflowing(f.node, f.entry)
           height == nodes[m_rootID].level
           counts == m_stats.nodesInLevel
<1>1. /\ Step("insertData")
      /\ m_stats' = [m_stats EXCEPT !.u32Nodes = @ + 1,
                                    !.nodesInLevel[level + 1] = @ + 1]
  BY Zenon DEF SplitNode
<1>2. work # <<>> /\ m_rootID' = m_rootID /\ f.fn = "insertData"
  BY <1>1, InStep
<1>3. /\ Inserting(f)
      /\ \E g, nn : /\ nn \in Nat /\ nn \notin DOMAIN nodes
                    /\ TwoPages(f.page, Node(level, g[1]), nn, Node(level, g[2]), nodes, nodes')
                    /\ Became(<<[fn |-> "adjustTree2", page |-> Last(f.path),
                                 child |-> f.page, mbr |-> Node(level, g[1]).mbr,
                                 entry |-> [id |-> nn, mbr |-> Node(level, g[2]).mbr],
                                 path |-> Front(f.path)]>>)
  BY SplitNodeDoes
<1>4. PICK g, nn : /\ nn \in Nat /\ nn \notin DOMAIN nodes
                   /\ TwoPages(f.page, Node(level, g[1]), nn, Node(level, g[2]), nodes, nodes')
                   /\ Became(<<[fn |-> "adjustTree2", page |-> Last(f.path),
                                child |-> f.page, mbr |-> Node(level, g[1]).mbr,
                                entry |-> [id |-> nn, mbr |-> Node(level, g[2]).mbr],
                                path |-> Front(f.path)]>>)
  BY <1>3
<1>5. f.page \in DOMAIN nodes /\ level = nodes[f.page].level
  BY <1>3 DEF Inserting, Route
<1>6. /\ DOMAIN nodes' = DOMAIN nodes \cup {nn} /\ nodes'[nn].level = level
      /\ \A p \in DOMAIN nodes : nodes'[p].level = nodes[p].level
  <2>1. Node(level, g[1]).level = level /\ Node(level, g[2]).level = level
    BY DEF Node
  <2>2. QED
    BY <1>5, <1>4, <2>1 DEF TwoPages
<1>7. /\ m_stats \in Stats /\ counts \in Seq(Nat) /\ height \in Nat /\ m_rootID \in DOMAIN nodes
      /\ m_stats.u32Nodes = Cardinality(DOMAIN nodes) /\ Cardinality(DOMAIN nodes) \in Nat
      /\ m_stats.u32TreeHeight = height + 1
      /\ Len(counts) = height + 1 /\ DOMAIN counts = 1 .. height + 1
      /\ TreeOK(nodes, m_rootID)
      /\ \A l \in 0 .. height : /\ l + 1 \in DOMAIN counts /\ counts[l + 1] \in Nat
                                /\ SizeAt(nodes, l) \in Nat /\ Tallies(counts[l + 1], SizeAt(nodes, l), exact)
  BY NodesInLevels
<1>8. level \in 0 .. height
  BY <1>5, <1>7, NodesTyped
<1> HIDE DEF level, f
<1>9. /\ Cardinality(DOMAIN nodes') = Cardinality(DOMAIN nodes) + 1
      /\ \A l : SizeAt(nodes', l) = IF l = level THEN SizeAt(nodes, l) + 1 ELSE SizeAt(nodes, l)
  <2>1. Joins(nodes, nn, nodes') /\ TreeOK(nodes, m_rootID)
    BY <1>4, <1>6, <1>7, Zenon DEF Joins
  <2>2. \A l : /\ Cardinality(DOMAIN nodes') = Cardinality(DOMAIN nodes) + 1
              /\ SizeAt(nodes', l) = IF l = nodes'[nn].level THEN SizeAt(nodes, l) + 1 ELSE SizeAt(nodes, l)
    BY <2>1, PageCounts
  <2>3. QED
    BY <1>6, <2>2, Zenon
<1> DEFINE more == [counts EXCEPT ![level + 1] = @ + 1]
<1>10. /\ more \in Seq(Nat) /\ Len(more) = height + 1 /\ more[level + 1] = counts[level + 1] + 1
       /\ \A j \in DOMAIN counts : j # level + 1 => more[j] = counts[j]
  <2>1. level + 1 \in DOMAIN counts /\ counts[level + 1] + 1 \in Nat
    BY <1>7, <1>8
  <2>2. more = [counts EXCEPT ![level + 1] = counts[level + 1] + 1]
    OBVIOUS
  <2> HIDE DEF counts, height, more
  <2>3. QED
    BY <1>7, <2>1, <2>2, CountsWith
<1>11. /\ m_stats' \in Stats /\ m_stats'.u32Nodes = m_stats.u32Nodes + 1
       /\ m_stats'.u32TreeHeight = height + 1 /\ m_stats'.nodesInLevel = more
  <2>1. m_stats' = With(m_stats, m_stats.u32Nodes + 1, height + 1, more)
    <3>1. m_stats' = [m_stats EXCEPT !.u32Nodes = m_stats.u32Nodes + 1, !.nodesInLevel = more]
      BY <1>1
    <3>2. m_stats = [m_stats EXCEPT !.u32TreeHeight = height + 1]
      BY <1>7 DEF Stats
    <3> HIDE DEF more, height
    <3>3. QED
      BY <1>7, <3>1, <3>2 DEF Stats, With
  <2>2. m_stats.u32Nodes + 1 \in Nat /\ height + 1 \in Nat
    BY <1>7
  <2> HIDE DEF more, height
  <2>3. QED
    BY <1>7, <1>10, <2>1, <2>2 DEF With, Stats
<1>12. nodes'[m_rootID'].level = height
  BY <1>2, <1>6, <1>7
<1> HIDE DEF more, counts, height
<1>13. \A l \in 0 .. height : Tallies(more[l + 1], SizeAt(nodes', l), exact)
  <2>1. ASSUME NEW l \in 0 .. height
        PROVE  Tallies(more[l + 1], SizeAt(nodes', l), exact)
    <3>1. l + 1 \in DOMAIN counts /\ counts[l + 1] \in Nat /\ SizeAt(nodes, l) \in Nat
          /\ Tallies(counts[l + 1], SizeAt(nodes, l), exact)
      BY <1>7
    <3>2. CASE l = level
      BY <1>9, <1>10, <3>1, <3>2, TalliesMore
    <3>3. CASE l # level
      <4>1. l + 1 # level + 1
        BY <1>7, <1>8, <3>3
      <4>2. QED
        BY <1>9, <1>10, <3>1, <3>3, <4>1
    <3>4. QED
      BY <3>2, <3>3
  <2>2. QED
    BY <2>1
<1>14. Counted(nodes', height, m_stats', exact)
  BY <1>7, <1>9, <1>10, <1>11, <1>13 DEF Counted
<1>15. CountInv(exact)'
  BY <1>11, <1>12, <1>14 DEF CountInv
<1> DEFINE new == <<[fn |-> "adjustTree2", page |-> Last(f.path),
                     child |-> f.page, mbr |-> Node(level, g[1]).mbr,
                     entry |-> [id |-> nn, mbr |-> Node(level, g[2]).mbr],
                     path |-> Front(f.path)]>>
<1>16. Became(new) /\ \A k \in DOMAIN new : new[k].fn # "deleteNode"
  BY <1>4
<1>17. nodes'[m_rootID].level = nodes[m_rootID].level /\ nodes[m_rootID].level \in Nat
  BY <1>2, <1>7, <1>12 DEF height
<1>18. nodes[m_rootID].level <= nodes'[m_rootID].level /\ nodes'[m_rootID].level \in Nat
  BY <1>17
<1> HIDE DEF new
<1>19. WaitInv'
  BY <1>2, <1>6, <1>16, <1>18, WaitKept
<1>20. QED
  BY <1>15, <1>19

\* Two of the level that was the root's, and one above it.
LEMMA LevelsOfSplitRoot ==
  ASSUME TreeInv, WaitInv, SplitRoot
  PROVE  LET height == nodes[m_rootID].level
         IN  /\ work # <<>> /\ m_rootID' = m_rootID /\ work[1].node.level = height /\ height \in Nat
             /\ Became(<<>>)
             /\ Cardinality(DOMAIN nodes') = Cardinality(DOMAIN nodes) + 2
             /\ nodes'[m_rootID].level = height + 1
             /\ \A p \in DOMAIN nodes \ {m_rootID} : nodes'[p].level = nodes[p].level
             /\ \A l \in 0 .. height - 1 : SizeAt(nodes', l) = SizeAt(nodes, l)
             /\ SizeAt(nodes', height) = 2 /\ SizeAt(nodes', height + 1) = 1
<1> DEFINE f == work[1]
           level == f.node.level
           height == nodes[m_rootID].level
<1>1. Step("insertData")
  BY Zenon DEF SplitRoot
<1>2. /\ work # <<>> /\ m_rootID' = m_rootID /\ f.fn = "insertData" /\ m_rootID \in DOMAIN nodes
      /\ height \in Nat /\ TreeOK(nodes, m_rootID)
  BY <1>1, InStep
<1>3. /\ Inserting(f) /\ f.page = m_rootID /\ Became(<<>>)
      /\ \E g, n, nn : /\ n # nn /\ n \notin DOMAIN nodes /\ nn \notin DOMAIN nodes
                       /\ ThreePages(m_rootID, Node(level + 1, TwoKids(n, Node(level, g[1]).mbr,
                                                                       nn, Node(level, g[2]).mbr)),
                                     n, Node(level, g[1]), nn, Node(level, g[2]), nodes, nodes')
  BY SplitRootDoes
<1>4. PICK g, n, nn : /\ n # nn /\ n \notin DOMAIN nodes /\ nn \notin DOMAIN nodes
                      /\ ThreePages(m_rootID, Node(level + 1, TwoKids(n, Node(level, g[1]).mbr,
                                                                      nn, Node(level, g[2]).mbr)),
                                    n, Node(level, g[1]), nn, Node(level, g[2]), nodes, nodes')
  BY <1>3
<1>5. level = height
  BY <1>3 DEF Inserting
<1> HIDE DEF level
<1>6. /\ DOMAIN nodes' = DOMAIN nodes \cup {n, nn}
      /\ nodes'[m_rootID].level = level + 1 /\ nodes'[n].level = level /\ nodes'[nn].level = level
      /\ \A p \in DOMAIN nodes \ {m_rootID} : nodes'[p].level = nodes[p].level
  <2>1. \A l, kids : Node(l, kids).level = l
    BY DEF Node
  <2>2. QED
    BY <1>4, <2>1 DEF ThreePages
<1>7. \A p \in DOMAIN nodes \ {m_rootID} : nodes'[p].level = nodes[p].level /\ nodes[p].level < height
  <2>1. \A p \in DOMAIN nodes \ {m_rootID} : nodes[p].level < height
    BY <1>2, BelowRoot
  <2>2. QED
    BY <1>6, <2>1
<1> HIDE DEF height
<1>8. \A p \in DOMAIN nodes : nodes[p].level \in Nat
  BY <1>2, NodesTyped
<1>9. Cardinality(DOMAIN nodes') = Cardinality(DOMAIN nodes) + 2
  <2>1. IsFiniteSet(DOMAIN nodes)
    BY <1>2 DEF TreeOK
  <2>2. /\ IsFiniteSet(DOMAIN nodes \cup {n})
        /\ Cardinality(DOMAIN nodes \cup {n}) = Cardinality(DOMAIN nodes) + 1
    BY <1>4, <2>1, FS_AddElement
  <2>3. nn \notin DOMAIN nodes \cup {n}
    BY <1>4
  <2>4. Cardinality((DOMAIN nodes \cup {n}) \cup {nn}) = Cardinality(DOMAIN nodes \cup {n}) + 1
    BY <2>2, <2>3, FS_AddElement
  <2>5. DOMAIN nodes' = (DOMAIN nodes \cup {n}) \cup {nn}
    BY <1>6
  <2>6. Cardinality(DOMAIN nodes) \in Nat
    BY <2>1, FS_CardinalityType
  <2>7. QED
    BY <2>2, <2>4, <2>5, <2>6
<1>10. ASSUME NEW l \in 0 .. height - 1
       PROVE  SizeAt(nodes', l) = SizeAt(nodes, l)
  <2>1. AtLevel(nodes', l) = AtLevel(nodes, l)
    <3>1. m_rootID \notin AtLevel(nodes', l) /\ n \notin AtLevel(nodes', l) /\ nn \notin AtLevel(nodes', l)
      BY <1>2, <1>5, <1>6 DEF AtLevel
    <3>2. m_rootID \notin AtLevel(nodes, l)
      BY <1>2 DEF AtLevel, height
    <3>3. QED
      BY <1>6, <3>1, <3>2 DEF AtLevel
  <2>2. QED
    BY <2>1 DEF SizeAt
<1>11. AtLevel(nodes', height) = {n, nn}
  BY <1>2, <1>4, <1>5, <1>6, <1>7, <1>8 DEF AtLevel
<1>12. AtLevel(nodes', height + 1) = {m_rootID}
  BY <1>2, <1>4, <1>5, <1>6, <1>7, <1>8 DEF AtLevel
<1>13. SizeAt(nodes', height) = 2 /\ SizeAt(nodes', height + 1) = 1
  <2>1. IsFiniteSet({n}) /\ Cardinality({n}) = 1 /\ nn \notin {n} /\ {n, nn} = {n} \cup {nn}
    BY <1>4, FS_Singleton
  <2>2. Cardinality({n, nn}) = 2
    BY <2>1, FS_AddElement
  <2>3. Cardinality({m_rootID}) = 1
    BY FS_Singleton
  <2>4. QED
    BY <1>11, <1>12, <2>2, <2>3 DEF SizeAt
<1>14. nodes'[m_rootID].level = height + 1
  BY <1>5, <1>6
<1>15. QED
  BY <1>2, <1>3, <1>5, <1>6, <1>9, <1>10, <1>13, <1>14, Zenon DEF height, level

LEMMA CountsOfSplitRoot ==
  ASSUME TreeInv, NEW exact \in BOOLEAN, CountInv(exact), WaitInv, SplitRoot
  PROVE  CountInv(exact)' /\ WaitInv'
<1> DEFINE height == nodes[m_rootID].level
           counts == m_stats.nodesInLevel
           two == [counts EXCEPT ![height + 1] = 2]
           more == Append(two, 1)
<1>1. /\ work # <<>> /\ m_rootID' = m_rootID /\ work[1].node.level = height /\ height \in Nat
      /\ Became(<<>>)
      /\ Cardinality(DOMAIN nodes') = Cardinality(DOMAIN nodes) + 2
      /\ nodes'[m_rootID].level = height + 1
      /\ \A p \in DOMAIN nodes \ {m_rootID} : nodes'[p].level = nodes[p].level
      /\ \A l \in 0 .. height - 1 : SizeAt(nodes', l) = SizeAt(nodes, l)
      /\ SizeAt(nodes', height) = 2 /\ SizeAt(nodes', height + 1) = 1
  BY LevelsOfSplitRoot
<1>2. m_stats' = [m_stats EXCEPT !.u32Nodes = m_stats.u32Nodes + 2, !.u32TreeHeight = height + 2,
                                 !.nodesInLevel = more]
  <2>1. m_stats' = [m_stats EXCEPT !.u32Nodes = @ + 2, !.u32TreeHeight = work[1].node.level + 2,
                         !.nodesInLevel = Append([@ EXCEPT ![work[1].node.level + 1] = 2], 1)]
    BY Zenon DEF SplitRoot
  <2> HIDE DEF height
  <2>2. QED
    BY <1>1, <2>1
<1>3. /\ m_stats \in Stats /\ counts \in Seq(Nat)
      /\ m_stats.u32Nodes = Cardinality(DOMAIN nodes) /\ Cardinality(DOMAIN nodes) \in Nat
      /\ Len(counts) = height + 1 /\ DOMAIN counts = 1 .. height + 1
      /\ \A l \in 0 .. height : /\ l + 1 \in DOMAIN counts /\ counts[l + 1] \in Nat
                                /\ Tallies(counts[l + 1], SizeAt(nodes, l), exact)
  BY NodesInLevels
<1> HIDE DEF height, counts
<1>4. /\ two \in Seq(Nat) /\ Len(two) = height + 1 /\ two[height + 1] = 2
      /\ \A j \in DOMAIN counts : j # height + 1 => two[j] = counts[j]
  <2>1. height + 1 \in DOMAIN counts
    BY <1>1, <1>3
  <2>2. QED
    BY <1>3, <2>1, CountsWith
<1> HIDE DEF two
<1>5. /\ more \in Seq(Nat) /\ Len(more) = height + 2 /\ more[height + 2] = 1
      /\ \A j \in 1 .. height + 1 : more[j] = two[j]
  BY <1>1, <1>4
<1> HIDE DEF more
<1>6. /\ m_stats' \in Stats /\ m_stats'.u32Nodes = m_stats.u32Nodes + 2
      /\ m_stats'.u32TreeHeight = height + 2 /\ m_stats'.nodesInLevel = more
  <2>1. m_stats.u32Nodes + 2 \in Nat /\ height + 2 \in Nat
    BY <1>1, <1>3
  <2>2. m_stats' = With(m_stats, m_stats.u32Nodes + 2, height + 2, more)
    BY <1>2 DEF With
  <2>3. QED
    BY <1>3, <1>5, <2>1, <2>2 DEF With, Stats
<1>7. ASSUME NEW l \in 0 .. height + 1
      PROVE  Tallies(more[l + 1], SizeAt(nodes', l), exact)
  <2>1. CASE l = height + 1
    <3>1. more[l + 1] = 1 /\ SizeAt(nodes', l) = 1
      BY <1>1, <1>5, <2>1
    <3>2. QED
      BY <3>1 DEF Tallies
  <2>2. CASE l = height
    <3>1. l + 1 = height + 1 /\ height + 1 \in 1 .. height + 1
      BY <1>1, <2>2
    <3>2. more[l + 1] = 2 /\ SizeAt(nodes', l) = 2
      BY <1>1, <1>4, <1>5, <2>2, <3>1, Zenon
    <3>3. QED
      BY <3>2 DEF Tallies
  <2>3. CASE l \in 0 .. height - 1
    <3>1. l + 1 \in 1 .. height + 1 /\ l + 1 # height + 1 /\ l \in 0 .. height /\ l + 1 \in DOMAIN counts
      BY <1>1, <1>3, <2>3
    <3>2. more[l + 1] = two[l + 1]
      BY <1>5, <3>1, Zenon
    <3>3. two[l + 1] = counts[l + 1]
      BY <1>4, <3>1, Zenon
    <3>4. SizeAt(nodes', l) = SizeAt(nodes, l)
      BY <1>1, <2>3, Zenon
    <3>5. Tallies(counts[l + 1], SizeAt(nodes, l), exact)
      BY <1>3, <3>1, Zenon
    <3>6. QED
      BY <3>2, <3>3, <3>4, <3>5, Zenon
  <2>4. QED
    BY <1>1, <2>1, <2>2, <2>3
<1>8. Counted(nodes', height + 1, m_stats', exact)
  <2>1. m_stats'.u32Nodes = Cardinality(DOMAIN nodes') /\ height + 2 = (height + 1) + 1
    BY <1>1, <1>3, <1>6
  <2>2. QED
    BY <1>5, <1>6, <1>7, <2>1 DEF Counted
<1>9. CountInv(exact)'
  BY <1>1, <1>6, <1>8 DEF CountInv
<1>10. WaitInv'
  <2> DEFINE none == <<>>
  <2>1. Became(none) /\ \A k \in DOMAIN none : none[k].fn # "deleteNode"
    BY <1>1
  <2>2. nodes'[m_rootID].level \in Nat /\ nodes[m_rootID].level <= nodes'[m_rootID].level
    BY <1>1 DEF height
  <2> HIDE DEF none
  <2>3. QED
    BY <1>1, <2>1, <2>2, WaitKept
<1>11. QED
  BY <1>9, <1>10

\* A page that was cut off goes, after whose entries are reinserted.
LEMMA CountsOfDeleteNode ==
  ASSUME TreeInv, NEW exact \in BOOLEAN, CountInv(exact), WaitInv, DeleteNode
  PROVE  CountInv(exact)' /\ WaitInv'
<1> DEFINE page == work[1].page
           n == nodes[page]
           level == n.level
           height == nodes[m_rootID].level
           counts == m_stats.nodesInLevel
           less == [counts EXCEPT ![level + 1] = counts[level + 1] - 1]
           no == TRUE
           new == Impls(n.kids, level, no)
<1>1. Step("deleteNode")
  BY Zenon DEF DeleteNode
<1>2. work # <<>> /\ m_rootID' = m_rootID /\ m_rootID \in DOMAIN nodes
  BY <1>1, InStep
<1>3. /\ page \in DOMAIN nodes /\ page # m_rootID /\ n \in Nodes /\ (level # 0 => DistinctIds(n.kids))
      /\ ~Holds(Tail(work), page) /\ DOMAIN nodes' = DOMAIN nodes \ {page}
      /\ \A p \in DOMAIN nodes \ {page} : nodes'[p] = nodes[p]
      /\ Became(new) /\ no \in BOOLEAN
  BY DeleteNodeDoes
<1>4. m_stats' = [m_stats EXCEPT !.u32Nodes = m_stats.u32Nodes - 1, !.nodesInLevel = less]
  <2>1. m_stats' = [m_stats EXCEPT !.u32Nodes = @ - 1, !.nodesInLevel[level + 1] = @ - 1]
    BY Zenon DEF DeleteNode
  <2> HIDE DEF level
  <2>2. QED
    BY <2>1
<1>5. /\ m_stats \in Stats /\ counts \in Seq(Nat) /\ height \in Nat /\ TreeOK(nodes, m_rootID)
      /\ m_stats.u32Nodes = Cardinality(DOMAIN nodes) /\ Cardinality(DOMAIN nodes) \in Nat
      /\ m_stats.u32TreeHeight = height + 1
      /\ Len(counts) = height + 1 /\ DOMAIN counts = 1 .. height + 1
      /\ \A l \in 0 .. height : /\ l + 1 \in DOMAIN counts /\ counts[l + 1] \in Nat
                                /\ SizeAt(nodes, l) \in Nat /\ Tallies(counts[l + 1], SizeAt(nodes, l), exact)
  BY NodesInLevels
<1>6. n.kids \in Seq(Entry) /\ level \in Nat /\ level <= height
  BY <1>3, <1>5, NodesTyped
<1>7. \A k \in DOMAIN new : new[k].fn # "deleteNode"
  <2> HIDE DEF level, no, n
  <2>1. QED
    BY <1>3, <1>6, ImplsOf
<1>8. level \in 0 .. height
  BY <1>5, <1>6
<1>9. \A l : /\ Cardinality(DOMAIN nodes') = Cardinality(DOMAIN nodes) - 1
             /\ SizeAt(nodes', l) = IF l = level THEN SizeAt(nodes, l) - 1 ELSE SizeAt(nodes, l)
             /\ l = level => SizeAt(nodes, l) >= 1
  <2>1. Joins(nodes', page, nodes) /\ TreeOK(nodes, m_rootID)
    BY <1>3, <1>5 DEF Joins
  <2> HIDE DEF page
  <2>2. QED
    BY <2>1, PageUncounts
<1>10. nodes'[m_rootID'].level = height
  BY <1>2, <1>3
<1> HIDE DEF page, n, level, height, counts, new
<1>11. SizeAt(nodes, level) \in Nat /\ SizeAt(nodes, level) >= 1 /\ counts[level + 1] \in Nat
       /\ Tallies(counts[level + 1], SizeAt(nodes, level), exact) /\ level + 1 \in DOMAIN counts
  BY <1>5, <1>8, <1>9
<1>12. counts[level + 1] - 1 \in Nat /\ Tallies(counts[level + 1] - 1, SizeAt(nodes, level) - 1, exact)
  BY <1>11, TalliesMore
<1>13. /\ less \in Seq(Nat) /\ Len(less) = height + 1 /\ less[level + 1] = counts[level + 1] - 1
       /\ \A j \in DOMAIN counts : j # level + 1 => less[j] = counts[j]
  BY <1>5, <1>11, <1>12, CountsWith
<1> HIDE DEF less
<1>14. /\ m_stats' \in Stats /\ m_stats'.u32Nodes = m_stats.u32Nodes - 1
       /\ m_stats'.u32TreeHeight = height + 1 /\ m_stats'.nodesInLevel = less
  <2>1. m_stats.u32Nodes - 1 \in Nat
    <3>1. m_rootID \in DOMAIN nodes /\ IsFiniteSet(DOMAIN nodes)
      BY <1>2, <1>5 DEF TreeOK
    <3>2. Cardinality(DOMAIN nodes) # 0
      BY <3>1, FS_EmptySet
    <3>3. QED
      BY <1>5, <3>2
  <2>2. QED
    BY <1>4, <1>5, <1>13, <2>1 DEF Stats
<1>15. ASSUME NEW l \in 0 .. height
       PROVE  Tallies(less[l + 1], SizeAt(nodes', l), exact)
  <2>1. CASE l = level
    BY <1>9, <1>12, <1>13, <2>1
  <2>2. CASE l # level
    <3>1. l + 1 # level + 1 /\ l + 1 \in DOMAIN counts
      BY <1>5, <1>8, <2>2
    <3>2. less[l + 1] = counts[l + 1] /\ SizeAt(nodes', l) = SizeAt(nodes, l)
      BY <1>9, <1>13, <2>2, <3>1
    <3>3. QED
      BY <1>5, <3>2
  <2>3. QED
    BY <2>1, <2>2
<1>16. Counted(nodes', height, m_stats', exact)
  BY <1>5, <1>9, <1>13, <1>14, <1>15 DEF Counted
<1>17. CountInv(exact)'
  BY <1>10, <1>14, <1>16 DEF CountInv
<1>18. \A p \in DOMAIN nodes : Holds(Tail(work), p) /\ p # m_rootID => nodes'[p].level = nodes[p].level
  BY <1>3
<1>19. nodes'[m_rootID].level = nodes[m_rootID].level /\ nodes[m_rootID].level \in Nat
  BY <1>2, <1>5, <1>10 DEF height
<1>20. nodes[m_rootID].level <= nodes'[m_rootID].level /\ nodes'[m_rootID].level \in Nat
  BY <1>19
<1>21. WaitInv'
  BY <1>2, <1>3, <1>7, <1>18, <1>20, WaitKept
<1>22. QED
  BY <1>17, <1>21

\* A root whose last child but one was cut off, or that had one anyway.
LostSibling(f) ==
  \E i \in DOMAIN f.toReinsert : nodes[f.toReinsert[i]].level = nodes[m_rootID].level - 1

LEMMA LevelsOfCollapse ==
  ASSUME TreeInv, CollapseRoot
  PROVE  LET height == nodes[m_rootID].level
         IN  /\ work # <<>> /\ m_rootID' = m_rootID /\ height \in Nat /\ height >= 1
             /\ Cardinality(DOMAIN nodes') = Cardinality(DOMAIN nodes) - 1
             /\ Cardinality(DOMAIN nodes) >= 1
             /\ nodes'[m_rootID].level = height - 1
             /\ \A l \in 0 .. height - 2 : SizeAt(nodes', l) = SizeAt(nodes, l)
             /\ SizeAt(nodes', height - 1) \in Nat /\ SizeAt(nodes', height - 1) <= 2
             /\ LostSibling(work[1]) => SizeAt(nodes', height - 1) = 2
             /\ WaitInv'
<1> DEFINE f == work[1]
           n == nodes[m_rootID]
           height == n.level
           child == n.kids[1].id
           list == f.toReinsert
           new == Disposals(list)
<1>1. Step("condenseTree") /\ AtRoot(f)
  BY Zenon DEF CollapseRoot
<1>2. /\ work # <<>> /\ m_rootID' = m_rootID /\ m_rootID \in DOMAIN nodes /\ height \in Nat
      /\ TreeOK(nodes, m_rootID) /\ f.fn = "condenseTree"
  BY <1>1, InStep
<1>3. /\ list \in Seq(Nat) /\ height # 0 /\ Len(n.kids) = 1
      /\ child \in DOMAIN nodes /\ child # m_rootID /\ nodes[child].level = height - 1
      /\ DOMAIN nodes' = DOMAIN nodes \ {child} /\ nodes'[m_rootID] = nodes[child]
      /\ \A p \in DOMAIN nodes \ {m_rootID, child} : nodes'[p] = nodes[p]
      /\ \A p \in DOMAIN nodes \ {m_rootID} : nodes[p].level < height
      /\ Became(new)
  BY CollapseRootDoes
<1>4. /\ \A k \in DOMAIN new : /\ new[k].fn = "deleteNode" /\ new[k].page \in DOMAIN nodes
                               /\ new[k].page # m_rootID /\ nodes[new[k].page].level < height
      /\ \A k \in DOMAIN new \ {1} : nodes[new[k].page].level < nodes[new[1].page].level
                                     /\ 1 \in DOMAIN new
  BY <1>1, DisposalsLow
<1>5. OwnedOnce(nodes, m_rootID, f, Tail(work)) /\ OneOwner(nodes, m_rootID, work)
  BY <1>1, InStep, HeldByTop, OneOwnerEach DEF Sound, StackOK, TreeOK
<1>6. \A p \in DOMAIN nodes : nodes[p].level \in Nat
  BY <1>2, NodesTyped
<1>7. Children(n) = {child}
  <2>1. n.kids \in Seq(Entry)
    BY <1>2, NodesTyped
  <2> HIDE DEF height
  <2>2. KidIds(n.kids) = {child}
    <3>1. DOMAIN n.kids = {1}
      BY <1>3, <2>1
    <3>2. QED
      BY <3>1 DEF KidIds
  <2>3. QED
    BY <1>3, <2>2 DEF Children, height
<1> HIDE DEF child
<1>8. \A k \in DOMAIN new : new[k].page # child /\ \E i \in DOMAIN list : new[k].page = list[i]
  <2>1. child \notin HeldPages(f)
    BY <1>2, <1>5, <1>7 DEF OwnedOnce
  <2>2. \A i \in DOMAIN list : list[i] \in HeldPages(f)
    BY <1>2 DEF HeldPages
  <2>3. \A k \in DOMAIN new : \E i \in DOMAIN list : new[k].page = list[i]
    <3>1. list \in Seq(Nat)
      BY <1>3
    <3> HIDE DEF list
    <3>2. /\ DOMAIN new = 1 .. Len(list) /\ DOMAIN list = 1 .. Len(list)
          /\ \A k \in 1 .. Len(list) : /\ Len(list) + 1 - k \in 1 .. Len(list)
                                       /\ new[k].page = list[Len(list) + 1 - k]
      BY <3>1, DisposalsReversed
    <3> HIDE DEF new
    <3>3. QED
      BY <3>2
  <2>4. QED
    BY <2>1, <2>2, <2>3
<1>9. \A i \in DOMAIN list : \E k \in DOMAIN new : new[k].page = list[i]
  <2>0. list \in Seq(Nat)
    BY <1>3
  <2> HIDE DEF list
  <2>1. /\ DOMAIN new = 1 .. Len(list) /\ DOMAIN list = 1 .. Len(list) /\ Len(list) \in Nat
        /\ \A k \in 1 .. Len(list) : new[k].page = list[Len(list) + 1 - k]
    BY <2>0, DisposalsReversed
  <2> HIDE DEF new
  <2>2. \A i \in 1 .. Len(list) : Len(list) + 1 - i \in 1 .. Len(list)
                                  /\ Len(list) + 1 - (Len(list) + 1 - i) = i
    BY <2>1
  <2>3. QED
    BY <2>1, <2>2
<1>10. ASSUME NEW p \in DOMAIN nodes \ {m_rootID, child}, nodes[p].level = height - 1
       PROVE  1 \in DOMAIN new /\ p = new[1].page
  <2>1. \A q \in DOMAIN nodes : p \notin Children(nodes[q])
    <3>1. ASSUME NEW q \in DOMAIN nodes, p \in Children(nodes[q])
          PROVE  FALSE
      <4>1. nodes[q].level = height
        <5>1. FitsIn(nodes, nodes[q])
          BY <1>2, NodesTyped
        <5>2. nodes[p].level = nodes[q].level - 1
          BY <3>1, <5>1 DEF FitsIn, Children
        <5>3. nodes[q].level \in Nat
          BY <1>6
        <5> HIDE DEF height
        <5>4. QED
          BY <1>2, <1>10, <5>2, <5>3
      <4>2. q = m_rootID
        <5>1. q # m_rootID => nodes[q].level < height
          BY <1>3
        <5> HIDE DEF height
        <5>2. QED
          BY <1>2, <4>1, <5>1
      <4>3. QED
        BY <1>7, <3>1, <4>2
    <3>2. QED
      BY <3>1
  <2>2. Holds(work, p)
    BY <1>5, <2>1 DEF OneOwner
  <2>3. p \in HeldPages(f)
    <3>1. PICK k \in DOMAIN work : p \in HeldPages(work[k])
      BY <2>2 DEF Holds
    <3>2. k # 1 => work[k].fn = "return"
      BY <1>2, <3>1 DEF TreeInv, Sound, StackOK
    <3>3. QED
      BY <3>1, <3>2, NothingHeld
  <2>4. \E i \in DOMAIN list : p = list[i]
    BY <1>2, <2>3 DEF HeldPages
  <2>5. PICK k \in DOMAIN new : new[k].page = p
    BY <1>9, <2>4
  <2>6. k = 1
    <3> SUFFICES ASSUME k # 1 PROVE FALSE
      OBVIOUS
    <3>1. k \in DOMAIN new \ {1}
      OBVIOUS
    <3>2. nodes[new[k].page].level < nodes[new[1].page].level /\ 1 \in DOMAIN new
      BY <1>4, <3>1
    <3>3. nodes[new[1].page].level < height /\ nodes[new[1].page].level \in Nat
      BY <1>4, <1>6, <3>2
    <3>4. height - 1 < nodes[new[1].page].level
      BY <1>10, <2>5, <3>2
    <3> HIDE DEF height, new
    <3>5. QED
      BY <1>2, <3>3, <3>4
  <2>7. QED
    BY <2>5, <2>6
<1>11. Cardinality(DOMAIN nodes') = Cardinality(DOMAIN nodes) - 1 /\ Cardinality(DOMAIN nodes) >= 1
  <2>1. IsFiniteSet(DOMAIN nodes)
    BY <1>2 DEF TreeOK
  <2>2. Cardinality(DOMAIN nodes') = Cardinality(DOMAIN nodes) - 1
    BY <1>3, <2>1, FS_RemoveElement
  <2>3. Cardinality(DOMAIN nodes) # 0 /\ Cardinality(DOMAIN nodes) \in Nat
    BY <1>3, <2>1, FS_EmptySet, FS_CardinalityType
  <2>4. QED
    BY <2>2, <2>3
<1>12. nodes'[m_rootID].level = height - 1 /\ height \in Nat /\ height >= 1
  <2> HIDE DEF height, n
  <2>1. QED
    BY <1>2, <1>3
<1>13. ASSUME NEW l \in 0 .. height - 2
       PROVE  SizeAt(nodes', l) = SizeAt(nodes, l)
  <2>1. l # height /\ l # height - 1
    BY <1>12
  <2>2. AtLevel(nodes', l) = AtLevel(nodes, l)
    <3>1. m_rootID \notin AtLevel(nodes', l)
      BY <1>12, <2>1 DEF AtLevel
    <3>2. m_rootID \notin AtLevel(nodes, l) /\ child \notin AtLevel(nodes, l)
      BY <1>3, <2>1 DEF AtLevel
    <3> HIDE DEF height, n
    <3>3. QED
      BY <1>3, <3>1, <3>2 DEF AtLevel
  <2>3. QED
    BY <2>2 DEF SizeAt
<1> DEFINE sibling == new[1].page
<1>14. AtLevel(nodes', height - 1) \subseteq {m_rootID, sibling}
  <2>1. ASSUME NEW p \in AtLevel(nodes', height - 1), p # m_rootID
        PROVE  p = sibling
    <3>1. p \in DOMAIN nodes \ {m_rootID, child} /\ nodes[p].level = height - 1
      BY <1>3, <2>1 DEF AtLevel
    <3>2. QED
      BY <1>10, <3>1
  <2>2. QED
    BY <2>1
<1>15. ASSUME LostSibling(f)
       PROVE  AtLevel(nodes', height - 1) = {m_rootID, sibling} /\ sibling # m_rootID
  <2>1. PICK i \in DOMAIN list : nodes[list[i]].level = height - 1
    BY <1>15 DEF LostSibling
  <2>2. PICK k \in DOMAIN new : new[k].page = list[i]
    BY <1>9
  <2>3. new[k].page \in DOMAIN nodes \ {m_rootID, child}
    BY <1>4, <1>8
  <2>4. new[k].page = sibling
    BY <1>10, <2>1, <2>2, <2>3
  <2>5. sibling \in AtLevel(nodes', height - 1)
    BY <1>3, <2>1, <2>2, <2>3, <2>4 DEF AtLevel
  <2>6. m_rootID \in AtLevel(nodes', height - 1)
    BY <1>2, <1>3, <1>12 DEF AtLevel
  <2>7. QED
    BY <1>14, <2>3, <2>4, <2>5, <2>6
<1> HIDE DEF sibling
<1>16. /\ SizeAt(nodes', height - 1) \in Nat /\ SizeAt(nodes', height - 1) <= 2
       /\ LostSibling(f) => SizeAt(nodes', height - 1) = 2
  <2>1. IsFiniteSet({m_rootID}) /\ Cardinality({m_rootID}) = 1
    BY FS_Singleton
  <2>2. {m_rootID, sibling} = {m_rootID} \cup {sibling}
    OBVIOUS
  <2>3. /\ IsFiniteSet({m_rootID, sibling}) /\ Cardinality({m_rootID, sibling}) <= 2
        /\ sibling # m_rootID => Cardinality({m_rootID, sibling}) = 2
    BY <2>1, <2>2, FS_AddElement
  <2>4. /\ IsFiniteSet(AtLevel(nodes', height - 1))
        /\ Cardinality(AtLevel(nodes', height - 1)) <= Cardinality({m_rootID, sibling})
    BY <1>14, <2>3, FS_Subset
  <2>5. Cardinality(AtLevel(nodes', height - 1)) \in Nat /\ Cardinality({m_rootID, sibling}) \in Nat
    BY <2>3, <2>4, FS_CardinalityType
  <2> HIDE DEF height, f
  <2>6. QED
    BY <1>15, <2>3, <2>4, <2>5 DEF SizeAt
<1>17. WaitInv'
  <2>1. ASSUME NEW k \in DOMAIN new \ {1}
        PROVE  nodes'[new[k].page].level < nodes'[m_rootID'].level
    <3>1. /\ nodes[new[k].page].level < nodes[new[1].page].level /\ nodes[new[1].page].level < height
          /\ new[k].page \in DOMAIN nodes \ {m_rootID, child} /\ new[1].page \in DOMAIN nodes
      BY <1>4, <1>8
    <3>2. nodes'[new[k].page].level = nodes[new[k].page].level
      BY <1>3, <3>1
    <3>3. nodes[new[k].page].level \in Nat /\ nodes[new[1].page].level \in Nat
      BY <1>6, <3>1
    <3>4. nodes'[m_rootID'].level = height - 1
      BY <1>2, <1>12
    <3> HIDE DEF height, new
    <3>5. QED
      BY <1>2, <3>1, <3>2, <3>3, <3>4
  <2> HIDE DEF new
  <2>2. QED
    BY <1>2, <1>3, <2>1, WaitCondensing
<1>18. QED
  BY <1>2, <1>11, <1>12, <1>13, <1>16, <1>17, Zenon DEF height, n, f

LEMMA CountsOfCollapse ==
  ASSUME TreeInv, NEW exact \in BOOLEAN, CountInv(exact), CollapseRoot, exact => LostSibling(work[1])
  PROVE  CountInv(exact)' /\ WaitInv'
<1> DEFINE height == nodes[m_rootID].level
           counts == m_stats.nodesInLevel
           front == Front(counts)
           less == [front EXCEPT ![height] = 2]
<1>1. /\ m_rootID' = m_rootID /\ height \in Nat /\ height >= 1
      /\ Cardinality(DOMAIN nodes') = Cardinality(DOMAIN nodes) - 1
      /\ Cardinality(DOMAIN nodes) >= 1
      /\ nodes'[m_rootID].level = height - 1
      /\ \A l \in 0 .. height - 2 : SizeAt(nodes', l) = SizeAt(nodes, l)
      /\ SizeAt(nodes', height - 1) \in Nat /\ SizeAt(nodes', height - 1) <= 2
      /\ LostSibling(work[1]) => SizeAt(nodes', height - 1) = 2
      /\ WaitInv'
  BY LevelsOfCollapse
<1>2. /\ m_stats \in Stats /\ counts \in Seq(Nat) /\ height \in Nat
      /\ m_stats.u32Nodes = Cardinality(DOMAIN nodes) /\ Cardinality(DOMAIN nodes) \in Nat
      /\ m_stats.u32TreeHeight = height + 1 /\ Len(counts) = height + 1
      /\ \A l \in 0 .. height : counts[l + 1] \in Nat /\ Tallies(counts[l + 1], SizeAt(nodes, l), exact)
  BY NodesInLevels
<1>3. m_stats' = [m_stats EXCEPT !.u32Nodes = m_stats.u32Nodes - 1, !.u32TreeHeight = height,
                                 !.nodesInLevel = less]
  <2>1. m_stats' = [m_stats EXCEPT !.u32Nodes = @ - 1, !.u32TreeHeight = m_stats.u32TreeHeight - 1,
                                   !.nodesInLevel = Shortened(@, m_stats.u32TreeHeight - 1)]
    BY Zenon DEF CollapseRoot
  <2>2. m_stats.u32TreeHeight - 1 = height
    BY <1>2
  <2>3. m_stats' = [m_stats EXCEPT !.u32Nodes = @ - 1, !.u32TreeHeight = height,
                                   !.nodesInLevel = Shortened(@, height)]
    BY <2>1, <2>2, Zenon
  <2> HIDE DEF height
  <2>4. QED
    BY <2>3 DEF Shortened
<1> HIDE DEF height, counts
<1>4. front \in Seq(Nat) /\ Len(front) = height /\ \A j \in 1 .. height : front[j] = counts[j]
  <2>1. counts \in Seq(Nat) /\ Len(counts) = height + 1 /\ height \in Nat
    BY <1>2
  <2>2. Len(counts) - 1 = height /\ front = SubSeq(counts, 1, height)
    BY <2>1 DEF Front
  <2> HIDE DEF front
  <2>3. QED
    BY <2>1, <2>2
<1> HIDE DEF front
<1>5. /\ less \in Seq(Nat) /\ Len(less) = height /\ less[height] = 2
      /\ \A j \in 1 .. height - 1 : less[j] = counts[j]
  <2>1. height \in DOMAIN front /\ DOMAIN front = 1 .. height
    BY <1>1, <1>4
  <2>2. /\ less \in Seq(Nat) /\ Len(less) = Len(front) /\ less[height] = 2
        /\ \A j \in DOMAIN front : j # height => less[j] = front[j]
    BY <1>4, <2>1, CountsWith
  <2> HIDE DEF less
  <2>3. ASSUME NEW j \in 1 .. height - 1 PROVE less[j] = counts[j]
    <3>1. j \in 1 .. height /\ j # height
      BY <1>2
    <3>2. QED
      BY <1>4, <2>1, <2>2, <3>1
  <2>4. QED
    BY <1>4, <2>2, <2>3
<1> HIDE DEF less
<1>6. /\ m_stats' \in Stats /\ m_stats'.u32Nodes = m_stats.u32Nodes - 1
      /\ m_stats'.u32TreeHeight = height /\ m_stats'.nodesInLevel = less
  <2>1. m_stats.u32Nodes - 1 \in Nat
    BY <1>1, <1>2
  <2>2. m_stats' = With(m_stats, m_stats.u32Nodes - 1, height, less)
    BY <1>3 DEF With
  <2>3. height \in Nat /\ less \in Seq(Nat) /\ m_stats \in Stats
    BY <1>2, <1>5
  <2>4. QED
    BY <2>1, <2>2, <2>3 DEF With, Stats
<1>7. ASSUME NEW l \in 0 .. height - 1
      PROVE  Tallies(less[l + 1], SizeAt(nodes', l), exact)
  <2>1. CASE l = height - 1
    <3>0. l + 1 = height
      BY <1>1, <2>1
    <3>1. less[l + 1] = 2
      BY <1>5, <3>0, Zenon
    <3>2. SizeAt(nodes', l) \in Nat /\ SizeAt(nodes', l) <= 2 /\ (exact => SizeAt(nodes', l) = 2)
      BY <1>1, <2>1, Zenon
    <3> DEFINE size == SizeAt(nodes', l)
               count == less[l + 1]
    <3>3. count = 2 /\ size \in Nat /\ size <= 2 /\ (exact => size = 2)
      BY <3>1, <3>2
    <3> HIDE DEF size, count
    <3>4. Tallies(count, size, exact)
      BY <3>3 DEF Tallies
    <3>5. QED
      BY <3>4 DEF size, count
  <2>2. CASE l \in 0 .. height - 2
    <3>1. l + 1 \in 1 .. height - 1 /\ l \in 0 .. height
      BY <1>1, <2>2
    <3>2. less[l + 1] = counts[l + 1]
      BY <1>5, <3>1, Zenon
    <3>3. SizeAt(nodes', l) = SizeAt(nodes, l)
      BY <1>1, <2>2, Zenon
    <3>4. Tallies(counts[l + 1], SizeAt(nodes, l), exact)
      BY <1>2, <3>1, Zenon
    <3>5. QED
      BY <3>2, <3>3, <3>4, Zenon
  <2>3. QED
    BY <1>1, <2>1, <2>2
<1>8. Counted(nodes', height - 1, m_stats', exact)
  <2>1. m_stats'.u32Nodes = Cardinality(DOMAIN nodes') /\ height = (height - 1) + 1
    BY <1>1, <1>2, <1>6
  <2>2. QED
    BY <1>5, <1>6, <1>7, <2>1 DEF Counted
<1>9. CountInv(exact)'
  BY <1>1, <1>6, <1>8 DEF CountInv
<1>10. QED
  BY <1>1, <1>9

\* Returning counts objects only.
LEMMA CountsReturning ==
  ASSUME TreeInv, DataInv, DataInv', NEW exact \in BOOLEAN, CountInv(exact), WaitInv, Finish
  PROVE  CountInv(exact)' /\ WaitInv'
<1>1. Step("return") /\ m_stats' = [m_stats EXCEPT !.u64Data = @ + work[1].delta]
  BY Zenon DEF Finish
<1>2. work # <<>> /\ m_rootID' = m_rootID /\ m_rootID \in DOMAIN nodes
  BY <1>1, InStep
<1>3. nodes' = nodes /\ Became(<<>>)
  BY FinishDoes
<1>4. LevelsStay /\ MovesOn
  BY <1>2, <1>3, NoCall DEF LevelsStay
<1>5. m_stats \in Stats /\ m_stats'.u64Data \in Nat
  BY DEF CountInv, DataInv
<1>6. /\ m_stats' \in Stats /\ m_stats'.u32Nodes = m_stats.u32Nodes
      /\ m_stats'.u32TreeHeight = m_stats.u32TreeHeight /\ m_stats'.nodesInLevel = m_stats.nodesInLevel
  <2>1. PICK d : d = m_stats.u64Data + work[1].delta
    OBVIOUS
  <2>2. m_stats' = [m_stats EXCEPT !.u64Data = d]
    BY <1>1, <2>1
  <2>3. QED
    BY <1>5, <2>2 DEF Stats
<1>7. CountInv(exact)'
  BY <1>2, <1>3, <1>6 DEF CountInv, Counted
<1>8. QED
  BY <1>2, <1>4, <1>7, WaitStays

\* A call begins: nothing waits but its return.
LEMMA CountsBeginning ==
  ASSUME TreeInv, ClientOK, NEW exact \in BOOLEAN, CountInv(exact), WaitInv, Call
  PROVE  CountInv(exact)' /\ WaitInv'
<1>1. m_rootID \in DOMAIN nodes
  BY DEF TreeInv, Sound, TreeOK
<1>2. CASE InsertData
  <2> DEFINE f == ChooseFrame(m_rootID, todo[1], 0, <<>>)
             g == Return(1)
             new == <<f, g>>
  <2>1. m_rootID' = m_rootID /\ nodes' = nodes /\ work' = new
    BY <1>2, InsertDataDoes DEF ClientOK
  <2>2. m_stats' = m_stats
    BY <1>2, Zenon DEF InsertData
  <2>3. LevelsStay
    BY <2>1 DEF LevelsStay
  <2>4. g.fn # "deleteNode" /\ DOMAIN new = {1, 2} /\ new[2] = g
    BY DEF Return
  <2> HIDE DEF new, f, g
  <2>5. WaitInv'
    BY <2>1, <2>4 DEF WaitInv, LowWaits
  <2>6. QED
    BY <2>2, <2>3, <2>5, CountsStay
<1>3. CASE \E o \in Object : DeleteData(o)
  <2>1. PICK o \in Object : DeleteData(o)
    BY <1>3
  <2>2. \E path \in Path, page \in DOMAIN nodes : \E child \in DOMAIN nodes[page].kids :
             /\ m_rootID' = m_rootID /\ nodes[page] \in Nodes
             /\ OnlyAt(page, DeleteEntry(nodes[page], child), nodes, nodes')
             /\ work' = <<CondenseFrame(page, path, <<>>), Return(-1)>>
    BY <2>1, DeleteDataDoes
  <2>3. PICK path \in Path, page \in DOMAIN nodes : \E child \in DOMAIN nodes[page].kids :
             /\ m_rootID' = m_rootID /\ nodes[page] \in Nodes
             /\ OnlyAt(page, DeleteEntry(nodes[page], child), nodes, nodes')
             /\ work' = <<CondenseFrame(page, path, <<>>), Return(-1)>>
    BY <2>2
  <2>4. PICK child \in DOMAIN nodes[page].kids :
             /\ m_rootID' = m_rootID /\ nodes[page] \in Nodes
             /\ OnlyAt(page, DeleteEntry(nodes[page], child), nodes, nodes')
             /\ work' = <<CondenseFrame(page, path, <<>>), Return(-1)>>
    BY <2>3
  <2> DEFINE leaf == nodes[page]
             m == DeleteEntry(leaf, child)
             f == CondenseFrame(page, path, <<>>)
             g == Return(-1)
             new == <<f, g>>
  <2>5. m.level = leaf.level
    <3>1. leaf \in Nodes
      BY <2>4
    <3> HIDE DEF leaf
    <3>2. QED
      BY <3>1 DEF DeleteEntry, Nodes
  <2>6. m_stats' = m_stats
    BY <2>1, Zenon DEF DeleteData
  <2>7. g.fn # "deleteNode" /\ DOMAIN new = {1, 2} /\ new[2] = g
    BY DEF Return
  <2>8. work' = new
    BY <2>4
  <2> HIDE DEF m, f, g, new
  <2>9. LevelsStay
    BY <2>4, <2>5, OnlyAtStays DEF m
  <2>10. WaitInv'
    BY <2>7, <2>8 DEF WaitInv, LowWaits
  <2>11. QED
    BY <2>6, <2>9, <2>10, CountsStay
<1>4. CASE \E o \in Object : DeleteNothing(o)
  <2>1. m_rootID' = m_rootID /\ nodes' = nodes /\ m_stats' = m_stats /\ work' = work
    BY <1>4, Zenon DEF DeleteNothing
  <2>2. LevelsStay
    BY <2>1 DEF LevelsStay
  <2>3. WaitInv'
    BY <2>1 DEF WaitInv, LowWaits
  <2>4. QED
    BY <2>1, <2>2, <2>3, CountsStay
<1>5. QED
  BY <1>2, <1>3, <1>4 DEF Call


LEMMA CountStep ==
  ASSUME ReinsertsSome, CallInv, NEW exact \in BOOLEAN, CountInv(exact), WaitInv, [Next]_vars,
         CollapseRoot /\ exact => LostSibling(work[1])
  PROVE  CountInv(exact)' /\ WaitInv'
<1>1. TreeInv /\ ClientOK /\ DataInv /\ DataInv'
  BY CallStep DEF CallInv
<1>2. CASE Reinsert \/ Descend \/ Arrive \/ AdjustTreeAfterSplit
  <2>1. m_stats' = m_stats
    BY <1>2, Zenon DEF Reinsert, Descend, Arrive, AdjustTreeAfterSplit
  <2>2. LevelsStay /\ MovesOn /\ work # <<>>
    BY <1>1, <1>2, GoingDownMoves
  <2>3. QED
    BY <1>1, <2>1, <2>2, CountsStay, WaitStays
<1>3. CASE InsertFits \/ ForcedReinsert \/ AdjustTree
  <2>1. m_stats' = m_stats
    BY <1>3, Zenon DEF InsertFits, ForcedReinsert, AdjustTree
  <2>2. LevelsStay /\ MovesOn /\ work # <<>>
    BY <1>1, <1>3, WritingMoves
  <2>3. QED
    BY <1>1, <2>1, <2>2, CountsStay, WaitStays
<1>4. CASE CondenseTree \/ CondenseRoot
  <2>1. m_stats' = m_stats
    BY <1>4, Zenon DEF CondenseTree, CondenseRoot
  <2>2. LevelsStay /\ WaitInv'
    BY <1>1, <1>4, CondensingLevels, CondensedRootLevels
  <2>3. QED
    BY <1>1, <2>1, <2>2, CountsStay
<1>5. CASE SplitRoot
  BY <1>1, <1>5, CountsOfSplitRoot
<1>6. CASE SplitNode
  BY <1>1, <1>6, CountsOfSplits
<1>7. CASE CollapseRoot
  BY <1>1, <1>7, CountsOfCollapse
<1>8. CASE DeleteNode
  BY <1>1, <1>8, CountsOfDeleteNode
<1>9. CASE Finish
  BY <1>1, <1>9, CountsReturning
<1>10. CASE Call
  BY <1>1, <1>10, CountsBeginning
<1>11. CASE UNCHANGED vars
  <2>1. /\ m_rootID' = m_rootID /\ nodes' = nodes /\ m_stats' = m_stats /\ work' = work
    BY <1>11 DEF vars
  <2>2. LevelsStay
    BY <2>1 DEF LevelsStay
  <2>3. WaitInv'
    BY <2>1 DEF WaitInv, LowWaits
  <2>4. QED
    BY <1>1, <2>1, <2>2, <2>3, CountsStay
<1>12. QED
  BY <1>2, <1>3, <1>4, <1>5, <1>6, <1>7, <1>8, <1>9, <1>10, <1>11, Zenon DEF Next, Execute

LEMMA CountsAtFirst ==
  ASSUME Init, NEW exact \in BOOLEAN
  PROVE  CountInv(exact) /\ WaitInv
<1> DEFINE page == Node(0, <<>>)
           none == <<>>
           ones == <<1>>
<1>1. /\ nodes = [p \in {m_rootID} |-> page] /\ work = none
      /\ m_stats = [u32Nodes |-> 1, u64Data |-> 0, u32TreeHeight |-> 1, nodesInLevel |-> ones]
  BY Zenon DEF Init
<1>2. page.level = 0
  BY DEF Node
<1>3. ones \in Seq(Nat) /\ Len(ones) = 1 /\ ones[1] = 1
  OBVIOUS
<1> HIDE DEF page, ones
<1>4. DOMAIN nodes = {m_rootID} /\ nodes[m_rootID].level = 0
  BY <1>1, <1>2
<1>5. AtLevel(nodes, 0) = {m_rootID}
  BY <1>4 DEF AtLevel
<1>6. Cardinality(DOMAIN nodes) = 1 /\ SizeAt(nodes, 0) = 1
  BY <1>4, <1>5, FS_Singleton DEF SizeAt
<1>7. m_stats \in Stats
  BY <1>1, <1>3 DEF Stats
<1>8. /\ m_stats.u32Nodes = 1 /\ m_stats.u32TreeHeight = 0 + 1 /\ Len(m_stats.nodesInLevel) = 0 + 1
      /\ m_stats.nodesInLevel[1] = 1
  BY <1>1, <1>3
<1>9. Tallies(1, 1, exact)
  BY DEF Tallies
<1>10. Counted(nodes, 0, m_stats, exact)
  <2>1. ASSUME NEW l \in 0 .. 0
        PROVE  Tallies(m_stats.nodesInLevel[l + 1], SizeAt(nodes, l), exact)
    <3>1. l = 0 /\ l + 1 = 1
      OBVIOUS
    <3>2. QED
      BY <1>6, <1>8, <1>9, <3>1
  <2>2. QED
    BY <1>6, <1>8, <2>1 DEF Counted
<1>11. WaitInv
  BY <1>1 DEF WaitInv, LowWaits
<1>12. QED
  BY <1>4, <1>7, <1>10, <1>11 DEF CountInv

(***************************************************************************)
(* At every step of every call the pages form a tree: every page and every *)
(* counter is of its type (no count goes below zero, whatever a            *)
(* condensation deletes), no page is orphaned, shared or overfull.         *)
(***************************************************************************)
THEOREM TreeStaysWellFormed ==
  ASSUME ReinsertsSome
  PROVE  Spec => []TreeWellFormed
<1> DEFINE no == FALSE
<1>1. no \in BOOLEAN /\ ~no
  OBVIOUS
<1> HIDE DEF no
<1>2. Init => CountInv(no) /\ WaitInv
  BY <1>1, CountsAtFirst
<1>3. CallInv /\ CountInv(no) /\ WaitInv /\ [Next]_vars => (CountInv(no) /\ WaitInv)'
  <2> SUFFICES ASSUME CallInv, CountInv(no), WaitInv, [Next]_vars PROVE CountInv(no)' /\ WaitInv'
    OBVIOUS
  <2>1. QED
    BY <1>1, CountStep
<1>4. CallInv /\ CountInv(no) => TypeOK
  <2> SUFFICES ASSUME CallInv, CountInv(no) PROVE TypeOK
    OBVIOUS
  <2>1. TreeOK(nodes, m_rootID) /\ m_rootID \in DOMAIN nodes /\ StackOK(nodes, m_rootID, work)
    BY DEF CallInv, TreeInv, Sound, TreeOK
  <2>2. \A p \in DOMAIN nodes : p \in Nat /\ nodes[p] \in Nodes
    BY <2>1, NodesTyped DEF FitsIn
  <2>3. m_stats \in [u32Nodes : Nat, u64Data : Nat, u32TreeHeight : Nat, nodesInLevel : Seq(Nat)]
    BY DEF CountInv, Stats
  <2>4. \A k \in DOMAIN work : work[k] \in Frame
    BY <2>1 DEF StackOK
  <2>5. \A k \in DOMAIN work :
          work[k].fn \in {"insertData_impl", "chooseSubtree", "insertData", "adjustTree",
                          "adjustTree2", "condenseTree", "deleteNode", "return"}
    <3>1. ASSUME NEW f \in Frame
          PROVE  f.fn \in {"insertData_impl", "chooseSubtree", "insertData", "adjustTree",
                           "adjustTree2", "condenseTree", "deleteNode", "return"}
      BY DEF Frame, ImplFrames, ChooseFrames, InsertFrames, AdjustFrames, Adjust2Frames, CondenseFrames,
             DeleteFrames, ReturnFrames
    <3>2. QED
      BY <2>4, <3>1, Zenon
  <2>6. answer \in {<<"none">>} \cup {"inserted", "deleted", "not found"} \X Object
    BY Zenon DEF CallInv, ClientOK, Answers
  <2>7. \A p \in DOMAIN nodes :
          nodes[p] \in [level : Nat, mbr : [low : [Dim -> Int], high : [Dim -> Int]], kids : Seq(Entry)]
    BY <2>2, Zenon DEF Nodes, Regions
  <2>8. DOMAIN nodes \subseteq Nat
    BY <2>2
  <2>9. QED
    BY <2>1, <2>3, <2>5, <2>6, <2>7, <2>8 DEF TypeOK
<1>5. TypeOK /\ EveryPageHasOneParent /\ NodesWithinCapacity => TreeWellFormed
  BY DEF TreeWellFormed
<1>6. QED
  BY <1>2, <1>3, <1>4, <1>5, CallsKeepCount, PagesHaveOneParent, PTL DEF Spec

==============================================================================
