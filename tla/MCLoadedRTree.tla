--------------------------- MODULE MCLoadedRTree ---------------------------
(* Objects along a diagonal, some of them overlapping and one given twice;    *)
(* either all are inserted or the first ones are loaded: as many as leave a   *)
(* last node or a last slab short, and as many as fill slabs exactly.         *)
EXTENDS LoadedRTree

Box(i, x1, y1, x2, y2) == [id |-> i, mbr |-> [low |-> <<x1, y1>>, high |-> <<x2, y2>>]]

Objects == [k \in 1 .. 15 |->
              Box(20 + k, (37 * k) % 90, (23 * k) % 70,
                  ((37 * k) % 90) + (IF k % 2 = 0 THEN 25 ELSE 4),
                  ((23 * k) % 70) + (IF k % 3 = 0 THEN 30 ELSE 5))]

MCOrders == {SubSeq(Objects, 1, 9) \o <<Objects[4]>> \o SubSeq(Objects, 10, 15)}
MCObject == {Objects[k] : k \in DOMAIN Objects}

Half == <<1, 2>>
TwoFifths == <<2, 5>>
ThreeTenths == <<3, 10>>

Square(x, y, w) == [low |-> <<x, y>>, high |-> <<x + w, y + w>>]

Query(kind, region, k) == [kind |-> kind, region |-> region, k |-> k]

MCQueries ==
  {Query("intersectsWithQuery", r, 0) : r \in {Square(29, 25, 9), Square(41, 43, 0)}}
    \cup {Query("containsWhatQuery", r, 0) : r \in {Square(10, 10, 60)}}
    \cup {Query("internalNodesQuery", r, 0) : r \in {Square(10, 10, 60)}}
    \cup {Query("nearestNeighborQuery", r, k) : r \in {Square(57, 24, 0)}, k \in {1, 3}}
    \cup {Query("selfJoinQuery", r, 0) : r \in {Square(20, 20, 30)}}
=============================================================================
