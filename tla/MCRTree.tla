------------------------------ MODULE MCRTree ------------------------------
(* Objects of a 2-dimensional grid and the orders in which they are          *)
(* inserted: scattered, along a diagonal, with an object inserted twice.     *)
(* A stranger, which is never inserted, shares its identifier with another   *)
(* object and lies where the objects are.                                    *)
EXTENDS RTree

Box(i, x1, y1, x2, y2) == [id |-> i, mbr |-> [low |-> <<x1, y1>>, high |-> <<x2, y2>>]]

Scatter == <<Box(1, 10, 70, 12, 75), Box(2, 40, 20, 45, 22), Box(3, 80, 50, 83, 56),
             Box(4, 15, 10, 19, 13), Box(5, 60, 90, 64, 91), Box(6, 30, 60, 37, 63),
             Box(7, 70, 30, 72, 38), Box(8, 50, 45, 53, 49), Box(9, 22, 80, 27, 86),
             Box(10, 86, 14, 90, 17), Box(11, 5, 40, 8, 42), Box(12, 66, 65, 69, 69),
             Box(13, 33, 33, 36, 35), Box(14, 76, 76, 79, 79), Box(15, 90, 3, 93, 97),
             Box(16, 47, 80, 51, 83), Box(17, 2, 2, 6, 7), Box(18, 88, 88, 95, 90)>>

\* Small and large in turn, overlapping.
Diagonal == [k \in 1 .. 18 |->
               Box(20 + k, 10 * k, 7 * k + 1, 10 * k + (IF k % 2 = 0 THEN 25 ELSE 4),
                   7 * k + (IF k % 3 = 0 THEN 30 ELSE 5))]

Twice == SubSeq(Diagonal, 1, 10) \o <<Diagonal[5]>> \o SubSeq(Diagonal, 11, 16)

\* Four near each other and four far out, each of which a split leaves alone.
Cross == <<Box(1, 0, 0, 1, 1), Box(2, 3, 0, 4, 1), Box(3, 0, 3, 1, 4), Box(4, 3, 3, 4, 4),
           Box(5, 100, 0, 101, 4), Box(6, 0, 100, 4, 101), Box(7, -100, 0, -99, 4),
           Box(8, 0, -100, 4, -99)>>

Stranger == Box(1, 12, 71, 40, 74)

Members(s) == {s[k] : k \in DOMAIN s}

TwiceOrder      == {Twice}
TwiceObjects    == Members(Twice) \cup {Stranger}
GridOrders      == {Scatter, Diagonal}
GridObjects     == Members(Scatter) \cup Members(Diagonal) \cup {Stranger}

CrossOrders     == {Cross}
CrossObjects    == Members(Cross)

\* The same, with one more to come back.
ReturnOrders    == {Cross \o <<Cross[1]>>}

ThreeTenths == <<3, 10>>
TwoFifths == <<2, 5>>
Half == <<1, 2>>
SevenTenths == <<7, 10>>
=============================================================================
