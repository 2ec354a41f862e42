----------------------------- MODULE MCTPRTree -----------------------------
(* Cars on a small map, some standing, some driving: with few directions,    *)
(* so that sides overtake each other within the horizon.                     *)
EXTENDS TPRTree

Car(x, y, w, h, vx, vy) ==
  [low |-> <<x, y>>, high |-> <<x + w, y + h>>, vlow |-> <<vx, vy>>, vhigh |-> <<vx, vy>>]

\* Something whose sides part.
Spill(x, y, w, h) ==
  [low |-> <<x, y>>, high |-> <<x + w, y + h>>, vlow |-> <<-1, 0>>, vhigh |-> <<0, 1>>]

Cars == <<Car(2, 30, 3, 1, 1, 0), Car(19, 3, 1, 2, 0, 1), Car(33, 28, 2, 4, -1, 0),
          Car(10, 14, 4, 2, 0, 0), Spill(26, 17, 1, 1), Car(1, 5, 2, 1, 1, 1),
          Car(37, 8, 1, 3, -1, 1), Car(14, 35, 2, 1, 0, -1), Car(6, 21, 1, 1, 0, 0),
          Car(29, 12, 3, 2, -1, -1), Car(17, 25, 1, 3, 1, 0), Spill(22, 33, 2, 1),
          Car(12, 9, 1, 2, 0, 1), Car(34, 1, 2, 2, -1, 0), Car(4, 16, 1, 1, 1, -1),
          Car(24, 22, 2, 1, 0, 0)>>

\* A tall tree and one deletion, or a small tree that shrinks again.
Scripts == {[inserts |-> [k \in 1 .. 16 |-> k], deletes |-> 1],
            [inserts |-> <<3, 9, 5, 14, 7>>, deletes |-> 2]}

Asked(x, y, w, vx, start, end) ==
  [low |-> <<x, y>>, high |-> <<x + w, y + w>>, vlow |-> <<vx, 0>>, vhigh |-> <<vx, 0>>,
   start |-> start, end |-> end]

Questions == {Asked(10, 12, 4, 0, 2, 4), Asked(0, 26, 5, 1, 1, 3), Asked(25, 14, 6, -1, 2, 5),
              Asked(3, 0, 30, 0, 0, 3), Asked(16, 20, 1, 1, 3, 5), Asked(0, 9, 3, 0, 2, 5)}

TwoFifths == <<2, 5>>
Half == <<1, 2>>
=============================================================================
