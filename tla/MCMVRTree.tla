----------------------------- MODULE MCMVRTree -----------------------------
(* Clients of the multi-version tree: one that fills it, one that empties it *)
(* again, one whose objects move (a deletion and an insertion with the same  *)
(* identifier), one that does everything at once.                            *)
EXTENDS MVRTree
LOCAL INSTANCE SequencesExt

\* Where object number i is: strewn over a square, no two with a side in line;
\* those of a hundred and more are large.
Place(i) ==
  LET x == 7 * ((i * 37) % 101)
      y == 7 * ((i * 59) % 97)
      unit == IF i < 100 THEN 8 ELSE 50
  IN  [low |-> <<x, y>>, high |-> <<x + unit * (1 + (i % 7)), y + unit * (1 + ((i * 3) % 7))>>]

Insert(i, t) == [op |-> "insert", id |-> i, mbr |-> Place(i), at |-> t]
Delete_(i, t) == [op |-> "delete", id |-> i, mbr |-> Place(i), at |-> t]

\* Objects that move, first from their own places.
Move(i, from, to, t) == <<[op |-> "delete", id |-> i, mbr |-> Place(from), at |-> t],
                         [op |-> "insert", id |-> i, mbr |-> Place(to), at |-> t]>>

Moves(n, first, offset, t, pace) ==
  FlattenSeq([k \in 1 .. n |-> Move(first + k - 1, first + k - 1, offset + first + k - 1, t + k \div pace)])

Fill(first, n, t, pace) == [k \in 1 .. n |-> Insert(first + k - 1, t + k \div pace)]

Empty(first, n, stride, m, t, pace) ==
  [k \in 1 .. n |-> Delete_(first + ((k * stride) % m), t + k \div pace)]

\* Clients that come and go at one instant, so that the root leaf has no entry
\* left, and return later: in number over two instants, or all at once.
Passes(i, t) == <<Insert(i, t), Delete_(i, t)>>

Refills ==
  {[calls |-> Passes(1, 0) \o Fill(2, 12, 10, 10), deletes |-> 1],
   [calls |-> Passes(1, 0) \o Fill(2, 11, 10, 100), deletes |-> 1],
   [calls |-> Fill(1, 5, 0, 100) \o Empty(1, 5, 1, 5, 1, 100) \o Passes(6, 2) \o Fill(7, 12, 10, 10),
    deletes |-> 0]}

Scripts ==
  {[calls |-> Fill(1, 60, 0, 100), deletes |-> 1]}
  \cup {[calls |-> Fill(1, 50, 0, 10) \o Moves(44, 1, 50, 6, 8), deletes |-> 1]}
  \cup {[calls |-> Fill(s, 23, 0, 3) \o Empty(s, 22, 7, 23, 8, 3), deletes |-> 1] : s \in {1, 100}}
  \cup {[calls |-> Fill(s, 30, 0, 3) \o Empty(s, 14, 7, 30, 11, 3), deletes |-> 2] : s \in {30, 140}}
  \cup {[calls |-> Fill(1, 12, 1, 100) \o Empty(1, 12, 1, 12, 1, 100), deletes |-> 0]}
  \cup Refills

Questions == {[low |-> <<0, 0>>, high |-> <<1200, 1200>>], [low |-> <<170, 100>>, high |-> <<400, 450>>]}

TwoFifths == <<2, 5>>
Half == <<1, 2>>
ThreeTenths == <<3, 10>>
FourFifths == <<4, 5>>
=============================================================================
