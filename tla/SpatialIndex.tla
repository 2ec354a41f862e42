---------------------------- MODULE SpatialIndex ----------------------------
(***************************************************************************)
(* What ISpatialIndex promises of insertData and deleteData: the index     *)
(* holds a bag of objects, an object being an identifier and a region.     *)
(* Nothing forbids inserting an object twice; deleteData removes one copy  *)
(* and answers whether there was one.  A new index may be filled from a    *)
(* stream of objects before anything else happens to it.                   *)
(***************************************************************************)
EXTENDS Naturals

CONSTANTS
  Object,      \* what clients may insert
  MaxCopies    \* bound on the copies of one object (the code has none)

VARIABLES
  held,     \* how many copies of each object the index holds
  answer    \* the last call: its object and what became of it

vars == <<held, answer>>

NoAnswer    == <<"none">>
Inserted(o) == <<"inserted", o>>
Deleted(o)  == <<"deleted", o>>
NotFound(o) == <<"not found", o>>
Loaded      == <<"loaded">>

Init ==
  /\ held = [o \in Object |-> 0]
  /\ answer = NoAnswer

InsertData(o) ==
  /\ answer' = Inserted(o)
  /\ held[o] < MaxCopies
  /\ held' = [held EXCEPT ![o] = @ + 1]

DeleteData(o) ==
  /\ answer' = Deleted(o)
  /\ held[o] > 0
  /\ held' = [held EXCEPT ![o] = @ - 1]

DeleteNothing(o) ==
  /\ answer' = NotFound(o)
  /\ held[o] = 0
  /\ UNCHANGED held

BulkLoad ==
  /\ answer = NoAnswer
  /\ answer' = Loaded
  /\ held' \in [Object -> 0 .. MaxCopies]

Next == BulkLoad \/ \E o \in Object : InsertData(o) \/ DeleteData(o) \/ DeleteNothing(o)

Spec == Init /\ [][Next]_vars

=============================================================================
