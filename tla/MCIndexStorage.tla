---------------------------- MODULE MCIndexStorage ----------------------------
(* A header, two node pages and a buffer too small for all three: one that    *)
(* writes back, over which a tree overwrites what it was given, or one that   *)
(* writes through, over which it may try to overwrite anything.               *)
EXTENDS IndexStorage
CONSTANTS e1, e2
VARIABLE through  \* which of the two

MCEntity == {e1, e2}

Through == INSTANCE IndexStorage WITH WriteThrough <- TRUE, AnyIdentifier <- TRUE

MCInit == IndexInit /\ through \in BOOLEAN

MCNext ==
  \/ ~through /\ IndexNext /\ UNCHANGED through
  \/ through /\ Through!IndexNext /\ UNCHANGED through

MCSpec == MCInit /\ [][MCNext]_<<indexVars, through>>

(***************************************************************************)
(* A buffer that writes through holds nothing that its storage manager has *)
(* not, after evictions, refused overwrites and crashes.                   *)
(***************************************************************************)
ThroughHoldsNothingBack == through => Through!WriteThroughHoldsNothingBack
==============================================================================
