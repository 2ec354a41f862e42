-------------------------- MODULE MCEvictionsBuffer --------------------------
(* Four identifiers over a buffer of two entries, and two contents: every    *)
(* call may have to evict, and the victim may be clean or dirty.             *)
EXTENDS EvictionsBuffer
CONSTANTS e1, e2
MCEntity == {e1, e2}
==============================================================================
