---------------------------- MODULE MCDiskStorage ----------------------------
(* A .dat file of a few pages of two bytes; entities of exactly a page and of *)
(* a byte more, so that stores grow and shrink and end on a page boundary.    *)
EXTENDS DiskStorage
CONSTANTS v1, v2
MCVal == {v1, v2}
==============================================================================
