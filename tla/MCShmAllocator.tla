--------------------------- MODULE MCShmAllocator ---------------------------
(***************************************************************************)
(* ShmAllocator for TLC: a region of a few blocks, with sizes that make    *)
(* exact fits, splits, refused splits and every kind of merge happen.      *)
(***************************************************************************)
EXTENDS ShmAllocator
=============================================================================
