---------------------------- MODULE MC_MmapTable ----------------------------
(***************************************************************************)
(* MmapTable with two buckets and three view addresses: one more live     *)
(* mapping than buckets, and room for the OS to hand out the address of a *)
(* view that was unmapped, so a stale .rval of a free bucket can equal a  *)
(* live pointer.  Offsets 0..2 with a granularity of 2 give pointers at   *)
(* the view base and inside it.                                           *)
(***************************************************************************)
EXTENDS MmapTable

CONSTANTS v1, v2, v3

MC_Views == {v1, v2, v3}
MC_Offsets == 0..2

=============================================================================
