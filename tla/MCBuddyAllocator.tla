-------------------------- MODULE MCBuddyAllocator --------------------------
(***************************************************************************)
(* Five blocks: one range of the largest order, and one block whose buddy  *)
(* lies beyond the end of the pool.  Bytes of the bitmap have two bits.    *)
(***************************************************************************)
EXTENDS BuddyAllocator
=============================================================================
