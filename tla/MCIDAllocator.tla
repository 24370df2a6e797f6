--------------------------- MODULE MCIDAllocator ---------------------------
(***************************************************************************)
(* Small instances of IDAllocator: a few words of a few bits.              *)
(***************************************************************************)
EXTENDS IDAllocator
=============================================================================
