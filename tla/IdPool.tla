------------------------------- MODULE IdPool -------------------------------
(***************************************************************************)
(* What the id allocators of VMsvga2Accel promise their callers, without   *)
(* words, bits or a search index: the smallest managed id that nobody      *)
(* holds; when all are held, a fresh id that is never reused, or none.     *)
(*                                                                         *)
(* IDAllocator implements this module (IDAllocator!PoolRefinement).        *)
(***************************************************************************)
EXTENDS Integers

CONSTANTS
  Size,      \* managed ids are 0..(Size - 1)
  MaxFresh   \* bound: how many fresh ids

VARIABLES
  usable,    \* the managed ids that may be handed out; never changes
  fallback,  \* out of managed ids, hand out fresh ones; never changes
  taken,     \* managed ids that are not to be had
  fresh,     \* fresh ids handed out
  result     \* what the last allocation returned

pvars == <<usable, fallback, taken, fresh, result>>

Managed == 0..(Size - 1)

Init ==
  /\ fallback \in BOOLEAN
  /\ taken = Managed \ usable
  /\ fresh = 0
  /\ result = -1

Alloc ==
  \E i \in Managed \ taken :
    /\ \A j \in Managed \ taken : i <= j
    /\ taken' = taken \cup {i}
    /\ result' = i
    /\ UNCHANGED fresh

AllocFresh ==
  /\ Managed \subseteq taken
  /\ fallback /\ fresh < MaxFresh
  /\ result' = Size + fresh
  /\ fresh' = fresh + 1
  /\ UNCHANGED taken

AllocNone ==
  /\ Managed \subseteq taken
  /\ ~fallback
  /\ result' = -1
  /\ UNCHANGED <<taken, fresh>>

Free ==
  \E i \in taken :
    /\ i \in usable
    /\ taken' = taken \ {i}
    /\ UNCHANGED <<fresh, result>>

Next ==
  /\ Alloc \/ AllocFresh \/ AllocNone \/ Free
  /\ UNCHANGED <<usable, fallback>>

Spec == Init /\ [][Next]_pvars
=============================================================================
