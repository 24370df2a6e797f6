---------------------------- MODULE IDAllocator ----------------------------
(***************************************************************************)
(* The id allocators of VMsvga2Accel (kexts/VMsvga2/AC/VMsvga2Accel.cpp):  *)
(* an array of words with one bit for each id, and the index of the first  *)
(* word worth searching.  Every method runs under lockAccel, so a call is  *)
(* one step.  The four allocators are instances:                           *)
(*                                                                         *)
(*   AllocSurfaceID  4 words of 64, indexed, falls back to fresh ids       *)
(*   AllocContextID  1 word of 64, not indexed, falls back to fresh ids    *)
(*   AllocStreamID   1 word of 32, not indexed, fails when full            *)
(*   AllocGMRID      2 words of 64, indexed, fails when full; the ids the  *)
(*                   device does not support are masked in start()         *)
(*                                                                         *)
(* mask is the set of the ids whose bit is set: bit i % WordSize of word   *)
(* i \div WordSize.                                                        *)
(***************************************************************************)
EXTENDS Integers

CONSTANTS
  NumEntries,    \* words in the array
  WordSize,      \* bits in a word
  MaxIds,        \* guest memory regions the device supports (getMaxGMRIDs)
  MaxUnmanaged   \* bound: 2^32 - 256 in the code, where the counter wraps

ASSUME SizeAssumption ==
  NumEntries \in Nat \ {0} /\ WordSize \in Nat \ {0} /\ MaxIds \in Nat /\ MaxUnmanaged \in Nat

VARIABLES
  kind,       \* which of the four allocators this is; never changes
  mask,       \* m_surface_id_mask, m_gmr_id_mask, ...
  idx,        \* m_surface_id_idx, m_gmr_id_idx
  unmanaged,  \* m_surface_ids_unmanaged
  result,     \* what the last allocation returned
  users       \* history: how many callers hold each id

vars == <<kind, mask, idx, unmanaged, result, users>>

Size == NumEntries * WordSize
Managed == 0..(Size - 1)
Kinds == {"surface", "context", "stream", "gmr"}

Indexed == kind \in {"surface", "gmr"}      \* keeps the index of a word to start from
Fallback == kind \in {"surface", "context"} \* out of ids, hands out unmanaged ones
Limit == IF kind = "gmr" THEN MaxIds ELSE Size
Usable == 0..(Limit - 1)
Ids == 0..(Size + MaxUnmanaged - 1)

(* start() clears the bits and has mask_array64 set those of the regions   *)
(* the device does not support.                                            *)
Init ==
  /\ kind \in Kinds
  /\ mask = {i \in Managed : i >= Limit}
  /\ idx = 0
  /\ unmanaged = 0
  /\ result = -1
  /\ users = [i \in Ids |-> 0]

(* What find_bit_in_array64 searches: the words from idx on. *)
Clear == {i \in Managed \ mask : i >= idx * WordSize}

\* Faulty variant: the bit of the id is not set.
AllocFoundUnmarked ==
  \E i \in Clear :
    /\ \A j \in Clear : i <= j
    /\ mask' = mask
    /\ idx' = IF Indexed THEN i \div WordSize ELSE idx
    /\ result' = i
    /\ users' = [users EXCEPT ![i] = @ + 1]
    /\ UNCHANGED <<kind, unmanaged>>

AllocFound ==
  \E i \in Clear :
    /\ \A j \in Clear : i <= j
    /\ mask' = mask \cup {i}
    /\ idx' = IF Indexed THEN i \div WordSize ELSE idx
    /\ result' = i
    /\ users' = [users EXCEPT ![i] = @ + 1]
    /\ UNCHANGED <<kind, unmanaged>>

AllocUnmanaged ==
  /\ Clear = {}
  /\ Fallback /\ unmanaged < MaxUnmanaged
  /\ idx' = IF Indexed THEN NumEntries ELSE idx
  /\ unmanaged' = unmanaged + 1
  /\ result' = Size + unmanaged
  /\ users' = [users EXCEPT ![Size + unmanaged] = @ + 1]
  /\ UNCHANGED <<kind, mask>>

AllocFails ==
  /\ Clear = {}
  /\ ~Fallback
  /\ idx' = IF Indexed THEN NumEntries ELSE idx
  /\ result' = -1
  /\ UNCHANGED <<kind, mask, unmanaged, users>>

\* Faulty variant: the index is not taken back to the word of the freed id.
FreeKeepsIndex(i) ==
  /\ users[i] > 0
  /\ users' = [users EXCEPT ![i] = @ - 1]
  /\ mask' = IF i \in Managed THEN mask \ {i} ELSE mask
  /\ UNCHANGED <<kind, idx, unmanaged, result>>

(* The holder of an id gives it back; an unmanaged one is ignored. *)
Free(i) ==
  /\ users[i] > 0
  /\ users' = [users EXCEPT ![i] = @ - 1]
  /\ mask' = IF i \in Managed THEN mask \ {i} ELSE mask
  /\ idx' = IF i \in Managed /\ Indexed /\ i \div WordSize < idx THEN i \div WordSize ELSE idx
  /\ UNCHANGED <<kind, unmanaged, result>>

Next ==
  \/ AllocFound \/ AllocUnmanaged \/ AllocFails
  \/ \E i \in Ids : Free(i)

Spec == Init /\ [][Next]_vars

-----------------------------------------------------------------------------
(* Properties *)

(* Every variable has its type; the index names a word, or the end. *)
TypeOK ==
  /\ kind \in Kinds
  /\ mask \subseteq Managed
  /\ idx \in 0..NumEntries
  /\ unmanaged \in 0..MaxUnmanaged
  /\ result \in Ids \cup {-1}
  /\ users \in [Ids -> Nat]

(* No two callers hold the same id: a surface, context, stream or guest    *)
(* memory region of one client is never another client's.                  *)
IdsUnique == \A i \in Ids : users[i] <= 1

(* Every word before the index is full, so a search that starts there      *)
(* misses no free id (the part of the invariant the refinement needs).     *)
FullBelowIndex ==
  /\ \A i \in Managed : i < idx * WordSize => i \in mask
  /\ ~Indexed => idx = 0

(* The bit of a held id is set, and so are those of the masked ids. *)
MaskIsHeld ==
  /\ \A i \in Managed : users[i] > 0 => i \in mask /\ i < Limit
  /\ \A i \in Managed : i \notin mask => i < Limit
  /\ \A i \in Ids : i >= Size + unmanaged => users[i] = 0

AllocatorInv == TypeOK /\ IdsUnique /\ FullBelowIndex /\ MaskIsHeld

(* The bitmap and its index hand out what a pool of ids would: always the  *)
(* smallest free id, unmanaged ones or a failure only when all are held.   *)
Pool == INSTANCE IdPool WITH
  MaxFresh <- MaxUnmanaged,
  usable <- Usable,
  fallback <- Fallback,
  taken <- mask,
  fresh <- unmanaged

PoolRefinement == Pool!Spec
=============================================================================
