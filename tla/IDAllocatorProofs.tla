------------------------- MODULE IDAllocatorProofs -------------------------
(***************************************************************************)
(* For every array, word size and device limit: two callers never hold the *)
(* same id, and the indexed bitmap implements the pool of ids.             *)
(***************************************************************************)
EXTENDS IDAllocator, TLAPS

USE SizeAssumption

(* The array has a whole number of bits. *)
LEMMA SizeIsNat == Size \in Nat
BY DEF Size

(* So has the part of it the device supports. *)
LEMMA LimitIsNat == Limit \in Nat
BY SizeIsNat DEF Limit

(* A step that leaves the kind alone leaves the allocator what it is. *)
LEMMA SameKind ==
  ASSUME kind' = kind
  PROVE  Indexed' = Indexed /\ Fallback' = Fallback /\ Limit' = Limit /\ Usable' = Usable
BY DEF Indexed, Fallback, Limit, Usable, Size

(* The word of an id contains it. *)
LEMMA WordOf ==
  ASSUME NEW i \in Nat
  PROVE  /\ i \div WordSize \in Nat
         /\ (i \div WordSize) * WordSize <= i
         /\ i < (i \div WordSize + 1) * WordSize
OBVIOUS

(* The word of a managed id is one of the array. *)
LEMMA WordInArray ==
  ASSUME NEW i \in Managed
  PROVE  i \in Nat /\ i \div WordSize \in 0..(NumEntries - 1)
<1>1. i \in Nat /\ i < NumEntries * WordSize
  BY SizeIsNat DEF Managed, Size
<1>2. i \div WordSize \in Nat /\ (i \div WordSize) * WordSize <= i
  BY <1>1, WordOf
<1>3. i \div WordSize < NumEntries
  <2> SUFFICES ASSUME i \div WordSize >= NumEntries PROVE FALSE
    BY <1>2
  <2>1. (i \div WordSize) * WordSize >= NumEntries * WordSize
    BY <1>2
  <2> QED
    BY <1>1, <1>2, <2>1
<1> QED
  BY <1>1, <1>2, <1>3

(* A smaller index has nothing more below it. *)
LEMMA SmallerIndex ==
  \A a, b, j \in Nat : a <= b /\ j < a * WordSize => j < b * WordSize
<1> SUFFICES ASSUME NEW a \in Nat, NEW b \in Nat, NEW j \in Nat, a <= b, j < a * WordSize
             PROVE  j < b * WordSize
  OBVIOUS
<1>1. a * WordSize <= b * WordSize
  OBVIOUS
<1> QED
  BY <1>1

(* An id is not below the index of its word, or of an earlier one. *)
LEMMA NotBelowWord ==
  \A a, i \in Nat : a <= i \div WordSize => ~(i < a * WordSize)
BY SmallerIndex, WordOf

-----------------------------------------------------------------------------
(* The initial states satisfy the invariant. *)
LEMMA InitInv == Init => AllocatorInv
BY LimitIsNat, SizeIsNat DEF Init, AllocatorInv, TypeOK, IdsUnique, FullBelowIndex, MaskIsHeld, Managed, Ids

(* A call of an allocator keeps the invariant. *)
LEMMA NextInv == AllocatorInv /\ [Next]_vars => AllocatorInv'
<1> SUFFICES ASSUME AllocatorInv, [Next]_vars PROVE AllocatorInv'
  OBVIOUS
<1>0. kind' = kind
  BY DEF Next, AllocFound, AllocUnmanaged, AllocFails, Free, vars
<1> USE SizeIsNat, LimitIsNat, <1>0, SameKind DEF AllocatorInv, TypeOK
<1>1. CASE AllocFound
  <2>1. PICK i \in Clear :
          /\ \A j \in Clear : i <= j
          /\ mask' = mask \cup {i}
          /\ idx' = IF Indexed THEN i \div WordSize ELSE idx
          /\ result' = i
          /\ users' = [users EXCEPT ![i] = @ + 1]
          /\ UNCHANGED <<kind, unmanaged>>
    BY <1>1 DEF AllocFound
  <2>2. i \in Managed /\ i \notin mask /\ i \in Ids
    BY <2>1 DEF Clear, Managed, Ids
  <2>3. i \div WordSize \in 0..(NumEntries - 1) /\ (i \div WordSize) * WordSize <= i
    BY <2>2, WordInArray, WordOf
  <2>4. users[i] = 0 /\ i < Limit
    <3>1. users[i] \in Nat
      BY <2>2
    <3>2. users[i] = 0
      BY <2>2, <3>1 DEF MaskIsHeld
    <3>3. i < Limit
      BY <2>2 DEF MaskIsHeld
    <3> QED
      BY <3>2, <3>3
  <2>5. TypeOK'
    BY <2>1, <2>2, <2>3, SMTT(60) DEF Ids
  <2>6. IdsUnique'
    BY <2>1, <2>2, <2>4 DEF IdsUnique
  <2>7. MaskIsHeld'
    BY <2>1, <2>2, <2>4 DEF MaskIsHeld, Managed
  <2>8. FullBelowIndex'
    <3>0. ~Indexed => idx' = 0
      BY <2>1 DEF FullBelowIndex
    <3> SUFFICES ASSUME NEW j \in Managed, j < idx' * WordSize PROVE j \in mask'
      BY <3>0 DEF FullBelowIndex
    <3>1. CASE Indexed
      <4>1. j < i
        BY <2>1, <2>2, <2>3, <3>1 DEF Managed
      <4>2. j \notin Clear
        BY <2>1, <2>2, <4>1 DEF Managed
      <4> QED
        BY <2>1, <4>2 DEF Clear, FullBelowIndex, Managed
    <3>2. CASE ~Indexed
      BY <2>1, <3>2 DEF FullBelowIndex
    <3> QED
      BY <3>1, <3>2
  <2> QED
    BY <2>5, <2>6, <2>7, <2>8
<1>2. CASE AllocUnmanaged
  <2>1. Size + unmanaged \in Ids /\ Size + unmanaged \notin Managed
    BY <1>2 DEF AllocUnmanaged, Ids, Managed
  <2>2. users[Size + unmanaged] = 0
    BY <2>1 DEF MaskIsHeld
  <2>3. TypeOK'
    BY <1>2, <2>1 DEF AllocUnmanaged
  <2>4. IdsUnique'
    BY <1>2, <2>1, <2>2 DEF AllocUnmanaged, IdsUnique
  <2>5. MaskIsHeld'
    BY <1>2, <2>1 DEF AllocUnmanaged, MaskIsHeld, Managed, Ids
  <2>6. FullBelowIndex'
    BY <1>2 DEF AllocUnmanaged, FullBelowIndex, Clear, Managed
  <2> QED
    BY <2>3, <2>4, <2>5, <2>6
<1>3. CASE AllocFails
  BY <1>3 DEF AllocFails, IdsUnique, FullBelowIndex, MaskIsHeld, Clear, Managed
<1>4. ASSUME NEW i \in Ids, Free(i) PROVE AllocatorInv'
  <2>1. i \in Nat /\ users[i] = 1
    BY <1>4 DEF Free, IdsUnique, Ids
  <2>2. i \in Managed => i \div WordSize \in 0..(NumEntries - 1)
    BY WordInArray
  <2>3. TypeOK'
    BY <1>4, <2>1, <2>2 DEF Free
  <2>4. IdsUnique' /\ MaskIsHeld'
    BY <1>4, <2>1 DEF Free, IdsUnique, MaskIsHeld
  <2>5. FullBelowIndex'
    <3>0. ~Indexed => idx' = 0
      BY <1>4 DEF Free, FullBelowIndex
    <3> SUFFICES ASSUME NEW j \in Managed, j < idx' * WordSize PROVE j \in mask'
      BY <3>0 DEF FullBelowIndex
    <3>1. idx' \in Nat /\ idx' <= idx
      BY <1>4, <2>2 DEF Free
    <3>2. j < idx * WordSize
      <4>1. idx \in Nat /\ j \in Nat
        BY DEF Managed
      <4> QED
        BY <3>1, <4>1, SmallerIndex
    <3>3. j \in mask
      BY <3>2 DEF FullBelowIndex
    <3>4. CASE j = i
      <4>1. i \in Nat /\ i \in Managed
        BY <2>1, <3>4
      <4>2. idx' <= i \div WordSize
        <5>1. CASE Indexed
          BY <1>4, <2>2, <4>1, <5>1 DEF Free
        <5>2. CASE ~Indexed
          BY <1>4, <2>2, <4>1, <5>2 DEF Free, FullBelowIndex
        <5> QED
          BY <5>1, <5>2
      <4> QED
        BY <2>1, <3>1, <3>4, <4>2, NotBelowWord
    <3>5. CASE j # i
      BY <1>4, <3>3, <3>5 DEF Free
    <3> QED
      BY <3>4, <3>5
  <2> QED
    BY <2>3, <2>4, <2>5
<1>5. CASE UNCHANGED vars
  BY <1>5 DEF vars, IdsUnique, FullBelowIndex, MaskIsHeld, Clear
<1> QED
  BY <1>1, <1>2, <1>3, <1>4, <1>5 DEF Next

-----------------------------------------------------------------------------
(* AllocatorInv is inductive. *)
LEMMA Inductive == Spec => []AllocatorInv
BY InitInv, NextInv, PTL DEF Spec

(* No two callers ever hold the same id, whatever order they come and go   *)
(* in and however large the array is.                                      *)
THEOREM UniqueIds == Spec => []IdsUnique
<1>1. AllocatorInv => IdsUnique
  BY DEF AllocatorInv
<1> QED
  BY Inductive, <1>1, PTL

(* With the invariant, what the search finds from the index on is what     *)
(* there is to find.                                                       *)
LEMMA SearchFindsAll ==
  ASSUME AllocatorInv
  PROVE  Clear = Managed \ mask
<1> SUFFICES ASSUME NEW i \in Managed, i \notin mask PROVE i >= idx * WordSize
  BY DEF Clear
<1>1. ~(i < idx * WordSize)
  BY DEF AllocatorInv, FullBelowIndex
<1>2. i \in Nat /\ idx * WordSize \in Nat
  BY SizeIsNat DEF Managed, AllocatorInv, TypeOK
<1> QED
  BY <1>1, <1>2

(* A call of an allocator is a call of the pool. *)
LEMMA StepRefines == AllocatorInv /\ [Next]_vars => [Pool!Next]_Pool!pvars
<1> SUFFICES ASSUME AllocatorInv, [Next]_vars PROVE [Pool!Next]_Pool!pvars
  OBVIOUS
<1> USE DEF Pool!pvars, Pool!Next, Pool!Managed
<1>0. Clear = Managed \ mask
  BY SearchFindsAll
<1>k. kind' = kind
  BY DEF Next, AllocFound, AllocUnmanaged, AllocFails, Free, vars
<1>s. UNCHANGED <<Usable, Fallback>>
  BY <1>k, SameKind
<1>1. CASE AllocFound
  <2>1. Pool!Alloc
    BY <1>0, <1>1 DEF AllocFound, Pool!Alloc, Managed
  <2> QED
    BY <2>1, <1>s
<1>2. CASE AllocUnmanaged
  <2>1. Pool!AllocFresh
    BY <1>0, <1>2 DEF AllocUnmanaged, Pool!AllocFresh, Managed
  <2> QED
    BY <2>1, <1>s
<1>3. CASE AllocFails
  <2>1. Pool!AllocNone
    BY <1>0, <1>3 DEF AllocFails, Pool!AllocNone, Managed
  <2> QED
    BY <2>1, <1>s
<1>4. ASSUME NEW i \in Ids, Free(i) PROVE [Pool!Next]_Pool!pvars
  <2>1. CASE i \in Managed
    <3>1. i \in mask /\ i < Limit /\ i \in Nat
      BY <1>4, <2>1, SizeIsNat DEF Free, AllocatorInv, MaskIsHeld, Managed
    <3>2. i \in Usable
      BY <3>1, LimitIsNat DEF Usable
    <3>3. Pool!Free
      BY <1>4, <2>1, <3>1, <3>2 DEF Free, Pool!Free
    <3> QED
      BY <3>3, <1>s
  <2>2. CASE i \notin Managed
    BY <1>4, <1>s, <2>2 DEF Free
  <2> QED
    BY <2>1, <2>2
<1>5. CASE UNCHANGED vars
  BY <1>5, <1>s DEF vars
<1> QED
  BY <1>1, <1>2, <1>3, <1>4, <1>5 DEF Next

(* The bitmap with its index implements the pool: it hands out the         *)
(* smallest free id, and fails or falls back only when all are held.       *)
THEOREM ImplementsPool == Spec => PoolRefinement
<1>1. Init => Pool!Init
  BY SizeIsNat, LimitIsNat DEF Init, Pool!Init, Pool!Managed, Managed, Usable, Fallback
<1> QED
  BY <1>1, StepRefines, Inductive, PTL DEF PoolRefinement, Pool!Spec, Spec
=============================================================================
