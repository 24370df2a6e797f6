--------------------------- MODULE BuddyAllocator ---------------------------
(***************************************************************************)
(* The allocator of video memory (kexts/VMsvga2/AC/VMsvga2Allocator.cpp),  *)
(* a buddy system as built with FRAGILE: free blocks are not cleared.      *)
(*                                                                         *)
(* The unit is the block of 2^minBits bytes.  The allocator keeps its own  *)
(* records in the memory it manages: a free range holds the links of its   *)
(* free list in its first block (head) and its order in the last words of  *)
(* its last block (tail).  A caller may write anything into the blocks it  *)
(* holds, so what the allocator reads there would be garbage.  The bit of  *)
(* a block in the bitmap is set when the block ends a busy range.          *)
(*                                                                         *)
(* VMsvga2Accel takes its lock around every call, so a call is one step;   *)
(* setupAllocator takes none, and is called while the accelerator starts.  *)
(* Callers give back only what they hold.                                  *)
(***************************************************************************)
EXTENDS Integers, FiniteSets, SequencesExt, BitRange

CONSTANTS
  PoolBlocks,   \* blocks in the pool
  Reserved,     \* blocks of the traceable framebuffer (SVGA_FB_MAX_TRACEABLE_SIZE)
  NumSizes,     \* numSizes: orders are 0..NumSizes-1
  Requests,     \* sizes callers ask for, in blocks
  Data,         \* what callers write
  Zero,         \* what bzero writes
  Null          \* OURNULL

ASSUME SizeAssumption ==
  /\ PoolBlocks \in Nat /\ NumSizes \in Nat \ {0}
  /\ Requests \subseteq Nat

(* The blocks in a range of order k. *)
Span(k) == 2^k

(* 0x1000000 bytes are a range of the largest order. *)
ASSUME ReservedAssumption == Reserved = Span(NumSizes - 1)

Blocks == 0..(PoolBlocks - 1)
Orders == 0..(NumSizes - 1)

(* -1 is no offset. *)
ASSUME NullAssumption == Null \notin Blocks

Link(prev, next) == [prev |-> prev, next |-> next]
Links == {Link(p, n) : p \in Blocks \cup {Null}, n \in Blocks \cup {Null}}

VARIABLES
  map,        \* blocks whose bit is set
  freeList,   \* first free range of each order
  freeBytes,  \* in blocks
  head, tail, \* first and last words of each block
  usable,     \* blocks setupAllocator has released
  corrupt,    \* a call has returned an error other than kIOReturnNoMemory
  held        \* ranges callers hold, [first, length]

pool == [map |-> map, freeList |-> freeList, freeBytes |-> freeBytes, head |-> head, tail |-> tail]
vars == <<map, freeList, freeBytes, head, tail, usable, corrupt, held>>

(* VMsvga2Allocator::Init: everything counts as allocated. *)
Init ==
  /\ map = Blocks
  /\ freeList = [k \in Orders |-> Null]
  /\ freeBytes = 0
  /\ head = [b \in Blocks |-> Zero] /\ tail = [b \in Blocks |-> Zero]
  /\ usable = {} /\ corrupt = FALSE
  /\ held = {}

-----------------------------------------------------------------------------
(* Free lists.  These operators take a pool and return a pool. *)

IsFree(p, b) == p.head[b] \in Links

SetPrev(p, b, prev) == IF b = Null THEN p ELSE [p EXCEPT !.head[b].prev = prev]
SetNext(p, b, next) == [p EXCEPT !.head[b].next = next]

(* A free range enters the list of its order at the front. *)
Push(p, b, k) ==
  LET next == p.freeList[k]
  IN  SetPrev([p EXCEPT !.head[b] = Link(Null, next),
                        !.tail[b + Span(k) - 1] = k,
                        !.freeList[k] = b], next, b)

Unlink(p, b, k) ==
  LET l == p.head[b]
      q == SetPrev(p, l.next, l.prev)
  IN  IF l.prev = Null THEN [q EXCEPT !.freeList[k] = l.next] ELSE SetNext(q, l.prev, l.next)

(* What Unlink finds out of order: links that do not answer each other. *)
BadLinks(p, b) ==
  \/ ~IsFree(p, b)
  \/ LET l == p.head[b]
     IN  \/ l.prev # Null /\ (~IsFree(p, l.prev) \/ p.head[l.prev].next # b)
         \/ l.next # Null /\ (~IsFree(p, l.next) \/ p.head[l.next].prev # b)

makeFree(p, piece) ==
  [Push(p, piece.first, piece.order) EXCEPT !.freeBytes = @ + Span(piece.order)]

Aligned(b, k) == b % Span(k) = 0

(* The pieces toFree cuts a range into: from the left, each as large as    *)
(* its alignment and the end of the range allow.                           *)
Pieces(firstBlock, pastBlock) ==
  LET Fit(i) == {k \in Orders : i + Span(k) <= pastBlock /\ Aligned(i, k)}
      cut[i \in 0..pastBlock] ==
        IF i = pastBlock THEN <<>>
        ELSE LET k == CHOOSE k \in Fit(i) : \A j \in Fit(i) : j <= k
             IN  <<[first |-> i, order |-> k]>> \o cut[i + Span(k)]
  IN  IF firstBlock >= pastBlock THEN <<>> ELSE cut[firstBlock]

toFree(p, firstBlock, pastBlock) == FoldLeft(makeFree, p, Pieces(firstBlock, pastBlock))

-----------------------------------------------------------------------------
(* The calls, as functions of the pool: what they return and leave.        *)

Success(p, at) == [ret |-> "success", pool |-> p, at |-> at]
Failure(ret, p) == [ret |-> ret, pool |-> p, at |-> Null]

(* Part of the pool is handed over; its bits must be set. *)
Release(p, firstBlock, pastBlock) ==
  IF testAll(p.map, firstBlock, pastBlock)
    THEN Success(toFree([p EXCEPT !.map = clearAll(@, firstBlock, pastBlock)], firstBlock, pastBlock), Null)
    ELSE Failure("corrupt", p)

(* The order of the smallest range that holds n blocks. *)
OrderOf(n) == CHOOSE k \in 0..n : Span(k) >= n /\ \A j \in 0..n : Span(j) >= n => k <= j

\* Faulty variant: the rest of a larger range is not given back.
SpareForgotten(p, at, k, j) == p

(* The part of a range of order j that an allocation of order k leaves. *)
Spare(p, at, k, j) == toFree(p, at + Span(k), at + Span(j))

BuddyMalloc(p, k) ==
  LET large == {j \in Orders : j >= k /\ p.freeList[j] # Null}
      j == CHOOSE j \in large : \A i \in large : j <= i
      at == p.freeList[j]
  IN  IF p.freeBytes < Span(k) \/ large = {} THEN Failure("nomemory", p)
      ELSE IF BadLinks(p, at) \/ p.head[at].prev # Null \/ p.tail[at + Span(j) - 1] # j
             THEN Failure("corrupt", p)
      ELSE Success(Spare([Unlink(p, at, j) EXCEPT !.map = @ \cup {at + Span(k) - 1},
                                                  !.freeBytes = @ - Span(j)], at, k, j), at)

Malloc(p, n) == BuddyMalloc(p, OrderOf(n))

(* BuddyAllocSize: the range ends at the first bit a buddy could have set. *)
Ends(p, at) ==
  {k \in Orders : at + Span(k) <= PoolBlocks /\ Aligned(at, k) /\ at + Span(k) - 1 \in p.map}
SizeOf(p, at) == CHOOSE k \in Ends(p, at) : \A j \in Ends(p, at) : k <= j

\* Faulty variant: the buddy counts as free whatever its order is.
WholeBuddyUnchecked(p, buddy, k) ==
  buddy + Span(k) <= PoolBlocks /\ buddy + Span(k) - 1 \notin p.map

(* The buddy is free as a whole: no busy range ends with it, and the order *)
(* that is noted at its end is its own.                                    *)
WholeBuddy(p, buddy, k) ==
  /\ buddy + Span(k) <= PoolBlocks
  /\ buddy + Span(k) - 1 \notin p.map
  /\ p.tail[buddy + Span(k) - 1] = k

BuddyOf(b, k) == IF Aligned(b, k + 1) THEN b + Span(k) ELSE b - Span(k)

(* One turn of the loop of Free: s is the range so far. *)
Merge(s, k) ==
  LET buddy == BuddyOf(s.first, k)
      end == buddy + Span(k) - 1
  IN  IF s.done THEN s
      ELSE IF end \in Blocks /\ end \notin s.pool.map /\ s.pool.tail[end] \notin Orders
             THEN [s EXCEPT !.done = TRUE, !.bad = TRUE]
      ELSE IF ~WholeBuddy(s.pool, buddy, k) THEN [s EXCEPT !.done = TRUE]
      ELSE IF BadLinks(s.pool, buddy) THEN [s EXCEPT !.done = TRUE, !.bad = TRUE]
      ELSE [s EXCEPT !.pool = [Unlink(@, buddy, k) EXCEPT !.tail[end] = Zero, !.head[buddy] = Zero],
                     !.first = IF buddy < @ THEN buddy ELSE @,
                     !.order = k + 1]

\* Faulty variant: the loop stops one order early.
ClimbShort(k) == [i \in 1..(NumSizes - 2 - k) |-> k + i - 1]

(* Orders the loop goes through. *)
Climb(k) == [i \in 1..(NumSizes - 1 - k) |-> k + i - 1]

Free(p, at) ==
  LET k == SizeOf(p, at)
      s == FoldLeft(Merge, [pool |-> [p EXCEPT !.map = @ \ {at + Span(k) - 1}], first |-> at,
                            order |-> k, done |-> FALSE, bad |-> FALSE], Climb(k))
      next == s.pool.freeList[s.order]
  IN  IF Ends(p, at) = {} THEN Failure("badpointer", p)
      ELSE IF s.bad \/ (next # Null /\ (~IsFree(s.pool, next) \/ s.pool.head[next].prev # Null))
             THEN Failure("corrupt", s.pool)
      ELSE Success([Push(s.pool, s.first, s.order) EXCEPT !.freeBytes = @ + Span(k)], Null)

\* Faulty variant: one block too few is copied.
CopyToShort(p, from, to, n) ==
  LET Moved(f) == [b \in Blocks |-> IF b \in to..(to + n - 2) THEN f[b - to + from] ELSE f[b]]
  IN  [p EXCEPT !.head = Moved(@), !.tail = Moved(@)]

(* memcpy *)
CopyTo(p, from, to, n) ==
  LET Moved(f) == [b \in Blocks |-> IF b \in to..(to + n - 1) THEN f[b - to + from] ELSE f[b]]
  IN  [p EXCEPT !.head = Moved(@), !.tail = Moved(@)]

Shrink(p, at, k, n) ==
  toFree([p EXCEPT !.map = (@ \cup {at + Span(n) - 1}) \ {at + Span(k) - 1}], at + Span(n), at + Span(k))

Grow(p, at, k, n) ==
  LET new == Malloc(p, n)
      freed == Free(CopyTo(new.pool, at, new.at, Span(k)), at)
  IN  IF new.ret # "success" THEN new
      ELSE IF freed.ret # "success"
             THEN Failure(freed.ret, Free(freed.pool, new.at).pool)
      ELSE Success(freed.pool, new.at)

Realloc(p, at, n) ==
  LET k == SizeOf(p, at)
  IN  IF n = 0 THEN Free(p, at)
      ELSE IF Ends(p, at) = {} THEN Failure("badpointer", p)
      ELSE IF Span(k) < n THEN Grow(p, at, k, n)
      ELSE IF OrderOf(n) >= k THEN Success(p, at)
      ELSE Success(Shrink(p, at, k, OrderOf(n)), at)

(* Check, the allocator's own test of its records. *)
ListOf(p, k) ==
  LET list[left \in 0..PoolBlocks] ==
        [b \in Blocks \cup {Null} |->
           IF b = Null \/ left = 0 \/ ~IsFree(p, b) THEN <<b>>
           ELSE <<b>> \o list[left - 1][p.head[b].next]]
  IN  list[PoolBlocks][p.freeList[k]]

Check(p) ==
  /\ \A k \in Orders :
       LET l == ListOf(p, k)
           len == Len(l) - 1
       IN  /\ l[len + 1] = Null
           /\ \A i \in 1..len :
                /\ ~testAny(p.map, l[i], l[i] + Span(k))
                /\ p.head[l[i]].prev = IF i = 1 THEN Null ELSE l[i - 1]
                /\ p.tail[l[i] + Span(k) - 1] = k
  /\ p.freeBytes = FoldLeft(LAMBDA n, k : n + (Len(ListOf(p, k)) - 1) * Span(k), 0,
                            [i \in 1..NumSizes |-> i - 1])

-----------------------------------------------------------------------------
(* Steps *)

SetPool(p) ==
  /\ map' = p.map /\ freeList' = p.freeList /\ freeBytes' = p.freeBytes
  /\ head' = p.head /\ tail' = p.tail

Apply(r) ==
  /\ SetPool(r.pool)
  /\ corrupt' = (corrupt \/ r.ret \in {"corrupt", "badpointer"})
  /\ UNCHANGED usable

HeldRange(at, k) == [first |-> at, length |-> Span(k)]

(* setupAllocator, called once: what lies behind the traceable framebuffer *)
(* is free, and with a front buffer of the host's (HaveFrontBuffer) so is  *)
(* the rest.                                                               *)
setupAllocator ==
  \E haveFrontBuffer \in BOOLEAN :
    LET upper == IF Reserved < PoolBlocks THEN Reserved..(PoolBlocks - 1) ELSE {}
        lower == IF haveFrontBuffer THEN Blocks \ upper ELSE {}
        first == IF upper = {} THEN Success(pool, Null) ELSE Release(pool, Reserved, PoolBlocks)
        second == IF lower = {} THEN first ELSE Release(first.pool, 0, Least(Reserved, PoolBlocks))
    IN  /\ usable = {} /\ usable' = upper \cup lower
        /\ SetPool(second.pool)
        /\ corrupt' = ("corrupt" \in {first.ret, second.ret})
        /\ UNCHANGED held

(* r is what the call returns and the pool it leaves. *)
VRAMMalloc(n) ==
  \E r \in {Malloc(pool, n)} :
    /\ Apply(r)
    /\ held' = IF r.ret = "success" THEN held \cup {HeldRange(r.at, OrderOf(n))} ELSE held

VRAMRealloc(h, n) ==
  \E r \in {Realloc(pool, h.first, n)} :
    /\ Apply(r)
    /\ held' = IF r.ret # "success" THEN held
               ELSE IF n = 0 THEN held \ {h}
               ELSE (held \ {h}) \cup {HeldRange(r.at, SizeOf(r.pool, r.at))}

VRAMFree(h) ==
  /\ \E r \in {Free(pool, h.first)} : Apply(r)
  /\ held' = held \ {h}

(* A caller writes into a block it holds. *)
Write(h) ==
  \E b \in h.first..(h.first + h.length - 1), d \in Data :
    /\ head' = [head EXCEPT ![b] = d] /\ tail' = [tail EXCEPT ![b] = d]
    /\ UNCHANGED <<map, freeList, freeBytes, usable, corrupt, held>>

Next ==
  \/ setupAllocator
  \/ \E n \in Requests : VRAMMalloc(n)
  \/ \E h \in held : VRAMFree(h) \/ Write(h) \/ \E n \in Requests : VRAMRealloc(h, n)

Spec == Init /\ [][Next]_vars

-----------------------------------------------------------------------------
(* Properties *)

HeldBlocks == UNION {h.first..(h.first + h.length - 1) : h \in held}
FreeRanges == {r \in [first : Blocks, order : Orders] :
                 LET list == ListOf(pool, r.order)
                 IN  \E i \in 1..(Len(list) - 1) : list[i] = r.first}
FreeBlocks == UNION {r.first..(r.first + Span(r.order) - 1) : r \in FreeRanges}

(* Legal calls never make the allocator report corruption or a bad         *)
(* pointer, and its own Check succeeds between any two of them: what it    *)
(* reads as its own records is never a caller's data.                      *)
NeverCorrupt == ~corrupt /\ Check(pool)

(* No block is lost and none is in two places: a released block           *)
(* is held or in one free range, and freeBytes counts the free ones.       *)
NothingLost ==
  LET free == FreeBlocks
  IN  /\ HeldBlocks \cap free = {}
      /\ HeldBlocks \cup free = usable
      /\ freeBytes = Cardinality(free)

(* A call fails for want of memory only when no aligned run of free blocks *)
(* is large enough: whatever was given back is merged again.               *)
MallocComplete ==
  LET free == FreeBlocks
  IN  \A k \in Orders, b \in Blocks :
        Aligned(b, k) /\ b..(b + Span(k) - 1) \subseteq free => BuddyMalloc(pool, k).ret = "success"

Interval(first, past) == first .. (past - 1)
Ranges == {r \in (0..PoolBlocks) \X (0..PoolBlocks) : r[1] <= r[2]}

(* On every alignment of its ends, clearAll clears a range exactly (no bit *)
(* of a neighbour that shares a byte with it goes), and the tests raise no *)
(* false alarm: a range of ones passes testAll, one of zeros fails testAny.*)
BitmapExact ==
  \A r \in Ranges :
    LET bits == Interval(r[1], r[2])
    IN  /\ clearAll(map, r[1], r[2]) = map \ bits
        /\ bits \subseteq map => testAll(map, r[1], r[2])
        /\ bits \cap map = {} => ~testAny(map, r[1], r[2])

(* "Checks if all bits in a range are 1" (VMsvga2Allocator.cpp, testAll). *)
TestAllSees ==
  \A r \in Ranges : testAll(map, r[1], r[2]) => Interval(r[1], r[2]) \subseteq map

(* The callers see a pool of storage: ranges that never overlap and keep   *)
(* their contents across Malloc, Realloc and Free of the others.           *)
content == [b \in HeldBlocks |-> <<head[b], tail[b]>>]
Storage == INSTANCE StoragePool
StorageRefinement == Storage!Spec
=============================================================================
