------------------------ MODULE BuddyAllocatorProofs ------------------------
(***************************************************************************)
(* The allocator of video memory, for pools and requests of every size.    *)
(*                                                                         *)
(* The bitmap operations work on exactly the bits of their range.  The     *)
(* records are sound between two calls: free lists linked both ways, whose *)
(* ranges together with the busy ones tile the released blocks, a bit at   *)
(* the end of each busy range and nowhere else, no two free buddies.  From *)
(* it follow the three safety properties, and that the allocator           *)
(* implements StoragePool.                                                 *)
(*                                                                         *)
(* The ranges in hand (X below) are those a call has taken from a list and *)
(* not yet put back.                                                       *)
(***************************************************************************)
EXTENDS BuddyAllocator, TLAPS, FiniteSetTheorems, NaturalsInduction, WellFoundedInduction

-----------------------------------------------------------------------------
(* The bitmap. *)

(* Where the whole bytes of a range begin and end. *)
LEMMA ByteBounds ==
  ASSUME NEW first \in Nat, NEW past \in Nat
  PROVE  /\ (first + ByteBits - 1) \div ByteBits \in Nat /\ past \div ByteBits \in Nat
         /\ first <= FirstFull(first) /\ FirstFull(first) < first + ByteBits
         /\ PastFull(past) <= past /\ past < PastFull(past) + ByteBits
<1>1. \A n \in Nat : /\ n \div ByteBits \in Nat
                     /\ (n \div ByteBits) * ByteBits <= n
                     /\ n < (n \div ByteBits) * ByteBits + ByteBits
  BY ByteAssumption
<1>2. first + ByteBits - 1 \in Nat
  BY ByteAssumption
<1> QED
  BY <1>1, <1>2, ByteAssumption DEF FirstFull, PastFull

(* Bytes lie end to end. *)
LEMMA BytesTile ==
  ASSUME NEW a \in Nat, NEW b \in Nat
  PROVE  UNION {BitsOf(i) : i \in a..(b - 1)} = (a * ByteBits)..(b * ByteBits - 1)
<1>1. ASSUME NEW i \in a..(b - 1), NEW x \in BitsOf(i)
      PROVE  x \in (a * ByteBits)..(b * ByteBits - 1)
  <2>1. i \in Nat /\ a <= i /\ i + 1 <= b
    OBVIOUS
  <2>2. a * ByteBits <= i * ByteBits /\ (i + 1) * ByteBits <= b * ByteBits
    BY <2>1, ByteAssumption
  <2>3. (i + 1) * ByteBits = i * ByteBits + ByteBits
    BY <2>1, ByteAssumption
  <2> QED
    BY <2>1, <2>2, <2>3, ByteAssumption DEF BitsOf
<1>2. ASSUME NEW x \in (a * ByteBits)..(b * ByteBits - 1)
      PROVE  \E i \in a..(b - 1) : x \in BitsOf(i)
  <2> DEFINE i == x \div ByteBits
  <2>1. x \in Nat /\ a * ByteBits <= x /\ x < b * ByteBits
    BY ByteAssumption
  <2>2. i \in Nat /\ i * ByteBits <= x /\ x < i * ByteBits + ByteBits
    BY <2>1, ByteAssumption
  <2> HIDE DEF i
  <2>3. (i + 1) * ByteBits = i * ByteBits + ByteBits
    BY <2>2, ByteAssumption
  <2>4. a <= i
    <3>1. ASSUME i + 1 <= a PROVE FALSE
      <4>1. (i + 1) * ByteBits <= a * ByteBits
        BY <2>2, <3>1, ByteAssumption
      <4> QED
        BY <2>1, <2>2, <2>3, <4>1, ByteAssumption
    <3> QED
      BY <2>2, <3>1
  <2>5. i < b
    <3>1. ASSUME b <= i PROVE FALSE
      <4>1. b * ByteBits <= i * ByteBits
        BY <2>2, <3>1, ByteAssumption
      <4> QED
        BY <2>1, <2>2, <4>1, ByteAssumption
    <3> QED
      BY <2>2, <3>1
  <2> QED
    BY <2>1, <2>2, <2>4, <2>5, ByteAssumption DEF BitsOf
<1> QED
  BY <1>1, <1>2

(* The three parts of a range make up the range. *)
LEMMA PartsOfRange ==
  ASSUME NEW first \in Nat, NEW past \in Nat, first <= past
  PROVE  BitsBefore(first, past) \cup (UNION {BitsOf(i) : i \in WholeBytes(first, past)})
           \cup BitsAfter(first, past) = Interval(first, past)
<1> DEFINE q == (first + ByteBits - 1) \div ByteBits
           r == past \div ByteBits
           w == UNION {BitsOf(i) : i \in WholeBytes(first, past)}
<1>1. /\ q \in Nat /\ r \in Nat
      /\ first <= FirstFull(first) /\ FirstFull(first) < first + ByteBits
      /\ PastFull(past) <= past /\ past < PastFull(past) + ByteBits
  BY ByteBounds
<1>2. FirstFull(first) = q * ByteBits /\ PastFull(past) = r * ByteBits
  BY DEF FirstFull, PastFull
<1>3. FirstFull(first) \in Nat /\ PastFull(past) \in Nat
  BY <1>1, <1>2, ByteAssumption
<1>4. WholeBytes(first, past) = q..(r - 1)
  <2>1. \A n \in Nat : (n * ByteBits) \div ByteBits = n
    BY ByteAssumption
  <2> QED
    BY <1>1, <1>2, <2>1 DEF WholeBytes
<1>5. w = FirstFull(first)..(PastFull(past) - 1)
  <2>1. w = UNION {BitsOf(i) : i \in q..(r - 1)}
    BY <1>4
  <2>2. w = (q * ByteBits)..(r * ByteBits - 1)
    <3> HIDE DEF q, r, w
    <3> QED
      BY <1>1, <2>1, BytesTile
  <2> QED
    BY <1>2, <2>2
<1> HIDE DEF q, r, w
<1>6. ASSUME NEW x
      PROVE  x \in BitsBefore(first, past) \/ x \in w \/ x \in BitsAfter(first, past)
               <=> x \in first..(past - 1)
  <2>1. CASE past <= FirstFull(first)
    BY <1>1, <1>3, <1>5, <2>1 DEF BitsBefore, BitsAfter, Least, Most
  <2>2. CASE FirstFull(first) < past
    <3>1. FirstFull(first) <= PastFull(past)
      <4>1. CASE r < q
        <5>1. (r + 1) * ByteBits <= q * ByteBits
          BY <1>1, <4>1, ByteAssumption
        <5>2. (r + 1) * ByteBits = r * ByteBits + ByteBits
          BY <1>1, ByteAssumption
        <5> QED
          BY <1>1, <1>2, <1>3, <2>2, <5>1, <5>2, ByteAssumption
      <4>2. CASE q <= r
        BY <1>1, <1>2, <4>2, ByteAssumption
      <4> QED
        BY <1>1, <4>1, <4>2
    <3>2. /\ BitsBefore(first, past) = first..(FirstFull(first) - 1)
          /\ BitsAfter(first, past) = PastFull(past)..(past - 1)
      BY <1>1, <1>3, <2>2, <3>1 DEF BitsBefore, BitsAfter, Least, Most
    <3> QED
      BY <1>1, <1>3, <1>5, <2>2, <3>1, <3>2
  <2> QED
    BY <1>3, <2>1, <2>2
<1>7. BitsBefore(first, past) \cup w \cup BitsAfter(first, past) = first..(past - 1)
  BY <1>6, Zenon
<1> QED
  BY <1>7, Zenon DEF w, Interval

(* clearAll clears the bits of its range and no bit of a neighbour in the  *)
(* same byte, and testAll and testAny raise no false alarm.                *)
LEMMA RangeOps ==
  ASSUME NEW bits, NEW first \in Nat, NEW past \in Nat, first <= past
  PROVE  /\ clearAll(bits, first, past) = bits \ Interval(first, past)
         /\ Interval(first, past) \subseteq bits => testAll(bits, first, past)
         /\ Interval(first, past) \cap bits = {} => ~testAny(bits, first, past)
<1>1. /\ BitsBefore(first, past) \subseteq Interval(first, past)
      /\ BitsAfter(first, past) \subseteq Interval(first, past)
      /\ \A i \in WholeBytes(first, past) : BitsOf(i) \subseteq Interval(first, past)
  <2>1. BitsBefore(first, past) \cup (UNION {BitsOf(i) : i \in WholeBytes(first, past)})
          \cup BitsAfter(first, past) = Interval(first, past)
    BY PartsOfRange
  <2> QED
    BY <2>1, Zenon
<1>2. clearAll(bits, first, past) = bits \ Interval(first, past)
  BY PartsOfRange DEF clearAll
<1>3. Scanned(WholeBytes(first, past)) \subseteq WholeBytes(first, past)
  BY DEF Scanned
<1>4. Interval(first, past) \subseteq bits => testAll(bits, first, past)
  BY <1>1, <1>3 DEF testAll, memAll
<1>5. Interval(first, past) \cap bits = {} => ~testAny(bits, first, past)
  BY <1>1, <1>3 DEF testAny, memAny
<1> QED
  BY <1>2, <1>4, <1>5

-----------------------------------------------------------------------------
(* Every nonempty set of natural numbers has a least element. *)
LEMMA LeastOf ==
  ASSUME NEW S, S \subseteq Nat, S # {}
  PROVE  \E m \in S : \A k \in S : m <= k
<1>1. PICK m \in S : \A k \in S : <<k, m>> \notin OpToRel(<, Nat)
  BY WFMin, NatLessThanWellFounded, Zenon
<1>2. ASSUME NEW k \in S PROVE m <= k
  <2>1. <<k, m>> \notin OpToRel(<, Nat)
    BY <1>1
  <2>2. k \in Nat /\ m \in Nat
    OBVIOUS
  <2>3. ~(k < m)
    BY <2>1, <2>2, Zenon DEF OpToRel
  <2> QED BY <2>2, <2>3
<1> QED BY <1>2

(* ... and so has every bounded one a greatest. *)
LEMMA GreatestOf ==
  ASSUME NEW S, NEW n \in Nat, S \subseteq 0..n, S # {}
  PROVE  \E m \in S : \A k \in S : k <= m
<1> DEFINE T == {n - k : k \in S}
<1>1. T \subseteq Nat /\ T # {}
  <2>1. \A k \in S : n - k \in Nat
    OBVIOUS
  <2> QED BY <2>1
<1>2. PICK t \in T : \A k \in T : t <= k
  BY <1>1, LeastOf
<1>3. PICK m \in S : t = n - m
  OBVIOUS
<1>4. ASSUME NEW k \in S PROVE k <= m
  <2>1. n - k \in T
    OBVIOUS
  <2> HIDE DEF T
  <2>2. t <= n - k
    BY <1>2, <2>1
  <2> QED BY <1>3, <2>2
<1> QED BY <1>4

-----------------------------------------------------------------------------
(* The sizes of ranges are the powers of 2. *)

(* 2^k counts the subsets of a set of k elements, which makes facts about  *)
(* powers facts about sizes.                                               *)
LEMMA SpanIs ==
  ASSUME NEW k \in Nat
  PROVE  Span(k) = Cardinality(SUBSET (1..k)) /\ IsFiniteSet(SUBSET (1..k))
<1>1. IsFiniteSet(1..k) /\ Cardinality(1..k) = k
  BY FS_Interval
<1> QED BY <1>1, FS_SUBSET DEF Span

\* A range has at least one block.
LEMMA SpanPositive == ASSUME NEW k \in Nat PROVE Span(k) \in Nat /\ Span(k) > 0
<1>1. IsFiniteSet(SUBSET (1..k)) /\ Cardinality(SUBSET (1..k)) = Span(k)
  BY SpanIs
<1>2. Span(k) \in Nat
  BY <1>1, FS_CardinalityType
<1>3. Span(k) # 0
  <2>1. {} \in SUBSET (1..k)
    OBVIOUS
  <2> QED BY <1>1, <2>1, FS_EmptySet
<1> QED BY <1>2, <1>3

\* A range of order 0 is one block.
LEMMA SpanZero == Span(0) = 1
<1>1. SUBSET (1..0) = {{}}
  OBVIOUS
<1> QED BY <1>1, SpanIs, FS_Singleton

\* A range of the next order is twice as large.
LEMMA SpanStep == ASSUME NEW k \in Nat PROVE Span(k + 1) = 2 * Span(k)
<1> DEFINE n == k + 1
           S == SUBSET (1..k)
           T == {s \cup {n} : s \in S}
           f == [s \in S |-> s \cup {n}]
<1>1. n \in Nat /\ n \notin 1..k /\ 1..n = (1..k) \cup {n}
  OBVIOUS
<1> HIDE DEF n
<1>2. SUBSET (1..n) = S \cup T
  <2>1. ASSUME NEW s \in SUBSET (1..n), n \in s PROVE s \in T
    <3>1. s \ {n} \in S /\ s = (s \ {n}) \cup {n}
      BY <1>1, <2>1
    <3> QED BY <3>1
  <2>2. ASSUME NEW s \in SUBSET (1..n), n \notin s PROVE s \in S
    BY <1>1, <2>2
  <2>3. S \cup T \subseteq SUBSET (1..n)
    BY <1>1
  <2> QED BY <2>1, <2>2, <2>3
<1>3. S \cap T = {}
  <2>1. \A s \in T : n \in s
    OBVIOUS
  <2>2. \A s \in S : n \notin s
    BY <1>1
  <2> QED BY <2>1, <2>2
<1>4. ExistsBijection(S, T)
  <2>1. ASSUME NEW s \in S, NEW t \in S, f[s] = f[t] PROVE s = t
    <3>1. s = f[s] \ {n} /\ t = f[t] \ {n}
      BY <1>1
    <3> QED BY <2>1, <3>1
  <2>2. f \in Surjection(S, T)
    BY DEF Surjection
  <2>3. f \in Injection(S, T)
    BY <2>1, <2>2 DEF Injection, IsInjective, Surjection
  <2> QED BY <2>2, <2>3 DEF Bijection, ExistsBijection
<1>5. IsFiniteSet(S) /\ Cardinality(S) = Span(k)
  BY SpanIs
<1>6. IsFiniteSet(T) /\ Cardinality(T) = Cardinality(S)
  BY <1>4, <1>5, FS_Bijection
<1> HIDE DEF S, T
<1>7. Cardinality(S \cup T) = Cardinality(S) + Cardinality(T) - Cardinality(S \cap T)
  BY <1>5, <1>6, FS_Union
<1>8. Cardinality(S \cap T) = 0
  BY <1>3, FS_EmptySet
<1>9. Span(n) = Cardinality(S \cup T)
  BY <1>1, <1>2, SpanIs
<1>10. Span(n) = 2 * Span(k)
  BY <1>5, <1>6, <1>7, <1>8, <1>9, SpanPositive
<1> QED
  BY <1>10 DEF n

\* The size of a range divides the sizes of all larger orders.
LEMMA SpanMultiple ==
  ASSUME NEW k \in Nat, NEW d \in Nat
  PROVE  \E c \in Nat \ {0} : Span(k + d) = c * Span(k)
<1> DEFINE Bad == {e \in Nat : ~\E c \in Nat \ {0} : Span(k + e) = c * Span(k)}
<1> SUFFICES ASSUME Bad # {} PROVE FALSE
  OBVIOUS
<1>1. PICK m \in Bad : \A e \in Bad : m <= e
  BY LeastOf
<1>2. m # 0
  <2>1. Span(k + 0) = 1 * Span(k)
    BY SpanPositive
  <2> QED BY <2>1
<1>3. m - 1 \in Nat /\ m - 1 \notin Bad
  BY <1>1, <1>2
<1>4. PICK c \in Nat \ {0} : Span(k + (m - 1)) = c * Span(k)
  BY <1>3
<1>5. Span(k + m) = 2 * Span(k + (m - 1))
  <2>1. k + (m - 1) \in Nat /\ k + m = (k + (m - 1)) + 1
    BY <1>3
  <2> QED BY <2>1, SpanStep
<1>6. Span(k + m) = (2 * c) * Span(k) /\ 2 * c \in Nat \ {0}
  BY <1>4, <1>5, SpanPositive
<1> QED
  BY <1>1, <1>6

\* Sizes grow with the order, at least twofold.
LEMMA SpanGrows ==
  ASSUME NEW k \in Nat, NEW t \in Nat
  PROVE  /\ k <= t => Span(k) <= Span(t)
         /\ k < t => 2 * Span(k) <= Span(t) /\ Span(k) < Span(t)
<1>1. ASSUME NEW i \in Nat, NEW j \in Nat, i <= j PROVE Span(i) <= Span(j)
  <2>1. j - i \in Nat /\ i + (j - i) = j
    BY <1>1
  <2>2. PICK c \in Nat \ {0} : Span(j) = c * Span(i)
    BY <2>1, SpanMultiple
  <2>3. Span(i) \in Nat
    BY SpanPositive
  <2> QED BY <2>2, <2>3
<1>2. ASSUME k < t PROVE 2 * Span(k) <= Span(t)
  <2>1. k + 1 \in Nat /\ k + 1 <= t
    BY <1>2
  <2> QED BY <1>1, <2>1, SpanStep
<1> QED BY <1>1, <1>2, SpanPositive

\* Two orders of one size are one order.
LEMMA SpanSame ==
  ASSUME NEW k \in Nat, NEW t \in Nat, Span(k) = Span(t) PROVE k = t
BY SpanGrows, SpanPositive

\* The order n is large enough for n blocks, so that OrderOf finds one.
LEMMA SpanExceeds == ASSUME NEW n \in Nat PROVE n < Span(n)
<1> DEFINE Bad == {e \in Nat : ~(e < Span(e))}
<1> SUFFICES ASSUME Bad # {} PROVE FALSE
  OBVIOUS
<1>1. PICK m \in Bad : \A e \in Bad : m <= e
  BY LeastOf
<1>2. m # 0
  BY SpanZero
<1>3. m - 1 \in Nat /\ m - 1 < Span(m - 1)
  BY <1>1, <1>2
<1>4. Span(m) = 2 * Span(m - 1)
  BY <1>3, SpanStep
<1> QED BY <1>1, <1>3, <1>4, SpanPositive

\* OrderOf gives an order, and a range of it holds the blocks asked for.
LEMMA OrderOfFits ==
  ASSUME NEW n \in Nat
  PROVE  OrderOf(n) \in Nat /\ n <= Span(OrderOf(n))
<1> DEFINE S == {k \in 0..n : Span(k) >= n}
<1>1. n \in S
  BY SpanExceeds, SpanPositive
<1>2. PICK k \in S : \A j \in S : k <= j
  <2>1. S \subseteq Nat
    OBVIOUS
  <2> HIDE DEF S
  <2> QED BY <1>1, <2>1, LeastOf
<1>3. k \in 0..n /\ Span(k) >= n /\ \A j \in 0..n : Span(j) >= n => k <= j
  BY <1>2
<1>4. OrderOf(n) \in 0..n /\ Span(OrderOf(n)) >= n
  BY <1>3, Zenon DEF OrderOf
<1> QED BY <1>4, SpanPositive

-----------------------------------------------------------------------------
(* Ranges: the blocks from first on, as many as their order says.           *)

RangeAt(b, k) == [first |-> b, order |-> k]
Past(r) == r.first + Span(r.order)
Body(r) == r.first .. (Past(r) - 1)
Sited(r) == r.first \in Nat /\ r.order \in Nat /\ Aligned(r.first, r.order)

\* What a remainder of zero means.
LEMMA Multiples ==
  ASSUME NEW b \in Nat, NEW n \in Nat, n > 0
  PROVE  b % n = 0 <=> \E q \in Nat : b = q * n
<1>1. ASSUME b % n = 0 PROVE \E q \in Nat : b = q * n
  <2>1. b \div n \in Nat /\ b = (b \div n) * n + (b % n)
    OBVIOUS
  <2> QED BY <1>1, <2>1
<1>2. ASSUME NEW q \in Nat, b = q * n PROVE b % n = 0
  BY <1>2
<1> QED BY <1>1, <1>2

\* A range begins at a multiple of its size.
LEMMA AlignedIs ==
  ASSUME NEW b \in Nat, NEW k \in Nat
  PROVE  Aligned(b, k) <=> \E q \in Nat : b = q * Span(k)
BY SpanPositive, Multiples DEF Aligned

(* Two ranges that share a block lie one within the other. *)
LEMMA Nested ==
  ASSUME NEW r, NEW s, Sited(r), Sited(s), r.order <= s.order,
         r.first < Past(s), s.first < Past(r)
  PROVE  s.first <= r.first /\ Past(r) <= Past(s)
<1> DEFINE n == Span(r.order)
<1>1. PICK p \in Nat : r.first = p * n
  BY AlignedIs DEF Sited
<1>2. PICK c \in Nat \ {0} : Span(s.order) = c * n
  <2>1. s.order - r.order \in Nat /\ r.order + (s.order - r.order) = s.order
    BY DEF Sited
  <2> QED BY <2>1, SpanMultiple DEF Sited
<1>3. PICK q \in Nat : s.first = q * Span(s.order)
  BY AlignedIs DEF Sited
<1>4. n \in Nat /\ n > 0
  BY SpanPositive DEF Sited
<1> HIDE DEF n
<1> DEFINE a == q * c
<1>5. a \in Nat /\ s.first = a * n /\ Past(s) = (a + c) * n /\ Past(r) = (p + 1) * n
  <2>1. a \in Nat
    OBVIOUS
  <2>2. s.first = a * n
    BY <1>2, <1>3, <1>4
  <2>3. Past(s) = (a + c) * n
    BY <1>2, <1>4, <2>1, <2>2 DEF Past
  <2>4. Past(r) = (p + 1) * n
    BY <1>1, <1>4 DEF Past, n
  <2> QED BY <2>1, <2>2, <2>3, <2>4
<1> HIDE DEF a
<1>6. p < a + c
  <2>1. CASE a + c <= p
    <3>1. (a + c) * n <= p * n
      BY <1>4, <1>5, <2>1
    <3> QED BY <1>1, <1>5, <3>1, <1>4
  <2> QED BY <2>1, <1>5
<1>7. a < p + 1
  <2>1. CASE p + 1 <= a
    <3>1. (p + 1) * n <= a * n
      BY <1>4, <1>5, <2>1
    <3> QED BY <1>1, <1>5, <3>1, <1>4
  <2> QED BY <2>1, <1>5
<1>8. a <= p /\ p + 1 <= a + c
  BY <1>5, <1>6, <1>7
<1>9. a * n <= p * n /\ (p + 1) * n <= (a + c) * n
  BY <1>4, <1>5, <1>8
<1> QED BY <1>1, <1>5, <1>9

(* A range and its buddy, b, make up a range of the next order, p. *)
LEMMA BuddyGives ==
  ASSUME NEW r, Sited(r)
  PROVE  LET b == BuddyOf(r.first, r.order)
             p == IF b < r.first THEN b ELSE r.first
             n == Span(r.order)
         IN  /\ b \in Nat /\ Aligned(b, r.order) /\ p \in Nat /\ Aligned(p, r.order + 1)
             /\ \/ p = r.first /\ b = r.first + n
                \/ p = b /\ r.first = b + n
             /\ BuddyOf(b, r.order) = r.first
<1> DEFINE b == BuddyOf(r.first, r.order)
           n == Span(r.order)
<1>1. n = Span(r.order) /\ n \in Nat /\ n > 0 /\ Span(r.order + 1) = 2 * n /\ r.first \in Nat /\ r.order \in Nat
      /\ r.order + 1 \in Nat
  BY SpanPositive, SpanStep DEF Sited
<1>2. PICK q \in Nat : r.first = q * n
  BY AlignedIs DEF Sited
<1>3. CASE Aligned(r.first, r.order + 1)
  <2>1. b = r.first + n
    BY <1>3 DEF BuddyOf
  <2>2. b = (q + 1) * n /\ q + 1 \in Nat
    BY <1>1, <1>2, <2>1
  <2>3. b \in Nat /\ Aligned(b, r.order)
    <3>1. b \in Nat
      BY <1>1, <2>1
    <3> HIDE DEF b
    <3> QED BY <3>1, <2>2, <1>1, AlignedIs
  <2>4. ~Aligned(b, r.order + 1)
    <3>1. PICK t \in Nat : r.first = t * (2 * n)
      BY <1>1, <1>3, AlignedIs
    <3>2. ASSUME NEW u \in Nat, b = u * (2 * n) PROVE FALSE
      <4>1. (2 * u) * n = (2 * t + 1) * n
        BY <1>1, <2>1, <3>1, <3>2
      <4>2. 2 * u = 2 * t + 1
        <5>1. CASE 2 * u < 2 * t + 1
          <6>1. (2 * u + 1) * n <= (2 * t + 1) * n
            BY <1>1, <5>1
          <6> QED BY <1>1, <4>1, <6>1
        <5>2. CASE 2 * u > 2 * t + 1
          <6>1. (2 * t + 2) * n <= (2 * u) * n
            BY <1>1, <5>2
          <6> QED BY <1>1, <4>1, <6>1
        <5> QED BY <5>1, <5>2
      <4> QED BY <3>1, <3>2, <4>2
    <3> HIDE DEF b, n
    <3> QED BY <1>1, <2>3, <3>2, AlignedIs
  <2>5. BuddyOf(b, r.order) = r.first
    BY <1>1, <2>1, <2>4 DEF BuddyOf
  <2> QED BY <1>1, <1>3, <2>1, <2>3, <2>5
<1>4. CASE ~Aligned(r.first, r.order + 1)
  <2>1. b = r.first - n
    BY <1>4 DEF BuddyOf
  <2>2. PICK t \in Nat : q = 2 * t + 1
    <3>1. \E t \in Nat : q = 2 * t \/ q = 2 * t + 1
      <4>1. q \div 2 \in Nat /\ (q = 2 * (q \div 2) \/ q = 2 * (q \div 2) + 1)
        OBVIOUS
      <4> QED BY <4>1
    <3>2. ASSUME NEW t \in Nat, q = 2 * t PROVE FALSE
      <4>1. r.first = t * (2 * n)
        BY <1>1, <1>2, <3>2
      <4> HIDE DEF n
      <4> QED BY <1>1, <1>4, <4>1, AlignedIs
    <3> QED BY <3>1, <3>2
  <2>3. b = t * (2 * n) /\ b = (2 * t) * n
    BY <1>1, <1>2, <2>1, <2>2
  <2>4. b \in Nat
    BY <1>1, <2>3
  <2>5. Aligned(b, r.order + 1) /\ Aligned(b, r.order)
    <3>1. 2 * t \in Nat
      OBVIOUS
    <3> HIDE DEF b, n
    <3> QED BY <1>1, <2>3, <2>4, <3>1, AlignedIs
  <2>6. BuddyOf(b, r.order) = r.first
    BY <1>1, <2>1, <2>5 DEF BuddyOf
  <2> QED BY <1>1, <2>1, <2>4, <2>5, <2>6
<1> QED BY <1>3, <1>4

-----------------------------------------------------------------------------
\* The fields of a pool, the functions among them on their domains.
PoolShape(p) ==
  /\ p = [map |-> p.map, freeList |-> p.freeList, freeBytes |-> p.freeBytes,
          head |-> p.head, tail |-> p.tail]
  /\ DOMAIN p.freeList = Orders
  /\ p.head = [b \in Blocks |-> p.head[b]] /\ p.tail = [b \in Blocks |-> p.tail[b]]
  /\ p.freeList = [k \in Orders |-> p.freeList[k]]

(* What Push and Unlink leave, field by field. *)
LEMMA PushIs ==
  ASSUME NEW p, PoolShape(p), NEW b \in Blocks, NEW k \in Orders,
         \/ p.freeList[k] = Null
         \/ p.freeList[k] \in Blocks /\ p.freeList[k] # b /\ p.head[p.freeList[k]] \in Links
  PROVE  LET q == Push(p, b, k)
             next == p.freeList[k]
         IN  /\ PoolShape(q) /\ q.map = p.map /\ q.freeBytes = p.freeBytes
             /\ q.freeList = [p.freeList EXCEPT ![k] = b]
             /\ q.tail = [p.tail EXCEPT ![b + Span(k) - 1] = k]
             /\ \A x \in Blocks :
                  q.head[x] = IF x = b THEN Link(Null, next)
                              ELSE IF x = next THEN Link(b, p.head[next].next)
                              ELSE p.head[x]
<1> DEFINE next == p.freeList[k]
           e == b + Span(k) - 1
           o == [p EXCEPT !.head[b] = Link(Null, next), !.tail[e] = k, !.freeList[k] = b]
           q == Push(p, b, k)
<1>1. q = SetPrev(o, next, b)
  BY DEF Push
<1>2. /\ o = [map |-> p.map, freeList |-> [p.freeList EXCEPT ![k] = b], freeBytes |-> p.freeBytes,
              head |-> [p.head EXCEPT ![b] = Link(Null, next)], tail |-> [p.tail EXCEPT ![e] = k]]
  <2> DEFINE l == Link(Null, next)
             o1 == [p EXCEPT !.head[b] = l]
             o2 == [o1 EXCEPT !.tail[e] = k]
             o3 == [o2 EXCEPT !.freeList[k] = b]
  <2>1. o = o3
    BY DEF PoolShape
  <2> HIDE DEF l, e
  <2>2. o1 = [map |-> p.map, freeList |-> p.freeList, freeBytes |-> p.freeBytes,
              head |-> [p.head EXCEPT ![b] = l], tail |-> p.tail]
    BY DEF PoolShape
  <2> HIDE DEF o1
  <2>3. o2 = [map |-> p.map, freeList |-> p.freeList, freeBytes |-> p.freeBytes,
              head |-> [p.head EXCEPT ![b] = l], tail |-> [p.tail EXCEPT ![e] = k]]
    BY <2>2
  <2> HIDE DEF o2
  <2>4. o3 = [map |-> p.map, freeList |-> [p.freeList EXCEPT ![k] = b], freeBytes |-> p.freeBytes,
              head |-> [p.head EXCEPT ![b] = l], tail |-> [p.tail EXCEPT ![e] = k]]
    BY <2>3
  <2> QED BY <2>1, <2>4 DEF l, e
<1> HIDE DEF o, q
<1>3. PoolShape(o)
  BY <1>2 DEF PoolShape
<1>4. CASE next = Null
  <2>1. q = o
    BY <1>1, <1>4, SMTT(60) DEF SetPrev
  <2> QED BY <1>2, <1>3, <1>4, <2>1, NullAssumption DEF PoolShape, q
<1>5. CASE next \in Blocks /\ next # b /\ p.head[next] \in Links
  <2>1. q = [o EXCEPT !.head[next].prev = b]
    BY <1>1, <1>5, NullAssumption DEF SetPrev
  <2>2. q = [o EXCEPT !.head = [o.head EXCEPT ![next] = [o.head[next] EXCEPT !.prev = b]]]
    BY <2>1, <1>3, <1>5 DEF PoolShape
  <2>3. o.head[next] = p.head[next]
    BY <1>2, <1>3, <1>5 DEF PoolShape
  <2>4. PICK u, v : p.head[next] = Link(u, v)
    BY <1>5 DEF Links
  <2>5. [o.head[next] EXCEPT !.prev = b] = Link(b, p.head[next].next)
    BY <2>3, <2>4 DEF Link
  <2>6. q = [o EXCEPT !.head = [o.head EXCEPT ![next] = Link(b, p.head[next].next)]]
    BY <2>2, <2>5
  <2>7. q = [map |-> o.map, freeList |-> o.freeList, freeBytes |-> o.freeBytes,
             head |-> [o.head EXCEPT ![next] = Link(b, p.head[next].next)], tail |-> o.tail]
    BY <2>6, <1>3 DEF PoolShape
  <2>8. PoolShape(q)
    BY <2>7, <1>3 DEF PoolShape
  <2>9. /\ q.map = p.map /\ q.freeBytes = p.freeBytes
        /\ q.freeList = [p.freeList EXCEPT ![k] = b]
        /\ q.tail = [p.tail EXCEPT ![e] = k]
    BY <1>2, <2>7
  <2>10. ASSUME NEW x \in Blocks
         PROVE  q.head[x] = IF x = b THEN Link(Null, next)
                            ELSE IF x = next THEN Link(b, p.head[next].next)
                            ELSE p.head[x]
    <3> DEFINE l == Link(Null, next)
               m == Link(b, p.head[next].next)
    <3>1. DOMAIN p.head = Blocks /\ DOMAIN o.head = Blocks
      BY <1>3 DEF PoolShape
    <3> HIDE DEF l, m
    <3>2. o.head = [p.head EXCEPT ![b] = l] /\ q.head = [o.head EXCEPT ![next] = m]
      BY <1>2, <2>7 DEF l, m
    <3>3. q.head[x] = IF x = b THEN l ELSE IF x = next THEN m ELSE p.head[x]
      BY <3>1, <3>2, <1>5
    <3> QED BY <3>3 DEF l, m
  <2> QED BY <2>8, <2>9, <2>10 DEF q, e, next
<1> QED BY <1>4, <1>5

(* Unlink changes the two neighbours, and the first of the list when there *)
(* is no range before.                                                     *)
LEMMA UnlinkIs ==
  ASSUME NEW p, PoolShape(p), NEW b \in Blocks, NEW k \in Orders,
         NEW prev, NEW next, p.head[b] = Link(prev, next),
         prev = Null \/ (prev \in Blocks /\ p.head[prev] \in Links),
         next = Null \/ (next \in Blocks /\ p.head[next] \in Links),
         prev # next \/ prev = Null
  PROVE  LET q == Unlink(p, b, k)
         IN  /\ PoolShape(q) /\ q.map = p.map /\ q.freeBytes = p.freeBytes /\ q.tail = p.tail
             /\ q.freeList = IF prev = Null THEN [p.freeList EXCEPT ![k] = next] ELSE p.freeList
             /\ \A x \in Blocks :
                  q.head[x] = IF x = next THEN Link(prev, p.head[next].next)
                              ELSE IF x = prev THEN Link(p.head[prev].prev, next)
                              ELSE p.head[x]
<1> DEFINE o == SetPrev(p, next, prev)
           q == Unlink(p, b, k)
<1>1. p.head[b].prev = prev /\ p.head[b].next = next
  BY DEF Link
<1>2. q = IF prev = Null THEN [o EXCEPT !.freeList[k] = next] ELSE SetNext(o, prev, next)
  BY <1>1 DEF Unlink
<1>3. /\ PoolShape(o) /\ o.map = p.map /\ o.freeBytes = p.freeBytes /\ o.tail = p.tail
      /\ o.freeList = p.freeList
      /\ \A x \in Blocks : o.head[x] = IF x = next THEN Link(prev, p.head[next].next) ELSE p.head[x]
  <2>1. CASE next = Null
    BY <2>1, NullAssumption DEF SetPrev
  <2>2. CASE next # Null
    <3>1. next \in Blocks /\ p.head[next] \in Links
      BY <2>2
    <3>2. PICK u, v : p.head[next] = Link(u, v)
      BY <3>1 DEF Links
    <3>3. [p.head[next] EXCEPT !.prev = prev] = Link(prev, p.head[next].next)
      BY <3>2 DEF Link
    <3>4. o = [p EXCEPT !.head = [p.head EXCEPT ![next] = [p.head[next] EXCEPT !.prev = prev]]]
      BY <2>2, <3>1 DEF SetPrev, PoolShape
    <3>5. o = [map |-> p.map, freeList |-> p.freeList, freeBytes |-> p.freeBytes,
               head |-> [p.head EXCEPT ![next] = Link(prev, p.head[next].next)], tail |-> p.tail]
      BY <3>3, <3>4 DEF PoolShape
    <3> HIDE DEF o
    <3>6. PoolShape(o)
      BY <3>5 DEF PoolShape
    <3> QED BY <3>5, <3>6, <3>1 DEF PoolShape
  <2> QED BY <2>1, <2>2
<1> HIDE DEF o, q
<1>4. CASE prev = Null
  <2>1. q = [map |-> o.map, freeList |-> [o.freeList EXCEPT ![k] = next], freeBytes |-> o.freeBytes,
             head |-> o.head, tail |-> o.tail]
    BY <1>2, <1>3, <1>4 DEF PoolShape
  <2>2. PoolShape(q)
    BY <2>1, <1>3 DEF PoolShape
  <2> QED BY <1>3, <1>4, <2>1, <2>2, NullAssumption DEF q
<1>5. CASE prev # Null
  <2>1. prev \in Blocks /\ p.head[prev] \in Links /\ prev # next
    BY <1>5
  <2>2. PICK u, v : p.head[prev] = Link(u, v)
    BY <2>1 DEF Links
  <2>3. o.head[prev] = p.head[prev]
    BY <1>3, <2>1
  <2>4. [o.head[prev] EXCEPT !.next = next] = Link(p.head[prev].prev, next)
    BY <2>2, <2>3 DEF Link
  <2>5. q = [o EXCEPT !.head = [o.head EXCEPT ![prev] = [o.head[prev] EXCEPT !.next = next]]]
    BY <1>2, <1>3, <1>5, <2>1 DEF SetNext, PoolShape
  <2>6. q = [map |-> o.map, freeList |-> o.freeList, freeBytes |-> o.freeBytes,
             head |-> [o.head EXCEPT ![prev] = Link(p.head[prev].prev, next)], tail |-> o.tail]
    BY <2>4, <2>5, <1>3 DEF PoolShape
  <2>7. PoolShape(q)
    BY <2>6, <1>3 DEF PoolShape
  <2> QED BY <1>3, <1>5, <2>1, <2>6, <2>7 DEF PoolShape, q
<1> QED BY <1>4, <1>5

-----------------------------------------------------------------------------
(* A free list as a sequence.                                              *)

\* The first range of a list, or null.
Leader(l) == IF Len(l) = 0 THEN Null ELSE l[1]
Before(l, i) == IF i = 1 THEN Null ELSE l[i - 1]
After(l, i) == IF i = Len(l) THEN Null ELSE l[i + 1]
Ahead(b, l) == [i \in 1..(Len(l) + 1) |-> IF i = 1 THEN b ELSE l[i - 1]]
Without(l, n) == [i \in 1..(Len(l) - 1) |-> IF i < n THEN l[i] ELSE l[i + 1]]
End(b, k) == b + Span(k) - 1

(* The list of order k holds the ranges l, linked both ways, each with its *)
(* order at its end.                                                       *)
Chain(p, k, l) ==
  /\ l \in Seq(Blocks)
  /\ p.freeList[k] = Leader(l)
  /\ \A i \in 1..Len(l) : /\ p.head[l[i]] = Link(Before(l, i), After(l, i))
                          /\ End(l[i], k) \in Blocks /\ p.tail[End(l[i], k)] = k

\* No range is in two places.
Apart(L) ==
  \A k, j \in Orders : \A i \in 1..Len(L[k]), n \in 1..Len(L[j]) :
    L[k][i] = L[j][n] => k = j /\ i = n

\* L gives the list of every order.
Listing(p, L) ==
  /\ PoolShape(p) /\ L = [k \in Orders |-> L[k]]
  /\ \A k \in Orders : Chain(p, k, L[k])
  /\ Apart(L)

\* A list with one more range in front.
LEMMA AheadIs ==
  ASSUME NEW l \in Seq(Blocks), NEW b \in Blocks
  PROVE  /\ Ahead(b, l) \in Seq(Blocks) /\ Len(Ahead(b, l)) = Len(l) + 1 /\ Len(l) \in Nat
         /\ Ahead(b, l)[1] = b
         /\ \A i \in 1..Len(l) : Ahead(b, l)[i + 1] = l[i]
         /\ \A i \in 2..(Len(l) + 1) : Ahead(b, l)[i] = l[i - 1]
<1>1. Len(l) \in Nat /\ \A i \in 1..Len(l) : l[i] \in Blocks
  OBVIOUS
<1> DEFINE n == Len(l) + 1
           m == [i \in 1..n |-> IF i = 1 THEN b ELSE l[i - 1]]
<1>2. m \in [1..n -> Blocks] /\ n \in Nat
  BY <1>1
<1>3. m \in Seq(Blocks) /\ Len(m) = n
  BY <1>2
<1>4. m = Ahead(b, l)
  BY DEF Ahead
<1> QED BY <1>1, <1>3, <1>4 DEF Ahead

\* A list without its n-th range.
LEMMA WithoutIs ==
  ASSUME NEW l \in Seq(Blocks), NEW n \in 1..Len(l)
  PROVE  /\ Without(l, n) \in Seq(Blocks) /\ Len(Without(l, n)) = Len(l) - 1 /\ Len(l) \in Nat
         /\ \A i \in 1..(Len(l) - 1) : Without(l, n)[i] = IF i < n THEN l[i] ELSE l[i + 1]
<1>1. Len(l) \in Nat /\ \A i \in 1..Len(l) : l[i] \in Blocks
  OBVIOUS
<1> DEFINE t == Len(l) - 1
           m == [i \in 1..t |-> IF i < n THEN l[i] ELSE l[i + 1]]
<1>2. m \in [1..t -> Blocks] /\ t \in Nat
  BY <1>1
<1>3. m \in Seq(Blocks) /\ Len(m) = t
  BY <1>2
<1>4. m = Without(l, n)
  BY DEF Without
<1> QED BY <1>1, <1>3, <1>4 DEF Without

(* A list as seen from one of its ranges. *)
LEMMA Neighbours ==
  ASSUME NEW p, NEW L, Listing(p, L), NEW k \in Orders, NEW i \in 1..Len(L[k])
  PROVE  /\ L[k][i] \in Blocks /\ Len(L[k]) \in Nat /\ p.head[L[k][i]] \in Links
         /\ \/ i = 1 /\ Before(L[k], i) = Null
            \/ /\ i > 1 /\ i - 1 \in 1..Len(L[k]) /\ Before(L[k], i) = L[k][i - 1]
               /\ Before(L[k], i) \in Blocks
         /\ \/ i = Len(L[k]) /\ After(L[k], i) = Null
            \/ /\ i < Len(L[k]) /\ i + 1 \in 1..Len(L[k]) /\ After(L[k], i) = L[k][i + 1]
               /\ After(L[k], i) \in Blocks
<1>1. L[k] \in Seq(Blocks) /\ Len(L[k]) \in Nat
      /\ p.head[L[k][i]] = Link(Before(L[k], i), After(L[k], i))
  BY DEF Listing, Chain
<1>2. \A n \in 1..Len(L[k]) : L[k][n] \in Blocks
  BY <1>1
<1>3. /\ \/ i = 1 /\ Before(L[k], i) = Null
         \/ /\ i > 1 /\ i - 1 \in 1..Len(L[k]) /\ Before(L[k], i) = L[k][i - 1]
            /\ Before(L[k], i) \in Blocks
      /\ \/ i = Len(L[k]) /\ After(L[k], i) = Null
         \/ /\ i < Len(L[k]) /\ i + 1 \in 1..Len(L[k]) /\ After(L[k], i) = L[k][i + 1]
            /\ After(L[k], i) \in Blocks
  BY <1>1, <1>2 DEF Before, After
<1>4. Link(Before(L[k], i), After(L[k], i)) \in Links
  <2>1. Before(L[k], i) \in Blocks \cup {Null} /\ After(L[k], i) \in Blocks \cup {Null}
    BY <1>3
  <2> QED BY <2>1 DEF Links
<1> QED BY <1>1, <1>2, <1>3, <1>4

\* A block no range of a list begins with.
Unlisted(L, y) == \A j \in Orders : \A i \in 1..Len(L[j]) : L[j][i] # y

(* A range that is in no list enters one. *)
LEMMA PushLists ==
  ASSUME NEW p, NEW L, Listing(p, L), NEW b \in Blocks, NEW k \in Orders, End(b, k) \in Blocks,
         \A j \in Orders : \A i \in 1..Len(L[j]) : L[j][i] # b /\ End(L[j][i], j) # End(b, k)
  PROVE  LET q == Push(p, b, k)
         IN  /\ Listing(q, [L EXCEPT ![k] = Ahead(b, L[k])])
             /\ q.map = p.map /\ q.freeBytes = p.freeBytes
             /\ q.tail = [p.tail EXCEPT ![End(b, k)] = k]
             /\ \A y \in Blocks : Unlisted(L, y) /\ y # b => q.head[y] = p.head[y]
<1> DEFINE q == Push(p, b, k)
           M == [L EXCEPT ![k] = Ahead(b, L[k])]
           next == p.freeList[k]
<1>1. next = Leader(L[k]) /\ L[k] \in Seq(Blocks) /\ PoolShape(p) /\ Len(L[k]) \in Nat
  BY DEF Listing, Chain
<1>2. \/ next = Null /\ Len(L[k]) = 0
      \/ /\ next \in Blocks /\ next # b /\ p.head[next] \in Links /\ Len(L[k]) > 0 /\ next = L[k][1]
         /\ p.head[next].next = After(L[k], 1)
  <2>1. CASE Len(L[k]) = 0
    BY <1>1, <2>1 DEF Leader
  <2>2. CASE Len(L[k]) # 0
    <3>1. 1 \in 1..Len(L[k]) /\ next = L[k][1]
      BY <1>1, <2>2 DEF Leader
    <3>2. p.head[next] = Link(Before(L[k], 1), After(L[k], 1))
      BY <3>1 DEF Listing, Chain
    <3>3. next \in Blocks /\ p.head[next] \in Links
      BY <3>1, Neighbours
    <3>4. p.head[next].next = After(L[k], 1)
      BY <3>2 DEF Link
    <3>5. next # b
      BY <3>1
    <3> HIDE DEF next
    <3> QED BY <2>2, <3>1, <3>3, <3>4, <3>5, <1>1
  <2> QED BY <2>1, <2>2
<1>3. /\ PoolShape(q) /\ q.map = p.map /\ q.freeBytes = p.freeBytes
      /\ q.freeList = [p.freeList EXCEPT ![k] = b]
      /\ q.tail = [p.tail EXCEPT ![End(b, k)] = k]
      /\ \A x \in Blocks : q.head[x] = IF x = b THEN Link(Null, next)
                                       ELSE IF x = next THEN Link(b, p.head[next].next)
                                       ELSE p.head[x]
  <2>1. \/ p.freeList[k] = Null
        \/ p.freeList[k] \in Blocks /\ p.freeList[k] # b /\ p.head[p.freeList[k]] \in Links
    BY <1>2
  <2>2. PoolShape(p) /\ End(b, k) = b + Span(k) - 1
    BY <1>1 DEF End
  <2>3. /\ PoolShape(q) /\ q.map = p.map /\ q.freeBytes = p.freeBytes
        /\ q.freeList = [p.freeList EXCEPT ![k] = b]
        /\ q.tail = [p.tail EXCEPT ![b + Span(k) - 1] = k]
        /\ \A x \in Blocks : q.head[x] = IF x = b THEN Link(Null, next)
                                         ELSE IF x = next THEN Link(b, p.head[next].next)
                                         ELSE p.head[x]
    BY <2>1, <2>2, PushIs, SMTT(60)
  <2> HIDE DEF q, next
  <2> QED BY <2>2, <2>3
<1> HIDE DEF q, next
<1>4. /\ M = [j \in Orders |-> M[j]]
      /\ \A j \in Orders : M[j] = IF j = k THEN Ahead(b, L[k]) ELSE L[j]
  BY DEF Listing
<1>5. /\ Ahead(b, L[k]) \in Seq(Blocks) /\ Len(Ahead(b, L[k])) = Len(L[k]) + 1
      /\ Ahead(b, L[k])[1] = b
      /\ \A i \in 2..(Len(L[k]) + 1) : Ahead(b, L[k])[i] = L[k][i - 1]
  BY <1>1, AheadIs, ZenonT(60)
<1> HIDE DEF M
<1>6. Apart(L)
  BY DEF Listing
<1>7. ASSUME NEW j \in Orders, j # k PROVE Chain(q, j, M[j])
  <2>1. M[j] = L[j] /\ Chain(p, j, L[j])
    BY <1>4, <1>7 DEF Listing
  <2>2. q.freeList[j] = Leader(L[j])
    BY <2>1, <1>3, <1>1, <1>7 DEF Chain, PoolShape
  <2>3. ASSUME NEW i \in 1..Len(L[j])
        PROVE  /\ q.head[L[j][i]] = Link(Before(L[j], i), After(L[j], i))
               /\ End(L[j][i], j) \in Blocks /\ q.tail[End(L[j][i], j)] = j
    <3>1. L[j][i] \in Blocks /\ L[j][i] # b /\ End(L[j][i], j) # End(b, k)
      BY <2>1 DEF Chain
    <3>2. L[j][i] # next
      BY <1>2, <1>6, <1>7, <3>1, NullAssumption, <1>1 DEF Apart
    <3> QED BY <1>1, <1>3, <2>1, <3>1, <3>2 DEF Chain, PoolShape
  <2> QED BY <2>1, <2>2, <2>3 DEF Chain
<1>8. Chain(q, k, M[k])
  <2> DEFINE m == Ahead(b, L[k])
  <2>1. M[k] = m /\ q.freeList[k] = Leader(m) /\ Chain(p, k, L[k])
    BY <1>1, <1>3, <1>4, <1>5 DEF Leader, PoolShape, Listing
  <2>2. ASSUME NEW i \in 1..Len(m)
        PROVE  /\ q.head[m[i]] = Link(Before(m, i), After(m, i))
               /\ End(m[i], k) \in Blocks /\ q.tail[End(m[i], k)] = k
    <3> HIDE DEF m
    <3>0. Len(m) = Len(L[k]) + 1 /\ m[1] = b /\ \A n \in 2..(Len(L[k]) + 1) : m[n] = L[k][n - 1]
      BY <1>5 DEF m
    <3>1. CASE i = 1
      <4>1. m[1] = b /\ q.head[b] = Link(Null, next) /\ Before(m, 1) = Null
        BY <3>0, <1>3 DEF Before
      <4>2. After(m, 1) = next
        <5>1. CASE Len(L[k]) = 0
          BY <5>1, <1>2, <3>0 DEF After
        <5>2. CASE Len(L[k]) # 0
          BY <5>2, <1>1, <1>2, <3>0 DEF After
        <5> QED BY <5>1, <5>2
      <4> QED BY <3>1, <4>1, <4>2, <1>3, <1>1 DEF PoolShape
    <3>2. CASE i > 1
      <4>1. i - 1 \in 1..Len(L[k]) /\ m[i] = L[k][i - 1] /\ i \in 2..(Len(L[k]) + 1)
        BY <1>1, <3>0, <3>2
      <4>2. L[k][i - 1] \in Blocks /\ L[k][i - 1] # b /\ End(L[k][i - 1], k) # End(b, k)
        BY <4>1, <1>1
      <4>3. /\ p.head[m[i]] = Link(Before(L[k], i - 1), After(L[k], i - 1))
            /\ End(m[i], k) \in Blocks /\ p.tail[End(m[i], k)] = k
        BY <2>1, <4>1 DEF Chain
      <4>4. After(L[k], i - 1) = After(m, i)
        <5>1. CASE i = Len(m)
          BY <5>1, <4>1, <3>0, <1>1 DEF After
        <5>2. CASE i # Len(m)
          <6>1. i + 1 \in 2..(Len(L[k]) + 1) /\ (i - 1) + 1 = i /\ (i + 1) - 1 = i
            BY <5>2, <3>0, <4>1, <1>1, SMTT(60)
          <6> QED BY <5>2, <6>1, <4>1, <3>0, <1>1 DEF After
        <5> QED BY <5>1, <5>2
      <4>5. q.tail[End(m[i], k)] = k
        BY <1>3, <1>1, <4>1, <4>2, <4>3 DEF PoolShape
      <4>6. CASE i = 2
        <5>1. next = L[k][1] /\ m[2] = next /\ next # b /\ next \in Blocks
          BY <1>2, <4>1, <4>2, <4>6
        <5>2. q.head[next] = Link(b, p.head[next].next)
          BY <5>1, <1>3
        <5>3. Before(m, 2) = b /\ p.head[next].next = After(m, 2)
          BY <4>6, <4>4, <3>0, <1>2, <5>1, NullAssumption DEF Before
        <5> QED BY <4>3, <4>5, <4>6, <5>1, <5>2, <5>3
      <4>7. CASE i > 2
        <5>1. m[i] # next
          <6>1. CASE Len(L[k]) = 0
            BY <6>1, <4>1
          <6>2. CASE Len(L[k]) # 0
            <7>1. next = L[k][1] /\ 1 \in 1..Len(L[k]) /\ i - 1 # 1
              BY <6>2, <1>2, <1>1, <4>7
            <7> QED BY <7>1, <4>1, <1>6 DEF Apart
          <6> QED BY <6>1, <6>2
        <5>2. q.head[m[i]] = p.head[m[i]]
          BY <5>1, <4>1, <4>2, <1>3
        <5>3. Before(L[k], i - 1) = Before(m, i)
          <6>1. i - 1 # 1 /\ i # 1 /\ i - 1 \in 2..(Len(L[k]) + 1)
            BY <4>7, <4>1, <1>1
          <6> QED BY <6>1, <3>0 DEF Before
        <5> QED BY <4>3, <4>4, <4>5, <5>2, <5>3
      <4> QED BY <3>2, <4>6, <4>7
    <3> QED BY <3>1, <3>2
  <2> HIDE DEF m
  <2>3. m \in Seq(Blocks)
    BY <1>5 DEF m
  <2> QED BY <2>1, <2>2, <2>3 DEF Chain
<1>9. Apart(M)
  <2>1. ASSUME NEW j \in Orders, NEW i \in 1..Len(M[j])
        PROVE  \/ j = k /\ i = 1 /\ M[j][i] = b
               \/ /\ j = k /\ i > 1 /\ i - 1 \in 1..Len(L[j]) /\ M[j][i] = L[j][i - 1] /\ M[j][i] # b
               \/ j # k /\ i \in 1..Len(L[j]) /\ M[j][i] = L[j][i] /\ M[j][i] # b
    <3>1. CASE j = k
      <4>1. M[j] = Ahead(b, L[k]) /\ i \in 1..(Len(L[k]) + 1)
        BY <1>4, <1>5, <3>1
      <4>2. CASE i = 1
        BY <4>1, <4>2, <3>1, <1>5
      <4>3. CASE i # 1
        <5>1. i \in 2..(Len(L[k]) + 1) /\ i - 1 \in 1..Len(L[k]) /\ i > 1
          BY <4>1, <4>3, <1>1
        <5> QED BY <5>1, <4>1, <3>1, <1>5
      <4> QED BY <4>2, <4>3
    <3>2. CASE j # k
      BY <3>2, <1>4
    <3> QED BY <3>1, <3>2
  <2>2. ASSUME NEW j \in Orders, NEW g \in Orders, NEW i \in 1..Len(M[j]), NEW n \in 1..Len(M[g]),
               M[j][i] = M[g][n]
        PROVE  j = g /\ i = n
    <3>1. i \in Int /\ n \in Int
      OBVIOUS
    <3>2. /\ \/ j = k /\ i = 1 /\ M[j][i] = b
             \/ j = k /\ i > 1 /\ i - 1 \in 1..Len(L[j]) /\ M[j][i] = L[j][i - 1] /\ M[j][i] # b
             \/ j # k /\ i \in 1..Len(L[j]) /\ M[j][i] = L[j][i] /\ M[j][i] # b
          /\ \/ g = k /\ n = 1 /\ M[g][n] = b
             \/ g = k /\ n > 1 /\ n - 1 \in 1..Len(L[g]) /\ M[g][n] = L[g][n - 1] /\ M[g][n] # b
             \/ g # k /\ n \in 1..Len(L[g]) /\ M[g][n] = L[g][n] /\ M[g][n] # b
      BY <2>1
    <3>3. CASE j = k /\ g = k
      BY <2>2, <1>6, <3>1, <3>2, <3>3 DEF Apart
    <3>4. CASE j # k \/ g # k
      BY <2>2, <1>6, <3>1, <3>2, <3>4, SMTT(60) DEF Apart
    <3> QED BY <3>3, <3>4
  <2> QED BY <2>2 DEF Apart
<1>10. Listing(q, M)
  BY <1>3, <1>4, <1>7, <1>8, <1>9 DEF Listing
<1>11. ASSUME NEW y \in Blocks, Unlisted(L, y), y # b PROVE q.head[y] = p.head[y]
  <2>1. y # next
    <3>1. CASE next = Null
      BY <3>1, NullAssumption
    <3>2. CASE Len(L[k]) > 0 /\ next = L[k][1]
      <4>1. 1 \in 1..Len(L[k])
        BY <1>1, <3>2
      <4> QED BY <1>11, <3>2, <4>1 DEF Unlisted
    <3> QED BY <1>2, <3>1, <3>2
  <2> HIDE DEF next, q
  <2> QED BY <1>3, <1>11, <2>1
<1> QED BY <1>3, <1>10, <1>11 DEF q, M

-----------------------------------------------------------------------------
(* A range leaves its list. *)
LEMMA UnlinkLists ==
  ASSUME NEW p, NEW L, Listing(p, L), NEW k \in Orders, NEW n \in 1..Len(L[k])
  PROVE  LET b == L[k][n]
             q == Unlink(p, b, k)
         IN  /\ ~BadLinks(p, b) /\ p.head[b].prev = Before(L[k], n)
             /\ Listing(q, [L EXCEPT ![k] = Without(L[k], n)])
             /\ q.map = p.map /\ q.freeBytes = p.freeBytes /\ q.tail = p.tail
             /\ \A y \in Blocks : Unlisted(L, y) => q.head[y] = p.head[y]
<1> DEFINE b == L[k][n]
           q == Unlink(p, b, k)
           l == L[k]
           m == Without(l, n)
           M == [L EXCEPT ![k] = m]
           prev == Before(l, n)
           next == After(l, n)
<1>1. /\ b \in Blocks /\ Len(l) \in Nat /\ p.head[b] \in Links /\ p.head[b] = Link(prev, next)
      /\ l \in Seq(Blocks) /\ n \in Nat /\ n >= 1 /\ n <= Len(l) /\ b = l[n]
  BY Neighbours DEF Listing, Chain
<1>2. /\ \/ n = 1 /\ prev = Null
         \/ n > 1 /\ n - 1 \in 1..Len(l) /\ prev = l[n - 1] /\ prev \in Blocks
      /\ \/ n = Len(l) /\ next = Null
         \/ n < Len(l) /\ n + 1 \in 1..Len(l) /\ next = l[n + 1] /\ next \in Blocks
  BY Neighbours
<1>3. Apart(L) /\ PoolShape(p) /\ Chain(p, k, l)
  BY DEF Listing
<1>4. /\ m \in Seq(Blocks) /\ Len(m) = Len(l) - 1
      /\ \A i \in 1..(Len(l) - 1) : m[i] = IF i < n THEN l[i] ELSE l[i + 1]
  BY <1>1, WithoutIs
<1>5. /\ M = [j \in Orders |-> M[j]]
      /\ \A j \in Orders : M[j] = IF j = k THEN m ELSE L[j]
  BY DEF Listing
<1>6. \A i \in 1..Len(l) : /\ p.head[l[i]] = Link(Before(l, i), After(l, i)) /\ l[i] \in Blocks
                           /\ p.head[l[i]] \in Links
  BY Neighbours, <1>3 DEF Chain
<1>7. \A i, j \in 1..Len(l) : l[i] = l[j] => i = j
  BY <1>3 DEF Apart
<1>8. prev # next \/ prev = Null
  <2>1. CASE n > 1 /\ n < Len(l)
    <3>1. n - 1 # n + 1
      BY <1>1
    <3> QED BY <2>1, <3>1, <1>2, <1>7
  <2> QED BY <2>1, <1>1, <1>2, NullAssumption
<1> HIDE DEF l, m, M, prev, next
<1>9. /\ prev = Null \/ (prev \in Blocks /\ p.head[prev] \in Links)
      /\ next = Null \/ (next \in Blocks /\ p.head[next] \in Links)
  <2>1. ASSUME prev # Null PROVE prev \in Blocks /\ p.head[prev] \in Links
    <3>1. n - 1 \in 1..Len(l) /\ prev = l[n - 1]
      BY <1>2, <2>1
    <3> QED BY <3>1, <1>6
  <2>2. ASSUME next # Null PROVE next \in Blocks /\ p.head[next] \in Links
    <3>1. n + 1 \in 1..Len(l) /\ next = l[n + 1]
      BY <1>2, <2>2
    <3> QED BY <3>1, <1>6
  <2> QED BY <2>1, <2>2
<1>10. /\ PoolShape(q) /\ q.map = p.map /\ q.freeBytes = p.freeBytes /\ q.tail = p.tail
       /\ q.freeList = IF prev = Null THEN [p.freeList EXCEPT ![k] = next] ELSE p.freeList
       /\ \A x \in Blocks :
            q.head[x] = IF x = next THEN Link(prev, p.head[next].next)
                        ELSE IF x = prev THEN Link(p.head[prev].prev, next)
                        ELSE p.head[x]
  <2> HIDE DEF b, q
  <2>1. PoolShape(p) /\ p.head[b] = Link(prev, next) /\ b \in Blocks
    BY <1>1, <1>3
  <2>2. q = Unlink(p, b, k)
    BY DEF q
  <2> QED BY <2>1, <2>2, <1>8, <1>9, UnlinkIs
<1>11. /\ prev # Null => p.head[prev] = Link(Before(l, n - 1), b)
       /\ next # Null => p.head[next] = Link(b, After(l, n + 1))
  <2>1. ASSUME prev # Null PROVE p.head[prev] = Link(Before(l, n - 1), b)
    <3>1. n - 1 \in 1..Len(l) /\ prev = l[n - 1] /\ n - 1 # Len(l) /\ (n - 1) + 1 = n
      BY <2>1, <1>1, <1>2
    <3>2. After(l, n - 1) = l[n]
      BY <3>1 DEF After
    <3>3. p.head[l[n - 1]] = Link(Before(l, n - 1), After(l, n - 1))
      BY <3>1, <1>6
    <3> HIDE DEF b
    <3>4. p.head[prev] = Link(Before(l, n - 1), b)
      BY <3>1, <3>2, <3>3, <1>1
    <3> QED BY <2>1, <3>4
  <2>2. ASSUME next # Null PROVE p.head[next] = Link(b, After(l, n + 1))
    <3>1. n + 1 \in 1..Len(l) /\ next = l[n + 1] /\ n + 1 # 1 /\ (n + 1) - 1 = n
      BY <2>2, <1>1, <1>2
    <3>2. Before(l, n + 1) = l[n]
      BY <3>1 DEF Before
    <3>3. p.head[l[n + 1]] = Link(Before(l, n + 1), After(l, n + 1))
      BY <3>1, <1>6
    <3> HIDE DEF b
    <3>4. p.head[next] = Link(b, After(l, n + 1))
      BY <3>1, <3>2, <3>3, <1>1
    <3> QED BY <2>2, <3>4
  <2> QED BY <2>1, <2>2
<1>12. ~BadLinks(p, b)
  <2>1. IsFree(p, b) /\ p.head[b].prev = prev /\ p.head[b].next = next
    BY <1>1 DEF IsFree, Link
  <2>2. prev # Null => IsFree(p, prev) /\ p.head[prev].next = b
    BY <1>9, <1>11 DEF IsFree, Link
  <2>3. next # Null => IsFree(p, next) /\ p.head[next].prev = b
    BY <1>9, <1>11 DEF IsFree, Link
  <2> HIDE DEF b
  <2> QED BY <2>1, <2>2, <2>3 DEF BadLinks
<1>13. ASSUME NEW j \in Orders, j # k PROVE Chain(q, j, M[j])
  <2>1. M[j] = L[j] /\ Chain(p, j, L[j])
    BY <1>5, <1>13 DEF Listing
  <2>2. q.freeList[j] = Leader(L[j])
    BY <2>1, <1>10, <1>3, <1>13 DEF Chain, PoolShape
  <2>3. ASSUME NEW i \in 1..Len(L[j])
        PROVE  q.head[L[j][i]] = Link(Before(L[j], i), After(L[j], i))
    <3>1. L[j][i] \in Blocks
      BY <2>1 DEF Chain
    <3>2. \A g \in 1..Len(l) : L[j][i] # l[g]
      BY <1>3, <1>13 DEF Apart, l
    <3>3. L[j][i] # prev /\ L[j][i] # next
      BY <1>2, <3>1, <3>2, NullAssumption
    <3> QED BY <1>10, <2>1, <3>1, <3>3 DEF Chain
  <2> QED BY <2>1, <2>2, <2>3, <1>10 DEF Chain
<1>14. Chain(q, k, m)
  <2>1. q.freeList[k] = Leader(m)
    <3>1. CASE n = 1
      <4>1. q.freeList[k] = next
        BY <3>1, <1>2, <1>3, <1>10 DEF PoolShape
      <4>2. Leader(m) = next
        <5>1. CASE Len(l) = 1
          BY <5>1, <3>1, <1>2, <1>4 DEF Leader
        <5>2. CASE Len(l) # 1
          <6>1. 1 \in 1..(Len(l) - 1) /\ ~(1 < n) /\ Len(m) # 0 /\ n + 1 = 2
            BY <5>2, <3>1, <1>1, <1>4
          <6>2. m[1] = l[2]
            BY <6>1, <1>4
          <6> QED BY <6>1, <6>2, <5>2, <3>1, <1>2, <1>1 DEF Leader
        <5> QED BY <5>1, <5>2
      <4> QED BY <4>1, <4>2
    <3>2. CASE n > 1
      <4>1. q.freeList[k] = p.freeList[k] /\ p.freeList[k] = l[1]
        BY <3>2, <1>1, <1>2, <1>3, <1>10, NullAssumption DEF Chain, Leader
      <4>2. 1 \in 1..(Len(l) - 1) /\ 1 < n /\ Len(m) # 0
        BY <3>2, <1>1, <1>4
      <4>3. m[1] = l[1]
        BY <4>2, <1>4
      <4> QED BY <4>1, <4>2, <4>3 DEF Leader
    <3> QED BY <3>1, <3>2, <1>1
  <2>2. ASSUME NEW i \in 1..Len(m)
        PROVE  /\ q.head[m[i]] = Link(Before(m, i), After(m, i))
               /\ End(m[i], k) \in Blocks /\ q.tail[End(m[i], k)] = k
    <3>0. i \in 1..(Len(l) - 1) /\ i \in 1..Len(l) /\ i + 1 \in 1..Len(l) /\ i \in Nat
          /\ i >= 1 /\ i <= Len(l) - 1
      BY <1>1, <1>4
    <3>1. \A g \in 1..Len(l) : End(l[g], k) \in Blocks /\ q.tail[End(l[g], k)] = k
      BY <1>3, <1>10 DEF Chain
    <3>2. CASE i < n
      <4>1. m[i] = l[i] /\ m[i] \in Blocks
        BY <3>0, <3>2, <1>4, <1>6
      <4>2. Before(l, i) = Before(m, i)
        <5>1. CASE i # 1
          <6>1. i - 1 \in 1..(Len(l) - 1) /\ i - 1 < n
            BY <5>1, <3>0, <3>2, <1>1
          <6> QED BY <6>1, <5>1, <1>4 DEF Before
        <5> QED BY <5>1 DEF Before
      <4>3. CASE i = n - 1
        <5>1. l[i] = prev /\ n > 1 /\ prev \in Blocks /\ prev # Null
          BY <4>3, <3>0, <1>1, <1>2, NullAssumption
        <5>2. prev # next
          BY <5>1, <1>8
        <5>3. q.head[prev] = Link(Before(l, i), next)
          BY <5>1, <5>2, <1>10, <1>11, <4>3 DEF Link
        <5>4. After(m, i) = next
          <6>1. CASE n = Len(l)
            <7>1. i = Len(m) /\ next = Null
              BY <6>1, <4>3, <1>1, <1>2, <1>4
            <7> QED BY <7>1 DEF After
          <6>2. CASE n # Len(l)
            <7>1. i # Len(m) /\ i + 1 = n /\ n \in 1..(Len(l) - 1) /\ ~(n < n) /\ next = l[n + 1]
              BY <6>2, <4>3, <1>1, <1>2, <1>4
            <7>2. m[n] = l[n + 1]
              BY <7>1, <1>4
            <7> QED BY <7>1, <7>2 DEF After
          <6> QED BY <6>1, <6>2
        <5> QED BY <5>1, <5>3, <5>4, <4>1, <4>2, <3>0, <3>1
      <4>4. CASE i # n - 1
        <5>1. i + 1 < n /\ i + 1 \in 1..(Len(l) - 1) /\ i # Len(m) /\ i # Len(l)
          BY <4>4, <3>0, <3>2, <1>1, <1>4
        <5>2. l[i] # prev /\ l[i] # next
          <6>1. i # n + 1
            BY <3>2, <3>0, <1>1
          <6> QED BY <6>1, <4>4, <3>0, <1>2, <1>6, <1>7, NullAssumption
        <5>3. q.head[l[i]] = Link(Before(l, i), After(l, i))
          BY <5>2, <3>0, <1>6, <1>10
        <5>4. m[i + 1] = l[i + 1]
          BY <5>1, <1>4
        <5>5. After(l, i) = After(m, i)
          BY <5>1, <5>4 DEF After
        <5> QED BY <5>3, <5>5, <4>1, <4>2, <3>0, <3>1
      <4> QED BY <4>3, <4>4
    <3>3. CASE ~(i < n)
      <4>1. m[i] = l[i + 1] /\ m[i] \in Blocks
        BY <3>0, <3>3, <1>4, <1>6
      <4>2. After(l, i + 1) = After(m, i)
        <5>1. CASE i = Len(m)
          <6>1. i + 1 = Len(l)
            BY <5>1, <3>0, <1>1, <1>4
          <6> QED BY <5>1, <6>1 DEF After
        <5>2. CASE i # Len(m)
          <6>1. i + 1 # Len(l) /\ i + 1 \in 1..(Len(l) - 1) /\ ~(i + 1 < n)
            BY <5>2, <3>0, <3>3, <1>1, <1>4
          <6>2. m[i + 1] = l[(i + 1) + 1]
            BY <6>1, <1>4
          <6> QED BY <5>2, <6>1, <6>2 DEF After
        <5> QED BY <5>1, <5>2
      <4>3. CASE i = n
        <5>1. l[i + 1] = next /\ next \in Blocks /\ next # Null
          BY <4>3, <3>0, <1>1, <1>2, NullAssumption
        <5>2. q.head[next] = Link(prev, After(l, i + 1))
          BY <5>1, <1>10, <1>11, <4>3 DEF Link
        <5>3. Before(m, i) = prev
          <6>1. CASE n = 1
            BY <6>1, <4>3, <1>2, <1>1 DEF Before
          <6>2. CASE n # 1
            <7>1. n - 1 \in 1..(Len(l) - 1) /\ n - 1 < n /\ prev = l[n - 1]
              BY <6>2, <1>1, <1>2, <4>3, <3>0
            <7> QED BY <7>1, <6>2, <4>3, <1>4 DEF Before
          <6> QED BY <6>1, <6>2
        <5> QED BY <5>1, <5>2, <5>3, <4>1, <4>2, <3>0, <3>1
      <4>4. CASE i # n
        <5>1. i > n /\ i - 1 \in 1..(Len(l) - 1) /\ ~(i - 1 < n) /\ (i - 1) + 1 = i /\ (i + 1) - 1 = i
              /\ i # 1 /\ i + 1 # 1
          BY <4>4, <3>0, <3>3, <1>1
        <5>2. l[i + 1] # prev /\ l[i + 1] # next
          <6>1. i + 1 # n - 1 /\ i + 1 # n + 1
            BY <5>1, <3>0, <1>1
          <6> QED BY <6>1, <3>0, <1>2, <1>6, <1>7, NullAssumption
        <5>3. q.head[l[i + 1]] = Link(Before(l, i + 1), After(l, i + 1))
          BY <5>2, <3>0, <1>6, <1>10
        <5>4. m[i - 1] = l[i]
          BY <5>1, <1>4
        <5>5. Before(l, i + 1) = Before(m, i)
          BY <5>1, <5>4 DEF Before
        <5> QED BY <5>3, <5>5, <4>1, <4>2, <3>0, <3>1
      <4> QED BY <4>3, <4>4
    <3> QED BY <3>2, <3>3
  <2> QED BY <2>1, <2>2, <1>4 DEF Chain
<1>15. Apart(M)
  <2>1. ASSUME NEW j \in Orders, NEW i \in 1..Len(M[j])
        PROVE  \/ /\ j = k /\ i < n /\ i \in 1..Len(L[j]) /\ M[j][i] = L[j][i]
               \/ j = k /\ ~(i < n) /\ i + 1 \in 1..Len(L[j]) /\ M[j][i] = L[j][i + 1]
               \/ j # k /\ i \in 1..Len(L[j]) /\ M[j][i] = L[j][i]
    <3>1. CASE j = k
      <4>1. M[j] = m /\ i \in 1..(Len(l) - 1) /\ L[j] = l
        BY <1>4, <1>5, <3>1 DEF l
      <4>2. i \in 1..Len(l) /\ i + 1 \in 1..Len(l)
        BY <4>1, <1>1
      <4> QED BY <4>1, <4>2, <3>1, <1>4
    <3>2. CASE j # k
      BY <3>2, <1>5
    <3> QED BY <3>1, <3>2
  <2>2. ASSUME NEW j \in Orders, NEW g \in Orders, NEW i \in 1..Len(M[j]), NEW h \in 1..Len(M[g]),
               M[j][i] = M[g][h]
        PROVE  j = g /\ i = h
    <3>1. i \in Int /\ h \in Int
      OBVIOUS
    <3>2. /\ \/ /\ j = k /\ i < n /\ i \in 1..Len(L[j]) /\ M[j][i] = L[j][i]
             \/ j = k /\ ~(i < n) /\ i + 1 \in 1..Len(L[j]) /\ M[j][i] = L[j][i + 1]
             \/ j # k /\ i \in 1..Len(L[j]) /\ M[j][i] = L[j][i]
          /\ \/ /\ g = k /\ h < n /\ h \in 1..Len(L[g]) /\ M[g][h] = L[g][h]
             \/ g = k /\ ~(h < n) /\ h + 1 \in 1..Len(L[g]) /\ M[g][h] = L[g][h + 1]
             \/ g # k /\ h \in 1..Len(L[g]) /\ M[g][h] = L[g][h]
      BY <2>1
    <3>3. CASE j = k /\ g = k
      <4>1. \A u, v \in 1..Len(L[k]) : L[k][u] = L[k][v] => u = v
        BY <1>3 DEF Apart
      <4> DEFINE u == IF i < n THEN i ELSE i + 1
                 v == IF h < n THEN h ELSE h + 1
      <4>2. u \in 1..Len(L[k]) /\ M[j][i] = L[k][u] /\ v \in 1..Len(L[k]) /\ M[g][h] = L[k][v]
        BY <3>2, <3>3
      <4>3. u = v
        <5> HIDE DEF u, v
        <5> QED BY <2>2, <4>1, <4>2
      <4> QED BY <4>3, <3>1, <3>3, <1>1
    <3>4. CASE j # k \/ g # k
      <4>1. \E u \in 1..Len(L[j]) : M[j][i] = L[j][u]
        BY <3>2
      <4>2. \E v \in 1..Len(L[g]) : M[g][h] = L[g][v]
        BY <3>2
      <4>3. j = g
        BY <2>2, <4>1, <4>2, <1>3 DEF Apart
      <4> QED BY <2>2, <3>2, <3>4, <4>3, <1>3 DEF Apart
    <3> QED BY <3>3, <3>4
  <2> QED BY <2>2 DEF Apart
<1>16. Listing(q, M)
  <2>1. \A j \in Orders : Chain(q, j, M[j])
    BY <1>5, <1>13, <1>14
  <2> QED BY <1>10, <1>5, <2>1, <1>15 DEF Listing
<1>17. p.head[b].prev = prev
  BY <1>1 DEF Link
<1>18. ASSUME NEW y \in Blocks, Unlisted(L, y) PROVE q.head[y] = p.head[y]
  <2>1. y # next
    <3>1. CASE next = Null
      BY <3>1, NullAssumption
    <3>2. CASE n + 1 \in 1..Len(l) /\ next = l[n + 1]
      <4>1. \A i \in 1..Len(L[k]) : L[k][i] # y
        BY <1>18 DEF Unlisted
      <4> QED BY <3>2, <4>1, Zenon DEF l
    <3> QED BY <1>2, <3>1, <3>2
  <2>2. y # prev
    <3>1. CASE prev = Null
      BY <3>1, NullAssumption
    <3>2. CASE n - 1 \in 1..Len(l) /\ prev = l[n - 1]
      <4>1. \A i \in 1..Len(L[k]) : L[k][i] # y
        BY <1>18 DEF Unlisted
      <4> QED BY <3>2, <4>1, Zenon DEF l
    <3> QED BY <1>2, <3>1, <3>2
  <2> HIDE DEF next, prev, q
  <2> QED BY <1>10, <1>18, <2>1, <2>2
<1> QED BY <1>10, <1>12, <1>16, <1>17, <1>18 DEF M, m, l, prev

(* What happens elsewhere in the pool leaves the lists as they are. *)
LEMMA ListsStay ==
  ASSUME NEW p, NEW L, Listing(p, L), NEW q, PoolShape(q), q.freeList = p.freeList,
         \A k \in Orders : \A i \in 1..Len(L[k]) :
           q.head[L[k][i]] = p.head[L[k][i]] /\ q.tail[End(L[k][i], k)] = p.tail[End(L[k][i], k)]
  PROVE  Listing(q, L)
<1>1. ASSUME NEW k \in Orders PROVE Chain(q, k, L[k])
  BY DEF Chain, Listing
<1> QED BY <1>1 DEF Listing

-----------------------------------------------------------------------------
(* What ListOf reads of a list.                                            *)

\* Blocks, and the null link.
Nodes == Blocks \cup {Null}

\* g is the function by which ListOf walks lists of up to n ranges.
Walk(p, left, f) ==
  [b \in Nodes |-> IF b = Null \/ left = 0 \/ ~IsFree(p, b) THEN <<b>>
                   ELSE <<b>> \o f[left - 1][p.head[b].next]]
Walks(p, n, g) == g = [left \in 0..n |-> Walk(p, left, g)]

\* What a turn returns.
Read(p, f, b, left) ==
  IF b = Null \/ left = 0 \/ ~IsFree(p, b) THEN <<b>> ELSE <<b>> \o f[left - 1][p.head[b].next]

\* The next link of a free range is a range or null.
LEMMA LinkEnds ==
  ASSUME NEW p, NEW b, IsFree(p, b)
  PROVE  p.head[b].next \in Nodes
BY DEF IsFree, Links, Link, Nodes

\* One turn of ListOf.
LEMMA WalksGives ==
  ASSUME NEW p, NEW n \in Nat, NEW g, Walks(p, n, g), NEW b \in Nodes, NEW left \in 0..n
  PROVE  g[left][b] = Read(p, g, b, left)
<1>1. g[left] = Walk(p, left, g)
  <2> DEFINE h == [t \in 0..n |-> Walk(p, t, g)]
  <2>1. h[left] = Walk(p, left, g)
    OBVIOUS
  <2>2. g = h
    BY DEF Walks
  <2> HIDE DEF h
  <2> QED BY <2>1, <2>2
<1>2. Walk(p, left, g)[b] = Read(p, g, b, left)
  BY DEF Walk, Read
<1> QED BY <1>1, <1>2

(* The function ListOf defines exists: each of its rows is made of the row *)
(* before.                                                                 *)
LEMMA WalksExist ==
  ASSUME NEW p, NEW n \in Nat
  PROVE  \E g : Walks(p, n, g)
<1> DEFINE Bad == {e \in Nat : ~\E g : Walks(p, e, g)}
<1> SUFFICES ASSUME Bad # {} PROVE FALSE
  OBVIOUS
<1>1. PICK m \in Bad : \A e \in Bad : m <= e
  BY LeastOf
<1>0. \A f, h, left : left = 0 \/ f[left - 1] = h[left - 1] => Walk(p, left, f) = Walk(p, left, h)
  BY DEF Walk
<1>2. m # 0
  <2> DEFINE g == [left \in 0..0 |-> Walk(p, 0, <<>>)]
  <2>1. \A left \in 0..0 : left = 0 /\ Walk(p, 0, <<>>) = Walk(p, left, g)
    BY <1>0
  <2>2. g = [left \in 0..0 |-> Walk(p, left, g)]
    <3> DEFINE h == g
    <3>1. g = [left \in 0..0 |-> Walk(p, left, h)]
      BY <2>1
    <3> QED BY <3>1
  <2> HIDE DEF g
  <2>3. Walks(p, 0, g)
    BY <2>2 DEF Walks
  <2> QED BY <2>3
<1>3. m - 1 \in Nat /\ m - 1 \notin Bad
  BY <1>1, <1>2
<1>4. PICK g : Walks(p, m - 1, g)
  BY <1>3
<1> DEFINE h == [left \in 0..m |-> Walk(p, left, g)]
<1>5. \A left \in 0..(m - 1) : h[left] = g[left]
  <2>1. ASSUME NEW left \in 0..(m - 1) PROVE h[left] = g[left]
    <3>1. left \in 0..m
      BY <1>3
    <3>2. h[left] = Walk(p, left, g)
      BY <3>1
    <3>3. g[left] = Walk(p, left, g)
      <4> DEFINE f == [t \in 0..(m - 1) |-> Walk(p, t, g)]
      <4>1. f[left] = Walk(p, left, g)
        OBVIOUS
      <4>2. g = f
        BY <1>4 DEF Walks
      <4> HIDE DEF f
      <4> QED BY <4>1, <4>2
    <3> QED BY <3>2, <3>3
  <2> QED BY <2>1
<1>6. ASSUME NEW left \in 0..m
      PROVE  Walk(p, left, g) = Walk(p, left, h)
  <2>1. left = 0 \/ left - 1 \in 0..(m - 1)
    BY <1>3
  <2> HIDE DEF h
  <2> QED BY <2>1, <1>0, <1>5
<1>7. Walks(p, m, h)
  <2> DEFINE f == [left \in 0..m |-> Walk(p, left, h)]
  <2>1. h = f
    BY <1>6
  <2> HIDE DEF h
  <2> QED BY <2>1 DEF Walks
<1> QED BY <1>1, <1>7

\* ListOf is where that function ends.
LEMMA ListOfIs ==
  ASSUME NEW p, NEW k
  PROVE  \E g : Walks(p, PoolBlocks, g) /\ ListOf(p, k) = g[PoolBlocks][p.freeList[k]]
<1> DEFINE g == CHOOSE f : Walks(p, PoolBlocks, f)
<1>1. Walks(p, PoolBlocks, g)
  BY WalksExist, SizeAssumption, Zenon
<1>2. ListOf(p, k) = g[PoolBlocks][p.freeList[k]]
  BY Zenon DEF ListOf, Walks, Walk, Nodes
<1> HIDE DEF g
<1> QED BY <1>1, <1>2

\* A sequence with one element in front.
LEMMA ConcatIs ==
  ASSUME NEW b, NEW T, NEW s \in Seq(T), b \in T
  PROVE  /\ <<b>> \o s \in Seq(T) /\ Len(<<b>> \o s) = Len(s) + 1 /\ (<<b>> \o s)[1] = b
         /\ \A i \in 2..(Len(s) + 1) : (<<b>> \o s)[i] = s[i - 1]
OBVIOUS

(* A list that is linked soundly is read as it is, with the null link at   *)
(* its end.                                                                *)
LEMMA ListIsRead ==
  ASSUME NEW p, NEW k, NEW l, Chain(p, k, l), Len(l) <= PoolBlocks
  PROVE  /\ Len(ListOf(p, k)) = Len(l) + 1
         /\ \A i \in 1..Len(l) : ListOf(p, k)[i] = l[i]
         /\ ListOf(p, k)[Len(l) + 1] = Null
<1> DEFINE n == Len(l)
           Node(i) == IF i > n THEN Null ELSE l[i]
<1>1. n \in Nat /\ l \in Seq(Blocks) /\ PoolBlocks \in Nat /\ n <= PoolBlocks
      /\ \A i \in 1..n : l[i] \in Blocks /\ p.head[l[i]] = Link(Before(l, i), After(l, i))
  BY SizeAssumption DEF Chain
<1>2. PICK g : Walks(p, PoolBlocks, g) /\ ListOf(p, k) = g[PoolBlocks][p.freeList[k]]
  BY ListOfIs
\* From the range i before the end on, with enough turns left.
<1> DEFINE Reads(i) ==
             \A left \in 0..PoolBlocks : i <= left =>
               LET s == g[left][Node(n + 1 - i)]
               IN  /\ s \in Seq(Nodes) /\ Len(s) = i + 1
                   /\ \A j \in 1..(i + 1) : s[j] = Node(n - i + j)
           Bad == {i \in 0..n : ~Reads(i)}
<1>0. \A left \in 0..PoolBlocks, b \in Nodes : g[left][b] = Read(p, g, b, left)
  <2>1. PoolBlocks \in Nat /\ Walks(p, PoolBlocks, g)
    BY <1>1, <1>2
  <2> QED BY <2>1, WalksGives
<1> HIDE DEF n, Node, Reads
<1>3. Bad = {}
  <2> SUFFICES ASSUME Bad # {} PROVE FALSE
    OBVIOUS
  <2>1. Bad \subseteq Nat
    BY <1>1
  <2> HIDE DEF Bad
  <2>2. PICK m \in Bad : \A e \in Bad : m <= e
    BY <2>1, LeastOf
  <2> USE DEF Bad
  <2>3. m \in 0..n
    OBVIOUS
  <2>4. ASSUME m = 0 PROVE FALSE
    <3>1. Node(n + 1) = Null /\ Null \in Nodes
      BY <1>1 DEF Node, Nodes
    <3>2. ASSUME NEW left \in 0..PoolBlocks
          PROVE  g[left][Null] = <<Null>>
      BY <1>0, <3>1, Zenon DEF Read
    <3>3. Reads(0)
      <4>1. \A j \in 1..(0 + 1) : <<Null>>[j] = Node(n - 0 + j)
        BY <1>1, <3>1
      <4>2. <<Null>> \in Seq(Nodes) /\ Len(<<Null>>) = 0 + 1
        BY <3>1
      <4>3. n + 1 - 0 = n + 1
        BY <1>1
      <4> QED BY <3>1, <3>2, <4>1, <4>2, <4>3 DEF Reads
    <3> QED BY <2>2, <2>4, <3>3
  <2>5. ASSUME m # 0 PROVE FALSE
    <3>1. m - 1 \in 0..n /\ Reads(m - 1)
      BY <1>1, <2>2, <2>3, <2>5
    <3> HIDE DEF Bad
    <3> DEFINE i == n + 1 - m
    <3>2. i \in 1..n /\ Node(i) = l[i] /\ l[i] \in Blocks /\ n + 1 - (m - 1) = i + 1
          /\ n - (m - 1) = i /\ n - m = i - 1
      BY <1>1, <2>3, <2>5 DEF Node
    <3>3. p.head[l[i]] = Link(Before(l, i), After(l, i)) /\ After(l, i) = Node(i + 1)
      BY <1>1, <3>2 DEF After, Node, n
    <3>4. IsFree(p, l[i]) /\ p.head[l[i]].next = Node(i + 1) /\ l[i] # Null /\ l[i] \in Nodes
      <4>1. Before(l, i) \in Nodes /\ After(l, i) \in Nodes
        <5>1. i - 1 \in 1..n \/ i = 1
          BY <1>1, <3>2
        <5>2. i + 1 \in 1..n \/ i = n
          BY <1>1, <3>2
        <5> QED BY <1>1, <5>1, <5>2 DEF Before, After, Nodes, n
      <4>2. p.head[l[i]] \in Links
        BY <3>3, <4>1 DEF Links, Nodes
      <4> QED BY <3>2, <3>3, <4>2, NullAssumption DEF IsFree, Link, Nodes
    <3>5. ASSUME NEW left \in 0..PoolBlocks, m <= left
          PROVE  LET s == g[left][Node(n + 1 - m)]
                 IN  /\ s \in Seq(Nodes) /\ Len(s) = m + 1
                     /\ \A j \in 1..(m + 1) : s[j] = Node(n - m + j)
      <4> DEFINE t == g[left - 1][Node(i + 1)]
      <4>1. left # 0 /\ left - 1 \in 0..PoolBlocks /\ m - 1 <= left - 1
        BY <1>1, <2>3, <2>5, <3>5
      <4>2. g[left][l[i]] = <<l[i]>> \o t
        BY <1>0, <3>4, <4>1, ZenonT(60) DEF Read
      <4>3. /\ t \in Seq(Nodes) /\ Len(t) = (m - 1) + 1
            /\ \A j \in 1..((m - 1) + 1) : t[j] = Node(n - (m - 1) + j)
        BY <3>1, <3>2, <4>1 DEF Reads
      <4> HIDE DEF t
      <4>4. t \in Seq(Nodes) /\ Len(t) = m /\ \A j \in 1..m : t[j] = Node(i + j)
        BY <1>1, <2>3, <3>2, <4>3, SMTT(60)
      <4> DEFINE s == <<l[i]>> \o t
      <4>5. /\ s \in Seq(Nodes) /\ Len(s) = m + 1 /\ s[1] = l[i]
            /\ \A j \in 2..(m + 1) : s[j] = t[j - 1]
        BY <3>4, <4>4, ConcatIs
      <4> HIDE DEF s
      <4>6. ASSUME NEW j \in 1..(m + 1) PROVE s[j] = Node(n - m + j)
        <5>1. CASE j = 1
          <6>1. n - m + j = i
            BY <1>1, <2>3, <3>2, <5>1
          <6> QED BY <6>1, <5>1, <3>2, <4>5
        <5>2. CASE j # 1
          <6>1. j \in 2..(m + 1) /\ j - 1 \in 1..m /\ n - m + j = i + (j - 1)
            BY <1>1, <2>3, <3>2, <5>2
          <6> QED BY <6>1, <4>4, <4>5
        <5> QED BY <5>1, <5>2
      <4>7. g[left][Node(n + 1 - m)] = s
        BY <3>2, <4>2 DEF s
      <4> QED BY <4>5, <4>6, <4>7
    <3>6. Reads(m)
      BY <3>5 DEF Reads
    <3> QED BY <2>2, <3>6 DEF Bad
  <2> QED BY <2>4, <2>5
<1>4. Reads(n)
  <2>1. n \in 0..n /\ n \notin Bad
    BY <1>1, <1>3
  <2> QED BY <2>1
<1>5. Node(1) = p.freeList[k]
  BY <1>1 DEF Node, Chain, Leader, n
<1>6. /\ ListOf(p, k) \in Seq(Nodes) /\ Len(ListOf(p, k)) = n + 1
      /\ \A j \in 1..(n + 1) : ListOf(p, k)[j] = Node(n - n + j)
  <2>1. n <= PoolBlocks /\ PoolBlocks \in 0..PoolBlocks /\ n + 1 - n = 1
    BY <1>1
  <2> HIDE DEF Bad
  <2> QED BY <1>2, <1>4, <1>5, <2>1 DEF Reads
<1>7. \A j \in 1..(n + 1) : ListOf(p, k)[j] = Node(j)
  <2>1. \A j \in 1..(n + 1) : n - n + j = j
    BY <1>1
  <2> QED BY <1>6, <2>1
<1>8. n + 1 \in 1..(n + 1) /\ Node(n + 1) = Null /\ \A i \in 1..n : i \in 1..(n + 1) /\ Node(i) = l[i]
  BY <1>1 DEF Node
<1> QED BY <1>6, <1>7, <1>8 DEF n

(* No list is longer than the pool. *)
LEMMA ListsAreShort ==
  ASSUME NEW p, NEW L, Listing(p, L), NEW k \in Orders
  PROVE  Len(L[k]) <= PoolBlocks
<1>1. L[k] \in Seq(Blocks) /\ Len(L[k]) \in Nat /\ \A i \in 1..Len(L[k]) : L[k][i] \in Blocks
  BY DEF Listing, Chain
<1> DEFINE f == [i \in 1..Len(L[k]) |-> L[k][i]]
<1>2. f \in Injection(1..Len(L[k]), Blocks)
  BY <1>1 DEF Injection, IsInjective, Listing, Apart
<1>3. /\ IsFiniteSet(1..Len(L[k])) /\ Cardinality(1..Len(L[k])) = Len(L[k])
      /\ IsFiniteSet(Blocks) /\ Cardinality(Blocks) = PoolBlocks
  <2>1. PoolBlocks \in Nat /\ 0 \in Int /\ PoolBlocks - 1 \in Int
    BY SizeAssumption
  <2>2. IsFiniteSet(Blocks) /\ Cardinality(Blocks) = PoolBlocks
    BY <2>1, FS_Interval DEF Blocks
  <2> QED BY <1>1, <2>2, FS_Interval, SMTT(60)
<1> HIDE DEF f
<1> QED BY <1>2, <1>3, FS_Injection

-----------------------------------------------------------------------------
(* The folds, as runs: r[i] is what the first i elements make of the base.  *)

\* The greatest number of a bounded set.
LEMMA MaxIs ==
  ASSUME NEW n \in Nat, NEW S \in SUBSET (1..n), S # {}
  PROVE  Max(S) \in S /\ \A k \in S : k <= Max(S)
<1>1. S \subseteq 0..n
  OBVIOUS
<1>2. PICK m \in S : \A k \in S : k <= m
  BY <1>1, GreatestOf
<1>3. \A k \in S : m >= k
  BY <1>1, <1>2
<1> QED
  <2>1. Max(S) \in S /\ \A k \in S : Max(S) >= k
    BY <1>3, Zenon DEF Max
  <2> QED BY <2>1, <1>1

\* ... is the last one, when that is in the set.
LEMMA MaxIsLast ==
  ASSUME NEW n \in Nat, NEW S \in SUBSET (1..n), n \in S PROVE Max(S) = n
<1>1. S # {} /\ n \in S
  OBVIOUS
<1>2. Max(S) \in S /\ n <= Max(S)
  BY <1>1, MaxIs
<1>3. Max(S) \in 1..n
  BY <1>2
<1> QED BY <1>2, <1>3

\* The three operators the allocator folds.
Turn(t, p, x, e) ==
  IF t = "push" THEN makeFree(x, e)
  ELSE IF t = "merge" THEN Merge(x, e)
  ELSE x + (Len(ListOf(p, e)) - 1) * Span(e)

\* g gives the fold of every part of the sequence.
Iter(t, p, base, seq, n, g) ==
  g = [s \in SUBSET (1..n) |-> IF s = {} THEN base ELSE Turn(t, p, g[s \ {Max(s)}], seq[Max(s)])]

(* The function by which the folds of the community modules are defined    *)
(* exists.                                                                 *)
LEMMA IterExists ==
  ASSUME NEW t, NEW p, NEW base, NEW seq, NEW n \in Nat
  PROVE  \E g : Iter(t, p, base, seq, n, g)
<1> DEFINE Bad == {k \in Nat : ~\E g : Iter(t, p, base, seq, k, g)}
<1> SUFFICES ASSUME Bad # {} PROVE FALSE
  OBVIOUS
<1>1. PICK m \in Bad : \A e \in Bad : m <= e
  BY LeastOf
<1>2. m # 0
  <2> DEFINE g == [s \in {{}} |-> base]
  <2>1. SUBSET (1..0) = {{}}
    OBVIOUS
  <2>2. Iter(t, p, base, seq, 0, g)
    BY <2>1 DEF Iter
  <2> HIDE DEF g
  <2> QED BY <2>2
<1>3. m \in Nat /\ m - 1 \in Nat /\ m - 1 \notin Bad
  BY <1>1, <1>2
<1>4. PICK g : Iter(t, p, base, seq, m - 1, g)
  BY <1>3
<1> DEFINE h == [s \in SUBSET (1..m) |-> IF m \in s THEN Turn(t, p, g[s \ {m}], seq[m]) ELSE g[s]]
<1>5. ASSUME NEW s \in SUBSET (1..m)
      PROVE  h[s] = IF s = {} THEN base ELSE Turn(t, p, h[s \ {Max(s)}], seq[Max(s)])
  <2>1. CASE m \in s
    <3>1. Max(s) = m
      BY <1>3, <2>1, MaxIsLast
    <3>2. s \ {m} \in SUBSET (1..m) /\ m \notin s \ {m} /\ s # {}
      BY <2>1
    <3> QED BY <2>1, <3>1, <3>2
  <2>2. CASE m \notin s
    <3>1. s \in SUBSET (1..(m - 1))
      BY <1>3, <2>2
    <3>2. g[s] = IF s = {} THEN base ELSE Turn(t, p, g[s \ {Max(s)}], seq[Max(s)])
      BY <1>4, <3>1 DEF Iter
    <3>3. \A u : u \in SUBSET s => h[u] = g[u]
      BY <2>2, <3>1
    <3> HIDE DEF h
    <3>4. h[s] = g[s] /\ h[s \ {Max(s)}] = g[s \ {Max(s)}]
      BY <3>3
    <3> QED BY <3>2, <3>4
  <2> QED BY <2>1, <2>2
<1>6. Iter(t, p, base, seq, m, h)
  <2>1. h = [s \in SUBSET (1..m) |-> h[s]]
    OBVIOUS
  <2> HIDE DEF h
  <2> QED BY <1>5, <2>1 DEF Iter
<1> QED BY <1>1, <1>6

\* The prefixes of a fold are a run.
Runs(t, p, base, seq, n, r) ==
  r[0] = base /\ \A i \in 1..n : r[i] = Turn(t, p, r[i - 1], seq[i])

\* On prefixes it is a run.
LEMMA IterRuns ==
  ASSUME NEW t, NEW p, NEW base, NEW seq, NEW n \in Nat, NEW g, Iter(t, p, base, seq, n, g)
  PROVE  \E r : Runs(t, p, base, seq, n, r) /\ r[n] = g[1..n]
<1> DEFINE r == [i \in 0..n |-> g[1..i]]
           h == [s \in SUBSET (1..n) |-> IF s = {} THEN base ELSE Turn(t, p, g[s \ {Max(s)}], seq[Max(s)])]
<1>1. g = h
  BY DEF Iter
<1>2. g[1..0] = base
  <2>1. 1..0 = {} /\ {} \in SUBSET (1..n)
    OBVIOUS
  <2>2. h[{}] = base
    BY <2>1
  <2> HIDE DEF h
  <2> QED BY <1>1, <2>1, <2>2
<1>3. ASSUME NEW i \in 1..n PROVE g[1..i] = Turn(t, p, g[1..(i - 1)], seq[i])
  <2>1. (1..i) \in SUBSET (1..n) /\ (1..i) \in SUBSET (1..i) /\ i \in 1..i /\ i \in Nat
        /\ (1..i) \ {i} = 1..(i - 1) /\ (1..i) # {}
    OBVIOUS
  <2>2. Max(1..i) = i
    BY <2>1, MaxIsLast
  <2>3. h[1..i] = Turn(t, p, g[(1..i) \ {Max(1..i)}], seq[Max(1..i)])
    BY <2>1
  <2> HIDE DEF h
  <2> QED BY <1>1, <2>1, <2>2, <2>3
<1>4. /\ r[0] = g[1..0] /\ r[n] = g[1..n]
      /\ \A i \in 1..n : r[i] = g[1..i] /\ r[i - 1] = g[1..(i - 1)]
  OBVIOUS
<1> HIDE DEF r
<1>5. \A i \in 1..n : r[i] = Turn(t, p, r[i - 1], seq[i])
  BY <1>3, <1>4
<1> QED BY <1>2, <1>4, <1>5 DEF Runs

\* The runs of the three.
PushRun(base, seq, n, r) ==
  r[0] = base /\ \A i \in 1..n : r[i] = makeFree(r[i - 1], seq[i])
MergeRun(base, seq, n, r) ==
  r[0] = base /\ \A i \in 1..n : r[i] = Merge(r[i - 1], seq[i])
SumRun(p, base, seq, n, r) ==
  r[0] = base /\ \A i \in 1..n : r[i] = r[i - 1] + (Len(ListOf(p, seq[i])) - 1) * Span(seq[i])

\* The loop of toFree is a run of makeFree.
LEMMA FoldPushes ==
  ASSUME NEW base, NEW seq, NEW n \in Nat, DOMAIN seq = 1..n
  PROVE  \E r : PushRun(base, seq, n, r) /\ r[n] = FoldLeft(makeFree, base, seq)
<1> DEFINE P(g) == g = [s \in SUBSET (1..n) |-> IF s = {} THEN base
                                                ELSE makeFree(g[s \ {Max(s)}], seq[Max(s)])]
<1>1. \A g : P(g) <=> Iter("push", 0, base, seq, n, g)
  BY DEF Iter, Turn
<1>2. FoldLeft(makeFree, base, seq) = (CHOOSE g : P(g))[1..n]
  <2>1. FoldLeft(makeFree, base, seq)
        = (CHOOSE g : g = [s \in SUBSET DOMAIN seq |->
                             IF s = {} THEN base ELSE makeFree(g[s \ {Max(s)}], seq[Max(s)])])[DOMAIN seq]
    BY Zenon DEF FoldLeft, MapThenFoldSet
  <2> QED BY <2>1, Zenon
<1> HIDE DEF P
<1> DEFINE f == CHOOSE g : P(g)
<1>3. P(f)
  <2>1. \E g : P(g)
    BY <1>1, IterExists
  <2> QED BY <2>1, Zenon
<1> HIDE DEF f
<1>4. PICK r : Runs("push", 0, base, seq, n, r) /\ r[n] = f[1..n]
  <2>1. Iter("push", 0, base, seq, n, f)
    BY <1>1, <1>3
  <2> QED BY <2>1, IterRuns
<1> QED BY <1>2, <1>4 DEF Runs, PushRun, Turn, f

\* The loop of Free is a run of Merge.
LEMMA FoldMerges ==
  ASSUME NEW base, NEW seq, NEW n \in Nat, DOMAIN seq = 1..n
  PROVE  \E r : MergeRun(base, seq, n, r) /\ r[n] = FoldLeft(Merge, base, seq)
<1> DEFINE P(g) == g = [s \in SUBSET (1..n) |-> IF s = {} THEN base
                                                ELSE Merge(g[s \ {Max(s)}], seq[Max(s)])]
<1>1. \A g : P(g) <=> Iter("merge", 0, base, seq, n, g)
  BY DEF Iter, Turn
<1>2. FoldLeft(Merge, base, seq) = (CHOOSE g : P(g))[1..n]
  <2>1. FoldLeft(Merge, base, seq)
        = (CHOOSE g : g = [s \in SUBSET DOMAIN seq |->
                             IF s = {} THEN base ELSE Merge(g[s \ {Max(s)}], seq[Max(s)])])[DOMAIN seq]
    BY Zenon DEF FoldLeft, MapThenFoldSet
  <2> QED BY <2>1, Zenon
<1> HIDE DEF P
<1> DEFINE f == CHOOSE g : P(g)
<1>3. P(f)
  <2>1. \E g : P(g)
    BY <1>1, IterExists
  <2> QED BY <2>1, Zenon
<1> HIDE DEF f
<1>4. PICK r : Runs("merge", 0, base, seq, n, r) /\ r[n] = f[1..n]
  <2>1. Iter("merge", 0, base, seq, n, f)
    BY <1>1, <1>3
  <2> QED BY <2>1, IterRuns
<1> QED BY <1>2, <1>4 DEF Runs, MergeRun, Turn, f

\* The sum Check makes.
Total(p, base, seq) == FoldLeft(LAMBDA n, k : n + (Len(ListOf(p, k)) - 1) * Span(k), base, seq)

\* The sum Check makes is a run of additions.
LEMMA FoldSums ==
  ASSUME NEW p, NEW base, NEW seq, NEW n \in Nat, DOMAIN seq = 1..n
  PROVE  \E r : SumRun(p, base, seq, n, r) /\ r[n] = Total(p, base, seq)
<1> DEFINE P(g) == g = [s \in SUBSET (1..n) |->
                          IF s = {} THEN base
                          ELSE g[s \ {Max(s)}] + (Len(ListOf(p, seq[Max(s)])) - 1) * Span(seq[Max(s)])]
<1>1. PICK t : /\ \A g : P(g) <=> Iter(t, p, base, seq, n, g)
               /\ \A x, e : Turn(t, p, x, e) = x + (Len(ListOf(p, e)) - 1) * Span(e)
  <2>1. \A g : P(g) <=> Iter("sum", p, base, seq, n, g)
    BY DEF Iter, Turn
  <2>2. \A x, e : Turn("sum", p, x, e) = x + (Len(ListOf(p, e)) - 1) * Span(e)
    BY DEF Turn
  <2> QED BY <2>1, <2>2, Zenon
<1>2. Total(p, base, seq) = (CHOOSE g : P(g))[1..n]
  <2>1. Total(p, base, seq)
        = (CHOOSE g : g = [s \in SUBSET DOMAIN seq |->
                             IF s = {} THEN base ELSE g[s \ {Max(s)}] + (Len(ListOf(p, seq[Max(s)])) - 1) * Span(seq[Max(s)])])[DOMAIN seq]
    BY Zenon DEF Total, FoldLeft, MapThenFoldSet
  <2> QED BY <2>1, Zenon
<1> HIDE DEF P
<1> DEFINE f == CHOOSE g : P(g)
<1>3. P(f)
  <2>1. \E g : P(g)
    BY <1>1, IterExists
  <2> QED BY <2>1, Zenon
<1> HIDE DEF f
<1>4. PICK r : Runs(t, p, base, seq, n, r) /\ r[n] = f[1..n]
  <2>1. Iter(t, p, base, seq, n, f)
    BY <1>1, <1>3
  <2> QED BY <2>1, IterRuns
<1>6. r[n] = Total(p, base, seq)
  BY <1>2, <1>4, Zenon DEF f
<1>7. ASSUME NEW i \in 1..n PROVE r[i] = r[i - 1] + (Len(ListOf(p, seq[i])) - 1) * Span(seq[i])
  BY <1>1, <1>4, Zenon DEF Runs
<1> QED BY <1>4, <1>6, <1>7, Zenon DEF Runs, SumRun

-----------------------------------------------------------------------------
(* Sets of ranges that lie side by side.                                   *)

(* The ranges of the pool; the blocks of some; ranges that share a block;  *)
(* ranges that lie side by side and make up U.                             *)
Sites == {r \in [first : Blocks, order : Orders] :
            Aligned(r.first, r.order) /\ Past(r) <= PoolBlocks}
Cover(S) == UNION {Body(r) : r \in S}
Meet(r, s) == Body(r) \cap Body(s) # {}
Tiling(S, U) ==
  S \subseteq Sites /\ Cover(S) = U /\ \A r, s \in S : Meet(r, s) => r = s

\* Blocks and orders are natural numbers, and there is an order 0.
LEMMA BlocksAre == Blocks = 0..(PoolBlocks - 1) /\ PoolBlocks \in Nat /\ Orders \subseteq Nat /\ 0 \in Orders
BY SizeAssumption DEF Blocks, Orders

\* What is known of a range of the pool.
LEMMA SiteIs ==
  ASSUME NEW r \in Sites
  PROVE  /\ Sited(r) /\ r.first \in Blocks /\ r.order \in Orders /\ r.first \in Nat /\ r.order \in Nat
         /\ Span(r.order) \in Nat /\ Span(r.order) > 0
         /\ Past(r) \in Nat /\ r.first < Past(r) /\ Past(r) <= PoolBlocks
         /\ Past(r) = r.first + Span(r.order) /\ End(r.first, r.order) = Past(r) - 1
         /\ r.first \in Body(r) /\ End(r.first, r.order) \in Body(r)
         /\ End(r.first, r.order) \in Blocks /\ Body(r) \subseteq Blocks
         /\ r = RangeAt(r.first, r.order)
<1>1. r.first \in Blocks /\ r.order \in Orders /\ Aligned(r.first, r.order) /\ Past(r) <= PoolBlocks
      /\ r = RangeAt(r.first, r.order)
  <2>1. r \in [first : Blocks, order : Orders] /\ Aligned(r.first, r.order) /\ Past(r) <= PoolBlocks
    BY DEF Sites
  <2>2. r = [first |-> r.first, order |-> r.order]
    BY <2>1
  <2> QED BY <2>1, <2>2 DEF RangeAt
<1>2. r.first \in Nat /\ r.order \in Nat
  <2>1. r.first \in Blocks
    BY <1>1
  <2>2. r.order \in Orders
    BY <1>1
  <2>3. r.first \in Nat
    BY <2>1, BlocksAre
  <2> QED BY <2>2, <2>3, BlocksAre
<1>3. Span(r.order) \in Nat /\ Span(r.order) > 0
  BY <1>2, SpanPositive
<1>4. Past(r) \in Nat /\ r.first < Past(r) /\ Past(r) = r.first + Span(r.order)
      /\ End(r.first, r.order) = Past(r) - 1
  BY <1>2, <1>3 DEF Past, End
<1>5. r.first \in Body(r) /\ Past(r) - 1 \in Body(r) /\ Body(r) \subseteq Blocks
  BY <1>1, <1>2, <1>4, BlocksAre DEF Body
<1> QED BY <1>1, <1>2, <1>3, <1>4, <1>5 DEF Sited

\* A range of the pool, from what the code knows of it.
LEMMA SiteOf ==
  ASSUME NEW b \in Nat, NEW k \in Orders, Aligned(b, k), b + Span(k) <= PoolBlocks
  PROVE  RangeAt(b, k) \in Sites /\ RangeAt(b, k).first = b /\ RangeAt(b, k).order = k
<1>1. k \in Nat /\ Span(k) \in Nat /\ Span(k) > 0
  BY BlocksAre, SpanPositive
<1>2. b \in Blocks
  BY <1>1, BlocksAre
<1> QED BY <1>1, <1>2 DEF Sites, RangeAt, Past

\* A range is its first block and its order.
LEMMA SameRange ==
  ASSUME NEW r \in Sites, NEW s \in Sites, r.first = s.first, r.order = s.order PROVE r = s
BY SiteIs, Zenon

\* The blocks of a range.
LEMMA InBody ==
  ASSUME NEW r \in Sites, NEW b
  PROVE  b \in Body(r) <=> b \in Nat /\ r.first <= b /\ b < Past(r)
BY SiteIs DEF Body

\* The blocks of a set of ranges.
LEMMA InCover == ASSUME NEW S, NEW b PROVE b \in Cover(S) <=> \E r \in S : b \in Body(r)
BY DEF Cover

\* The blocks of two sets of ranges are the blocks of either.
LEMMA CoverOfTwo == ASSUME NEW S, NEW T PROVE Cover(S \cup T) = Cover(S) \cup Cover(T)
<1>1. \A b : b \in Cover(S \cup T) <=> b \in Cover(S) \/ b \in Cover(T)
  BY InCover
<1> QED BY <1>1

\* The blocks of one range.
LEMMA CoverOfOne == ASSUME NEW r PROVE Cover({r}) = Body(r)
<1>1. \A b : b \in Cover({r}) <=> b \in Body(r)
  BY InCover
<1> QED BY <1>1

\* No range is empty.
LEMMA MeetsSelf == ASSUME NEW r \in Sites PROVE Meet(r, r)
BY SiteIs DEF Meet

\* Two ranges that meet overlap, and the smaller lies within the larger.
LEMMA MeetIs ==
  ASSUME NEW r \in Sites, NEW s \in Sites
  PROVE  Meet(r, s) <=> r.first < Past(s) /\ s.first < Past(r)
<1>1. /\ r.first \in Nat /\ s.first \in Nat /\ Past(r) \in Nat /\ Past(s) \in Nat
      /\ r.first < Past(r) /\ s.first < Past(s)
  BY SiteIs
<1>2. ASSUME Meet(r, s) PROVE r.first < Past(s) /\ s.first < Past(r)
  <2>1. PICK b : b \in Body(r) /\ b \in Body(s)
    BY <1>2 DEF Meet
  <2> QED BY <1>1, <2>1, InBody
<1>3. ASSUME r.first < Past(s) /\ s.first < Past(r) PROVE Meet(r, s)
  <2> DEFINE b == IF r.first < s.first THEN s.first ELSE r.first
  <2>1. b \in Nat /\ r.first <= b /\ s.first <= b /\ b < Past(r) /\ b < Past(s)
    BY <1>1, <1>3
  <2>2. b \in Body(r) /\ b \in Body(s)
    BY <2>1, InBody
  <2> QED BY <2>2 DEF Meet
<1> QED BY <1>2, <1>3

\* Of two ranges that meet the smaller lies within the larger.
LEMMA MeetNested ==
  ASSUME NEW r \in Sites, NEW s \in Sites, Meet(r, s), r.order <= s.order
  PROVE  s.first <= r.first /\ Past(r) <= Past(s) /\ Body(r) \subseteq Body(s)
<1>1. s.first <= r.first /\ Past(r) <= Past(s)
  <2>1. r.first < Past(s) /\ s.first < Past(r)
    BY MeetIs
  <2> QED BY <2>1, SiteIs, Nested
<1>2. \A b : b \in Body(r) => b \in Body(s)
  BY <1>1, InBody, SiteIs
<1> QED BY <1>1, <1>2

\* Meeting is mutual.
LEMMA MeetSymmetric == ASSUME NEW r, NEW s, Meet(r, s) PROVE Meet(s, r)
BY DEF Meet

\* Two ranges of one order that meet are one.
LEMMA MeetSame ==
  ASSUME NEW r \in Sites, NEW s \in Sites, Meet(r, s), r.order = s.order PROVE r = s
<1>1. r.order <= s.order /\ s.order <= r.order
  BY SiteIs
<1>2. s.first <= r.first /\ r.first <= s.first
  BY <1>1, MeetNested, MeetSymmetric
<1>3. r.first = s.first
  BY <1>2, SiteIs
<1> QED BY <1>3, SameRange

\* A tile lies in the area.
LEMMA TilingGives ==
  ASSUME NEW S, NEW U, Tiling(S, U), NEW r \in S
  PROVE  r \in Sites /\ Body(r) \subseteq U
BY DEF Tiling, Cover

\* Tiles that meet are one.
LEMMA TilingMeets ==
  ASSUME NEW S, NEW U, Tiling(S, U), NEW r \in S, NEW s \in S, Meet(r, s)
  PROVE  r = s
BY DEF Tiling

\* Each block of the area is in a tile.
LEMMA TilingCovers ==
  ASSUME NEW S, NEW U, Tiling(S, U), NEW b \in U
  PROVE  \E r \in S : b \in Body(r)
BY DEF Tiling, Cover

\* Two areas apart are tiled by the tiles of both.
LEMMA TilingBoth ==
  ASSUME NEW S, NEW T, NEW U, NEW V, Tiling(S, U), Tiling(T, V), U \cap V = {}
  PROVE  Tiling(S \cup T, U \cup V)
<1>1. S \cup T \subseteq Sites /\ Cover(S \cup T) = U \cup V
  BY CoverOfTwo DEF Tiling
<1>2. ASSUME NEW r \in S \cup T, NEW s \in S \cup T, Meet(r, s) PROVE r = s
  <2>1. PICK b : b \in Body(r) /\ b \in Body(s)
    BY <1>2 DEF Meet
  <2>2. \A t \in S : Body(t) \subseteq U
    BY TilingGives
  <2>3. \A t \in T : Body(t) \subseteq V
    BY TilingGives
  <2>4. (r \in S /\ s \in S) \/ (r \in T /\ s \in T)
    BY <2>1, <2>2, <2>3
  <2> QED BY <1>2, <2>4, TilingMeets
<1> QED BY <1>1, <1>2 DEF Tiling

\* An area without one of its tiles.
LEMMA TilingWithout ==
  ASSUME NEW S, NEW U, Tiling(S, U), NEW r \in S
  PROVE  Tiling(S \ {r}, U \ Body(r))
<1>1. \A b : b \in Cover(S \ {r}) <=> b \in U \ Body(r)
  <2>1. ASSUME NEW b, b \in Cover(S \ {r}) PROVE b \in U \ Body(r)
    <3>1. PICK s \in S \ {r} : b \in Body(s)
      BY <2>1, InCover
    <3>2. b \in U
      BY <3>1, TilingGives
    <3>3. b \notin Body(r)
      BY <3>1, TilingMeets DEF Meet
    <3> QED BY <3>2, <3>3
  <2>2. ASSUME NEW b \in U \ Body(r) PROVE b \in Cover(S \ {r})
    <3>1. PICK s \in S : b \in Body(s)
      BY TilingCovers
    <3>2. s # r
      BY <3>1
    <3> QED BY <3>1, <3>2, InCover
  <2> QED BY <2>1, <2>2
<1>2. S \ {r} \subseteq Sites /\ \A s, t \in S \ {r} : Meet(s, t) => s = t
  BY DEF Tiling
<1> QED BY <1>1, <1>2 DEF Tiling

\* One range of a tiling is cut up, or put together again.
LEMMA TilingCut ==
  ASSUME NEW S, NEW U, NEW r, NEW T, Tiling(S \cup {r}, U), r \notin S, Tiling(T, Body(r))
  PROVE  Tiling(S \cup T, U)
<1>1. Tiling((S \cup {r}) \ {r}, U \ Body(r)) /\ (S \cup {r}) \ {r} = S
  BY TilingWithout
<1>2. (U \ Body(r)) \cap Body(r) = {} /\ (U \ Body(r)) \cup Body(r) = U
  BY TilingGives
<1> QED BY <1>1, <1>2, TilingBoth

\* A range tiles itself.
LEMMA TilingOfOne == ASSUME NEW r \in Sites PROVE Tiling({r}, Body(r))
BY CoverOfOne DEF Tiling

\* The lower and the upper half of a range of the next order.
Twins(r, s) ==
  r.order = s.order /\ s.first = Past(r) /\ Aligned(r.first, r.order + 1)
Merged(S) == \A r, s \in S : Twins(r, s) => r.order + 1 \notin Orders

\* Two halves make up a range of the next order.
LEMMA TwinsMake ==
  ASSUME NEW r \in Sites, NEW s \in Sites, Twins(r, s), r.order + 1 \in Orders
  PROVE  LET p == RangeAt(r.first, r.order + 1)
         IN  /\ p \in Sites /\ p.first = r.first /\ p.order = r.order + 1 /\ Past(p) = Past(s)
             /\ Body(p) = Body(r) \cup Body(s) /\ Body(r) \cap Body(s) = {} /\ r # s
<1> DEFINE p == RangeAt(r.first, r.order + 1)
<1>1. /\ r.order \in Nat /\ r.first \in Nat /\ Past(r) = r.first + Span(r.order)
      /\ s.first = Past(r) /\ Past(s) = s.first + Span(s.order) /\ s.order = r.order
      /\ Span(r.order) \in Nat /\ Past(s) <= PoolBlocks /\ r.first < Past(r)
  BY SiteIs DEF Twins
<1>2. Span(r.order + 1) = 2 * Span(r.order)
  BY <1>1, SpanStep
<1>3. r.first + Span(r.order + 1) = Past(s)
  BY <1>1, <1>2
<1>4. p \in Sites /\ p.first = r.first /\ p.order = r.order + 1
  BY <1>1, <1>3, SiteOf DEF Twins
<1> HIDE DEF p
<1>5. Past(p) = Past(s)
  BY <1>3, <1>4 DEF Past
<1>6. \A b : b \in Body(p) <=> b \in Body(r) \/ b \in Body(s)
  BY <1>1, <1>4, <1>5, InBody, SiteIs
<1>7. \A b : ~(b \in Body(r) /\ b \in Body(s))
  BY <1>1, InBody
<1>8. r # s
  BY <1>1
<1> QED BY <1>4, <1>5, <1>6, <1>7, <1>8 DEF p

\* A range and its buddy.
LEMMA BuddiesAreTwins ==
  ASSUME NEW r \in Sites
  PROVE  LET b == BuddyOf(r.first, r.order)
             s == RangeAt(b, r.order)
         IN  /\ b \in Nat /\ Aligned(b, r.order) /\ s.first = b /\ s.order = r.order
             /\ b + Span(r.order) <= PoolBlocks => s \in Sites /\ (Twins(r, s) \/ Twins(s, r))
             /\ b < r.first => Twins(s, r) /\ b + Span(r.order) = r.first
             /\ ~(b < r.first) => Twins(r, s)
<1> DEFINE b == BuddyOf(r.first, r.order)
           s == RangeAt(b, r.order)
           p == IF b < r.first THEN b ELSE r.first
           n == Span(r.order)
<1>1. /\ b \in Nat /\ Aligned(b, r.order) /\ Aligned(p, r.order + 1)
      /\ \/ p = r.first /\ b = r.first + n
         \/ p = b /\ r.first = b + n
  BY SiteIs, BuddyGives
<1>2. /\ n \in Nat /\ n > 0 /\ r.first \in Nat /\ r.order \in Orders /\ Past(r) = r.first + n
      /\ n = Span(r.order)
  BY SiteIs
<1>3. s.first = b /\ s.order = r.order /\ Past(s) = b + n
  BY DEF RangeAt, Past
<1> HIDE DEF b, s, n
<1>4. ASSUME b < r.first PROVE Twins(s, r) /\ b + n = r.first
  BY <1>1, <1>2, <1>3, <1>4 DEF Twins
<1>5. ASSUME ~(b < r.first) PROVE Twins(r, s)
  BY <1>1, <1>2, <1>3, <1>5 DEF Twins
<1>6. ASSUME b + n <= PoolBlocks PROVE s \in Sites
  BY <1>1, <1>2, <1>6, SiteOf DEF s, n
<1> QED BY <1>1, <1>3, <1>4, <1>5, <1>6 DEF b, s, n

\* The two halves are each other's buddies.
LEMMA TwinsAreBuddies ==
  ASSUME NEW r \in Sites, NEW s \in Sites, Twins(r, s)
  PROVE  BuddyOf(r.first, r.order) = s.first /\ BuddyOf(s.first, s.order) = r.first
<1>1. /\ r.order \in Nat /\ r.first \in Nat /\ Past(r) = r.first + Span(r.order)
      /\ s.first = Past(r) /\ s.order = r.order
  BY SiteIs DEF Twins
<1>2. BuddyOf(r.first, r.order) = s.first
  BY <1>1 DEF Twins, BuddyOf
<1>3. BuddyOf(BuddyOf(r.first, r.order), r.order) = r.first
  BY SiteIs, BuddyGives
<1> QED BY <1>1, <1>2, <1>3

-----------------------------------------------------------------------------
(* The pool as its free lists, the busy ranges G and the ranges in hand X, *)
(* which together tile the usable blocks U.                                *)

\* The free ranges.
Listed(L) ==
  {r \in [first : Blocks, order : Orders] : \E i \in 1..Len(L[r.order]) : L[r.order][i] = r.first}

\* The bit of a block is set when it is not usable or ends a busy range.
Marks(p, G, U) ==
  \A b \in Blocks : b \in p.map <=> b \notin U \/ \E g \in G : b = End(g.first, g.order)

Kept(p, L, G, X, U) ==
  /\ Listing(p, L) /\ Marks(p, G, U)
  /\ Listed(L) \cap G = {} /\ Listed(L) \cap X = {} /\ G \cap X = {}
  /\ Tiling(Listed(L) \cup G \cup X, U)

\* The contents of the blocks C are the same in two pools.
Quiet(p, q, C) == \A b \in C : q.head[b] = p.head[b] /\ q.tail[b] = p.tail[b]

\* freeBytes counts the free blocks.
Counts(p, L) == p.freeBytes = Cardinality(Cover(Listed(L)))

\* The free ranges, as entries of the lists.
LEMMA InListed ==
  ASSUME NEW p, NEW L, Listing(p, L), NEW r
  PROVE  r \in Listed(L) <=> \E k \in Orders : \E i \in 1..Len(L[k]) : r = RangeAt(L[k][i], k)
<1>1. \A k \in Orders : L[k] \in Seq(Blocks)
  BY DEF Listing, Chain
<1>2. ASSUME r \in Listed(L) PROVE \E k \in Orders : \E i \in 1..Len(L[k]) : r = RangeAt(L[k][i], k)
  <2>1. r \in [first : Blocks, order : Orders] /\ \E i \in 1..Len(L[r.order]) : L[r.order][i] = r.first
    BY <1>2 DEF Listed
  <2>2. r = [first |-> r.first, order |-> r.order]
    BY <2>1
  <2> QED BY <2>1, <2>2 DEF RangeAt
<1>3. ASSUME NEW k \in Orders, NEW i \in 1..Len(L[k]), r = RangeAt(L[k][i], k) PROVE r \in Listed(L)
  <2>1. L[k][i] \in Blocks
    BY <1>1, <1>3
  <2>2. r.first = L[k][i] /\ r.order = k /\ r \in [first : Blocks, order : Orders]
    BY <1>3, <2>1 DEF RangeAt
  <2> QED BY <2>2, <1>3 DEF Listed
<1> QED BY <1>2, <1>3

\* Each entry of a list is a free range.
LEMMA ListedPlace ==
  ASSUME NEW p, NEW L, Listing(p, L), NEW k \in Orders, NEW i \in 1..Len(L[k])
  PROVE  RangeAt(L[k][i], k) \in Listed(L)
         /\ RangeAt(L[k][i], k).first = L[k][i] /\ RangeAt(L[k][i], k).order = k
BY InListed DEF RangeAt

(* What tiles the usable blocks are ranges of the pool, no two of which    *)
(* meet.                                                                   *)
LEMMA KeptSites ==
  ASSUME NEW p, NEW L, NEW G, NEW X, NEW U, Kept(p, L, G, X, U)
  PROVE  /\ Listed(L) \subseteq Sites /\ G \subseteq Sites /\ X \subseteq Sites /\ U \subseteq Blocks
         /\ \A r, s \in Listed(L) \cup G \cup X : Meet(r, s) => r = s
<1>1. Tiling(Listed(L) \cup G \cup X, U)
  BY DEF Kept
<1>2. \A r \in Listed(L) \cup G \cup X : r \in Sites
  BY <1>1 DEF Tiling
<1>3. \A r, s \in Listed(L) \cup G \cup X : Meet(r, s) => r = s
  BY <1>1 DEF Tiling
<1>4. U \subseteq Blocks
  <2>1. ASSUME NEW b \in U PROVE b \in Blocks
    <3>1. PICK r \in Listed(L) \cup G \cup X : b \in Body(r)
      BY <1>1, TilingCovers
    <3> QED BY <3>1, <1>2, SiteIs
  <2> QED BY <2>1
<1> QED BY <1>2, <1>3, <1>4

\* No free range begins or ends where another range has a block.
LEMMA ListedElsewhere ==
  ASSUME NEW p, NEW L, NEW G, NEW X, NEW U, Kept(p, L, G, X, U), NEW x \in G \cup X, NEW b \in Body(x),
         NEW k \in Orders, NEW i \in 1..Len(L[k])
  PROVE  L[k][i] # b /\ End(L[k][i], k) # b
<1> DEFINE r == RangeAt(L[k][i], k)
<1>1. r \in Listed(L) /\ r.first = L[k][i] /\ r.order = k
  BY ListedPlace DEF Kept
<1>2. r # x
  BY <1>1 DEF Kept
<1> HIDE DEF r
<1>3. r \in Listed(L) \cup G \cup X /\ x \in Listed(L) \cup G \cup X
  BY <1>1
<1>4. r \in Sites /\ ~Meet(r, x)
  BY <1>1, <1>2, <1>3, KeptSites
<1>5. b \notin Body(r)
  BY <1>4 DEF Meet
<1>6. r.first \in Body(r) /\ End(r.first, r.order) \in Body(r)
  BY <1>4, SiteIs
<1> QED BY <1>1, <1>5, <1>6

\* Ranges in hand and busy ranges have no block in common.
LEMMA InHandElsewhere ==
  ASSUME NEW p, NEW L, NEW G, NEW X, NEW U, Kept(p, L, G, X, U), NEW x \in X \cup Listed(L),
         NEW b \in Cover(G)
  PROVE  b \in Blocks /\ b \notin Body(x)
<1>1. PICK g \in G : b \in Body(g)
  BY InCover
<1>2. g # x
  BY DEF Kept
<1>3. g \in Listed(L) \cup G \cup X /\ x \in Listed(L) \cup G \cup X
  OBVIOUS
<1>4. g \in Sites /\ ~Meet(g, x)
  BY <1>2, <1>3, KeptSites
<1> QED BY <1>1, <1>4, SiteIs DEF Meet

\* A range in hand enters its free list.
LEMMA KeepPush ==
  ASSUME NEW p, NEW L, NEW G, NEW X, NEW U, Kept(p, L, G, X, U), NEW x \in X
  PROVE  LET q == Push(p, x.first, x.order)
         IN  /\ \E M : Kept(q, M, G, X \ {x}, U) /\ Listed(M) = Listed(L) \cup {x}
             /\ q.map = p.map /\ q.freeBytes = p.freeBytes /\ Quiet(p, q, Cover(G))
<1> DEFINE q == Push(p, x.first, x.order)
           b == x.first
           k == x.order
           M == [L EXCEPT ![k] = Ahead(b, L[k])]
<1>1. /\ x \in Sites /\ b \in Blocks /\ k \in Orders /\ End(b, k) \in Blocks
      /\ b \in Body(x) /\ End(b, k) \in Body(x) /\ x = RangeAt(b, k)
  BY KeptSites, SiteIs
<1>2. \A j \in Orders : \A i \in 1..Len(L[j]) : L[j][i] # b /\ End(L[j][i], j) # End(b, k)
  <2>1. x \in G \cup X
    OBVIOUS
  <2> QED BY <1>1, <2>1, ListedElsewhere
<1>3. Listing(p, L) /\ PoolShape(p)
  BY DEF Kept, Listing
<1> HIDE DEF b, k
<1>4. /\ Listing(q, M) /\ q.map = p.map /\ q.freeBytes = p.freeBytes
      /\ q.tail = [p.tail EXCEPT ![End(b, k)] = k]
      /\ \A y \in Blocks : Unlisted(L, y) /\ y # b => q.head[y] = p.head[y]
  <2> HIDE DEF q
  <2>1. q = Push(p, b, k)
    BY DEF q, b, k
  <2> QED BY <1>1, <1>2, <1>3, <2>1, PushLists
<1> HIDE DEF q
<1>5. Listed(M) = Listed(L) \cup {x}
  <2>1. L[k] \in Seq(Blocks)
    BY <1>1, <1>3 DEF Listing, Chain
  <2>2. /\ Len(Ahead(b, L[k])) = Len(L[k]) + 1 /\ Len(L[k]) \in Nat /\ Ahead(b, L[k])[1] = b
        /\ \A i \in 1..Len(L[k]) : Ahead(b, L[k])[i + 1] = L[k][i]
        /\ \A i \in 2..(Len(L[k]) + 1) : Ahead(b, L[k])[i] = L[k][i - 1]
    BY <1>1, <2>1, AheadIs
  <2>3. M[k] = Ahead(b, L[k]) /\ \A j \in Orders \ {k} : M[j] = L[j]
    BY <1>1, <1>3 DEF Kept, Listing
  <2> HIDE DEF M
  <2>4. ASSUME NEW r \in Listed(M) PROVE r \in Listed(L) \cup {x}
    <3>1. PICK j \in Orders : \E i \in 1..Len(M[j]) : r = RangeAt(M[j][i], j)
      BY <1>4, InListed
    <3>2. PICK i \in 1..Len(M[j]) : r = RangeAt(M[j][i], j)
      BY <3>1
    <3>3. CASE j # k
      <4>1. M[j] = L[j]
        BY <2>3, <3>3
      <4> QED BY <3>2, <4>1, <1>3, ListedPlace
    <3>4. CASE j = k /\ i = 1
      BY <1>1, <2>2, <2>3, <3>2, <3>4
    <3>5. CASE j = k /\ i # 1
      <4>1. i \in 2..(Len(L[k]) + 1) /\ i - 1 \in 1..Len(L[k])
        BY <2>2, <2>3, <3>5
      <4>2. M[j][i] = L[k][i - 1]
        BY <2>2, <2>3, <3>5, <4>1
      <4>3. RangeAt(L[k][i - 1], k) \in Listed(L)
        BY <1>1, <1>3, <4>1, ListedPlace
      <4> QED BY <3>2, <3>5, <4>2, <4>3
    <3> QED BY <3>3, <3>4, <3>5
  <2>5. ASSUME NEW r \in Listed(L) PROVE r \in Listed(M)
    <3>1. PICK j \in Orders : \E i \in 1..Len(L[j]) : r = RangeAt(L[j][i], j)
      BY <1>3, InListed
    <3>2. PICK i \in 1..Len(L[j]) : r = RangeAt(L[j][i], j)
      BY <3>1
    <3>3. CASE j # k
      <4>1. M[j] = L[j]
        BY <2>3, <3>3
      <4> QED BY <3>2, <4>1, <1>4, ListedPlace
    <3>4. CASE j = k
      <4>1. i + 1 \in 1..Len(M[k]) /\ M[k][i + 1] = L[k][i]
        BY <2>2, <2>3, <3>4
      <4>2. RangeAt(M[k][i + 1], k) \in Listed(M)
        BY <1>1, <1>4, <4>1, ListedPlace
      <4> QED BY <3>2, <3>4, <4>1, <4>2
    <3> QED BY <3>3, <3>4
  <2>6. x \in Listed(M)
    <3>1. 1 \in 1..Len(M[k]) /\ M[k][1] = b
      BY <2>2, <2>3
    <3>2. RangeAt(M[k][1], k) \in Listed(M)
      BY <1>1, <1>4, <3>1, ListedPlace
    <3> QED BY <1>1, <3>1, <3>2
  <2> QED BY <2>4, <2>5, <2>6
<1> HIDE DEF M
<1>6. Kept(q, M, G, X \ {x}, U)
  <2>1. Listed(M) \cup G \cup (X \ {x}) = Listed(L) \cup G \cup X
    BY <1>5
  <2>2. Marks(q, G, U)
    BY <1>4 DEF Kept, Marks
  <2> QED BY <1>4, <1>5, <2>1, <2>2 DEF Kept
<1>7. Quiet(p, q, Cover(G))
  <2>1. ASSUME NEW c \in Cover(G) PROVE q.head[c] = p.head[c] /\ q.tail[c] = p.tail[c]
    <3>1. c \in Blocks /\ c \notin Body(x)
      <4>1. x \in X \cup Listed(L)
        OBVIOUS
      <4> QED BY <4>1, InHandElsewhere
    <3>2. c # b /\ c # End(b, k)
      BY <1>1, <3>1
    <3>3. PICK g \in G : c \in Body(g)
      BY InCover
    <3>4. Unlisted(L, c)
      <4>1. g \in G \cup X
        OBVIOUS
      <4> QED BY <3>3, <4>1, ListedElsewhere DEF Unlisted
    <3>5. q.head[c] = p.head[c]
      BY <1>4, <3>1, <3>2, <3>4
    <3>6. q.tail[c] = p.tail[c]
      BY <1>4, <1>3, <3>1, <3>2 DEF PoolShape
    <3> QED BY <3>5, <3>6
  <2> QED BY <2>1 DEF Quiet
<1> QED BY <1>4, <1>5, <1>6, <1>7 DEF q

-----------------------------------------------------------------------------
\* The pool with other freeBytes.
LEMMA SetBytes ==
  ASSUME NEW q, PoolShape(q), NEW e
  PROVE  LET r == [q EXCEPT !.freeBytes = e]
         IN  /\ PoolShape(r) /\ r.map = q.map /\ r.freeList = q.freeList /\ r.freeBytes = e
             /\ r.head = q.head /\ r.tail = q.tail
<1> DEFINE r == [q EXCEPT !.freeBytes = e]
<1>1. q = [map |-> q.map, freeList |-> q.freeList, freeBytes |-> q.freeBytes,
           head |-> q.head, tail |-> q.tail]
  BY DEF PoolShape
<1>2. r = [map |-> q.map, freeList |-> q.freeList, freeBytes |-> e, head |-> q.head, tail |-> q.tail]
  BY <1>1
<1> HIDE DEF r
<1>3. r.map = q.map /\ r.freeList = q.freeList /\ r.freeBytes = e /\ r.head = q.head /\ r.tail = q.tail
  BY <1>2
<1>4. PoolShape(r)
  BY <1>2, <1>3 DEF PoolShape
<1> QED BY <1>3, <1>4 DEF r

\* The pool with another bitmap.
LEMMA SetMap ==
  ASSUME NEW q, PoolShape(q), NEW e
  PROVE  LET r == [q EXCEPT !.map = e]
         IN  /\ PoolShape(r) /\ r.map = e /\ r.freeList = q.freeList /\ r.freeBytes = q.freeBytes
             /\ r.head = q.head /\ r.tail = q.tail
<1> DEFINE r == [q EXCEPT !.map = e]
<1>1. q = [map |-> q.map, freeList |-> q.freeList, freeBytes |-> q.freeBytes,
           head |-> q.head, tail |-> q.tail]
  BY DEF PoolShape
<1>2. r = [map |-> e, freeList |-> q.freeList, freeBytes |-> q.freeBytes,
           head |-> q.head, tail |-> q.tail]
  BY <1>1
<1> HIDE DEF r
<1>3. r.map = e /\ r.freeList = q.freeList /\ r.freeBytes = q.freeBytes /\ r.head = q.head /\ r.tail = q.tail
  BY <1>2
<1>4. PoolShape(r)
  BY <1>2, <1>3 DEF PoolShape
<1> QED BY <1>3, <1>4 DEF r

\* A free range leaves its list and is in hand.
Unlinked(p, q, L, G, X, U, r) ==
  /\ \E M : Kept(q, M, G, X \cup {r}, U) /\ Listed(M) = Listed(L) \ {r}
  /\ ~BadLinks(p, r.first)
  /\ q.map = p.map /\ q.freeBytes = p.freeBytes /\ q.tail = p.tail
  /\ PoolShape(q) /\ Quiet(p, q, Cover(G))

(* A range that leaves its list is in hand, its links are sound, and       *)
(* nothing else moves.                                                     *)
LEMMA KeepUnlink ==
  ASSUME NEW p, NEW L, NEW G, NEW X, NEW U, Kept(p, L, G, X, U), NEW r \in Listed(L)
  PROVE  Unlinked(p, Unlink(p, r.first, r.order), L, G, X, U, r)
<1> DEFINE q == Unlink(p, r.first, r.order)
<1>1. Listing(p, L) /\ PoolShape(p) /\ Apart(L)
  BY DEF Kept, Listing
<1>2. PICK k \in Orders : \E i \in 1..Len(L[k]) : r = RangeAt(L[k][i], k)
  BY <1>1, InListed
<1>3. PICK n \in 1..Len(L[k]) : r = RangeAt(L[k][n], k)
  BY <1>2
<1>4. r.first = L[k][n] /\ r.order = k
  BY <1>3 DEF RangeAt
<1> DEFINE M == [L EXCEPT ![k] = Without(L[k], n)]
<1>5. /\ ~BadLinks(p, r.first) /\ Listing(q, M)
      /\ q.map = p.map /\ q.freeBytes = p.freeBytes /\ q.tail = p.tail
      /\ \A y \in Blocks : Unlisted(L, y) => q.head[y] = p.head[y]
  <2> HIDE DEF q
  <2>1. q = Unlink(p, L[k][n], k)
    BY <1>4 DEF q
  <2> QED BY <1>1, <1>4, <2>1, UnlinkLists
<1> HIDE DEF q
<1>6. L[k] \in Seq(Blocks) /\ Len(L[k]) \in Nat
  BY <1>1 DEF Listing, Chain
<1>7. /\ Len(Without(L[k], n)) = Len(L[k]) - 1
      /\ \A i \in 1..(Len(L[k]) - 1) : Without(L[k], n)[i] = IF i < n THEN L[k][i] ELSE L[k][i + 1]
  BY <1>6, WithoutIs
<1>8. M[k] = Without(L[k], n) /\ \A j \in Orders \ {k} : M[j] = L[j]
  BY <1>1 DEF Listing
<1> HIDE DEF M
<1>9. Listed(M) = Listed(L) \ {r}
  <2>1. ASSUME NEW s \in Listed(M) PROVE s \in Listed(L) \ {r}
    <3>1. PICK j \in Orders : \E i \in 1..Len(M[j]) : s = RangeAt(M[j][i], j)
      BY <1>5, InListed
    <3>2. PICK i \in 1..Len(M[j]) : s = RangeAt(M[j][i], j)
      BY <3>1
    <3>3. PICK h \in 1..Len(L[j]) : M[j][i] = L[j][h] /\ (j = k => h # n)
      <4>1. CASE j # k
        BY <1>8, <4>1
      <4>2. CASE j = k /\ i < n
        <5>1. i \in 1..(Len(L[k]) - 1) /\ i \in 1..Len(L[k]) /\ i # n
          BY <1>6, <1>7, <1>8, <4>2
        <5> QED BY <1>7, <1>8, <4>2, <5>1
      <4>3. CASE j = k /\ ~(i < n)
        <5>1. i \in 1..(Len(L[k]) - 1) /\ i + 1 \in 1..Len(L[k]) /\ i + 1 # n
          BY <1>6, <1>7, <1>8, <4>3
        <5> QED BY <1>7, <1>8, <4>3, <5>1
      <4> QED BY <4>1, <4>2, <4>3
    <3>4. s \in Listed(L) /\ s.first = L[j][h] /\ s.order = j
      BY <1>1, <3>2, <3>3, ListedPlace
    <3>5. s # r
      <4>1. ASSUME s = r PROVE FALSE
        <5>1. j = k /\ L[j][h] = L[k][n]
          BY <1>4, <3>4, <4>1
        <5> QED BY <1>1, <3>3, <5>1 DEF Apart
      <4> QED BY <4>1
    <3> QED BY <3>4, <3>5
  <2>2. ASSUME NEW s \in Listed(L) \ {r} PROVE s \in Listed(M)
    <3>1. PICK j \in Orders : \E i \in 1..Len(L[j]) : s = RangeAt(L[j][i], j)
      BY <1>1, InListed
    <3>2. PICK i \in 1..Len(L[j]) : s = RangeAt(L[j][i], j)
      BY <3>1
    <3>3. CASE j # k
      <4>1. M[j] = L[j]
        BY <1>8, <3>3
      <4> QED BY <3>2, <4>1, <1>5, ListedPlace
    <3>4. CASE j = k
      <4>1. i # n
        BY <1>3, <3>2, <3>4
      <4> DEFINE h == IF i < n THEN i ELSE i - 1
      <4>2. h \in 1..Len(M[k]) /\ M[k][h] = L[k][i]
        <5>1. CASE i < n
          <6>1. i \in 1..(Len(L[k]) - 1)
            BY <1>6, <3>4, <5>1
          <6> QED BY <1>7, <1>8, <5>1, <6>1
        <5>2. CASE ~(i < n)
          <6>1. i - 1 \in 1..(Len(L[k]) - 1) /\ ~(i - 1 < n) /\ (i - 1) + 1 = i
            BY <1>6, <3>4, <4>1, <5>2
          <6> QED BY <1>7, <1>8, <5>2, <6>1
        <5> QED BY <5>1, <5>2
      <4> HIDE DEF h
      <4>3. RangeAt(M[k][h], k) \in Listed(M)
        BY <1>5, <4>2, ListedPlace
      <4> QED BY <3>2, <3>4, <4>2, <4>3
    <3> QED BY <3>3, <3>4
  <2> QED BY <2>1, <2>2
<1>10. Kept(q, M, G, X \cup {r}, U)
  <2>1. Listed(M) \cup G \cup (X \cup {r}) = Listed(L) \cup G \cup X
    BY <1>9
  <2>2. Marks(q, G, U)
    BY <1>5 DEF Kept, Marks
  <2> QED BY <1>5, <1>9, <2>1, <2>2 DEF Kept
<1>11. Quiet(p, q, Cover(G))
  <2>1. ASSUME NEW c \in Cover(G) PROVE q.head[c] = p.head[c]
    <3>1. c \in Blocks
      <4>1. r \in X \cup Listed(L)
        OBVIOUS
      <4> QED BY <4>1, InHandElsewhere
    <3>2. PICK g \in G : c \in Body(g)
      BY InCover
    <3>3. Unlisted(L, c)
      <4>1. g \in G \cup X
        OBVIOUS
      <4> QED BY <3>2, <4>1, ListedElsewhere DEF Unlisted
    <3> QED BY <1>5, <3>1, <3>3
  <2> QED BY <1>5, <2>1 DEF Quiet
<1>12. PoolShape(q)
  BY <1>5 DEF Listing
<1> QED BY <1>5, <1>9, <1>10, <1>11, <1>12 DEF Unlinked, q

\* What is written elsewhere than in free ranges leaves all as it is.
LEMMA KeepWrite ==
  ASSUME NEW p, NEW L, NEW G, NEW X, NEW U, Kept(p, L, G, X, U),
         NEW q, PoolShape(q), q.freeList = p.freeList, q.map = p.map,
         Quiet(p, q, Cover(Listed(L)))
  PROVE  Kept(q, L, G, X, U)
<1>1. Listing(p, L)
  BY DEF Kept
<1>2. ASSUME NEW k \in Orders, NEW i \in 1..Len(L[k])
      PROVE  q.head[L[k][i]] = p.head[L[k][i]] /\ q.tail[End(L[k][i], k)] = p.tail[End(L[k][i], k)]
  <2> DEFINE r == RangeAt(L[k][i], k)
  <2>1. r \in Listed(L) /\ r.first = L[k][i] /\ r.order = k
    BY <1>1, ListedPlace
  <2> HIDE DEF r
  <2>2. r \in Sites
    BY <2>1, KeptSites
  <2>3. r.first \in Cover(Listed(L)) /\ End(r.first, r.order) \in Cover(Listed(L))
    BY <2>1, <2>2, SiteIs, InCover
  <2> QED BY <2>1, <2>3 DEF Quiet
<1>3. Listing(q, L)
  BY <1>1, <1>2, ListsStay
<1>4. Marks(q, G, U)
  BY DEF Kept, Marks
<1> QED BY <1>3, <1>4 DEF Kept

\* One turn of toFree.
LEMMA KeepMakeFree ==
  ASSUME NEW p, NEW L, NEW G, NEW X, NEW U, Kept(p, L, G, X, U), NEW x \in X
  PROVE  LET q == makeFree(p, x)
         IN  /\ \E M : Kept(q, M, G, X \ {x}, U) /\ Listed(M) = Listed(L) \cup {x}
             /\ q.map = p.map /\ q.freeBytes = p.freeBytes + Span(x.order) /\ Quiet(p, q, Cover(G))
<1> DEFINE o == Push(p, x.first, x.order)
           q == makeFree(p, x)
<1>0. /\ \E M : Kept(o, M, G, X \ {x}, U) /\ Listed(M) = Listed(L) \cup {x}
      /\ o.map = p.map /\ o.freeBytes = p.freeBytes /\ Quiet(p, o, Cover(G))
  BY KeepPush
<1> HIDE DEF o
<1>1. PICK M : Kept(o, M, G, X \ {x}, U) /\ Listed(M) = Listed(L) \cup {x}
  BY <1>0
<1>2. o.map = p.map /\ o.freeBytes = p.freeBytes /\ Quiet(p, o, Cover(G))
  BY <1>0
<1>3. PoolShape(o)
  BY <1>1 DEF Kept, Listing
<1>4. q = [o EXCEPT !.freeBytes = o.freeBytes + Span(x.order)]
  BY DEF makeFree, o
<1> HIDE DEF q
<1>5. /\ PoolShape(q) /\ q.map = o.map /\ q.freeList = o.freeList
      /\ q.freeBytes = o.freeBytes + Span(x.order)
      /\ q.head = o.head /\ q.tail = o.tail
  BY <1>3, <1>4, SetBytes
<1>6. Kept(q, M, G, X \ {x}, U)
  <2>1. Quiet(o, q, Cover(Listed(M)))
    BY <1>5 DEF Quiet
  <2> QED BY <1>1, <1>5, <2>1, KeepWrite
<1>7. Quiet(p, q, Cover(G))
  BY <1>2, <1>5 DEF Quiet
<1> QED BY <1>1, <1>2, <1>5, <1>6, <1>7 DEF q

-----------------------------------------------------------------------------
(* What a range is cut into.                                               *)

\* The choice of toFree.
Fits(i, past) == {k \in Orders : i + Span(k) <= past /\ Aligned(i, k)}
Widest(i, past) == CHOOSE k \in Fits(i, past) : \A j \in Fits(i, past) : j <= k
Cut(past, c, i) ==
  IF i = past THEN <<>>
  ELSE <<RangeAt(i, Widest(i, past))>> \o c[i + Span(Widest(i, past))]
Cuts(past, c) == c = [i \in 0..past |-> Cut(past, c, i)]

\* No range of a higher order would begin there and end in time.
Largest(x, past) ==
  x.order + 1 \in Orders => ~(Aligned(x.first, x.order + 1) /\ x.first + Span(x.order + 1) <= past)

\* A range cut into pieces.
Cutting(s, first, past) ==
  /\ s \in Seq(Sites)
  /\ \A i \in 1..Len(s) : Largest(s[i], past)
  /\ \A i, j \in 1..Len(s) : s[i] = s[j] => i = j
  /\ Tiling({s[i] : i \in 1..Len(s)}, first..(past - 1))

\* There is always a piece to cut: the largest that is aligned and fits.
LEMMA WidestIs ==
  ASSUME NEW i \in Nat, NEW past \in Nat, i < past, past <= PoolBlocks
  PROVE  LET k == Widest(i, past)
             x == RangeAt(i, k)
         IN  /\ k \in Orders /\ k \in Nat /\ i + Span(k) <= past /\ Aligned(i, k)
             /\ i < i + Span(k) /\ i + Span(k) \in Nat
             /\ x \in Sites /\ Largest(x, past) /\ Past(x) = i + Span(k) /\ x.first = i /\ x.order = k
<1> DEFINE k == Widest(i, past)
           x == RangeAt(i, k)
<1>1. 0 \in Fits(i, past)
  <2>1. Aligned(i, 0)
    BY SpanZero DEF Aligned
  <2> QED BY <2>1, SpanZero, BlocksAre DEF Fits
<1>2. \E m \in Fits(i, past) : \A j \in Fits(i, past) : j <= m
  <2>1. Fits(i, past) \subseteq 0..NumSizes - 1 /\ NumSizes - 1 \in Nat
    BY SizeAssumption DEF Fits, Orders
  <2> QED BY <1>1, <2>1, GreatestOf
<1>3. k \in Fits(i, past) /\ \A j \in Fits(i, past) : j <= k
  BY <1>2, Zenon DEF Widest
<1> HIDE DEF k
<1>4. k \in Orders /\ k \in Nat /\ i + Span(k) <= past /\ Aligned(i, k)
  BY <1>3, BlocksAre DEF Fits
<1>5. Span(k) \in Nat /\ Span(k) > 0
  BY <1>4, SpanPositive
<1>6. i + Span(k) <= PoolBlocks
  BY <1>4, <1>5, BlocksAre
<1>7. x \in Sites /\ x.first = i /\ x.order = k
  BY <1>4, <1>6, SiteOf
<1>8. ASSUME k + 1 \in Orders, Aligned(i, k + 1), i + Span(k + 1) <= past PROVE FALSE
  <2>1. k + 1 \in Fits(i, past)
    BY <1>8 DEF Fits
  <2> QED BY <1>3, <1>4, <2>1
<1> HIDE DEF x
<1>9. Largest(x, past)
  BY <1>7, <1>8 DEF Largest
<1>10. Past(x) = i + Span(k)
  BY <1>7 DEF Past
<1>11. i < i + Span(k) /\ i + Span(k) \in Nat
  BY <1>5
<1> QED BY <1>4, <1>7, <1>9, <1>10, <1>11 DEF k, x

\* The function Pieces defines exists.
LEMMA CutsExist ==
  ASSUME NEW past \in Nat, past <= PoolBlocks
  PROVE  \E c : Cuts(past, c)
<1> DEFINE P(m) == \E c : c = [i \in (past - m)..past |-> Cut(past, c, i)]
           Bad == {m \in 0..past : ~P(m)}
<1>1. ASSUME Bad # {} PROVE FALSE
  <2>1. Bad \subseteq Nat
    OBVIOUS
  <2>2. PICK m \in Bad : \A e \in Bad : m <= e
    BY <1>1, <2>1, LeastOf
  <2>3. m \in 0..past /\ m \in Nat
    OBVIOUS
  <2>4. m # 0
    <3> DEFINE c == [i \in (past - 0)..past |-> <<>>]
    <3>1. \A i \in (past - 0)..past : i = past
      OBVIOUS
    <3>2. c = [i \in (past - 0)..past |-> Cut(past, c, i)]
      BY <3>1 DEF Cut
    <3> HIDE DEF c
    <3>3. P(0)
      BY <3>2
    <3> QED BY <3>3
  <2>5. m - 1 \in 0..past /\ m - 1 \notin Bad
    <3> HIDE DEF Bad
    <3> QED BY <2>2, <2>3, <2>4
  <2>6. PICK c : c = [i \in (past - (m - 1))..past |-> Cut(past, c, i)]
    BY <2>5
  <2> DEFINE h == [i \in (past - m)..past |-> IF i = past - m THEN Cut(past, c, i) ELSE c[i]]
  <2>7. past - m \in Nat /\ past - m < past /\ past - (m - 1) = (past - m) + 1
    BY <2>3, <2>4
  <2>8. \A i \in (past - (m - 1))..past : h[i] = c[i] /\ c[i] = Cut(past, c, i) /\ i \in Nat /\ i # past - m
    <3>1. ASSUME NEW i \in (past - (m - 1))..past
          PROVE  i \in Nat /\ i # past - m /\ i \in (past - m)..past
      BY <2>7
    <3>2. \A i \in (past - (m - 1))..past : h[i] = c[i]
      BY <3>1
    <3> HIDE DEF h
    <3>3. \A i \in (past - (m - 1))..past : c[i] = Cut(past, c, i)
      BY <2>6
    <3> QED BY <3>1, <3>2, <3>3
  <2>9. h[past - m] = Cut(past, c, past - m)
    BY <2>7
  <2>10. h = [i \in (past - m)..past |-> h[i]]
    OBVIOUS
  <2> HIDE DEF h
  <2>11. ASSUME NEW i \in (past - m)..past PROVE Cut(past, c, i) = Cut(past, h, i)
    <3>1. i \in Nat
      BY <2>7
    <3>2. CASE i = past
      BY <3>2 DEF Cut
    <3>3. CASE i < past
      <4>1. LET k == Widest(i, past) IN i < i + Span(k) /\ i + Span(k) <= past /\ i + Span(k) \in Nat
        BY <3>1, <3>3, WidestIs
      <4>2. i + Span(Widest(i, past)) \in (past - (m - 1))..past
        BY <2>7, <3>1, <4>1
      <4>3. c[i + Span(Widest(i, past))] = h[i + Span(Widest(i, past))]
        BY <2>8, <4>2
      <4> QED BY <4>3 DEF Cut
    <3> QED BY <3>1, <3>2, <3>3
  <2>12. ASSUME NEW i \in (past - m)..past PROVE h[i] = Cut(past, h, i)
    <3>1. CASE i = past - m
      BY <2>9, <2>11, <3>1
    <3>2. CASE i # past - m
      <4>1. i \in (past - (m - 1))..past
        BY <2>7, <3>2
      <4> QED BY <2>8, <2>11, <4>1
    <3> QED BY <3>1, <3>2
  <2>13. P(m)
    BY <2>10, <2>12
  <2> QED BY <2>2, <2>13
<1>2. P(past)
  <2>1. past \in 0..past
    OBVIOUS
  <2> HIDE DEF P
  <2> QED BY <1>1, <2>1
<1>3. past - past = 0
  OBVIOUS
<1> QED BY <1>2, <1>3 DEF Cuts

\* A piece on the left of what is cut already.
LEMMA CutAhead ==
  ASSUME NEW x \in Sites, NEW past \in Nat, Past(x) <= past, Largest(x, past),
         NEW s, Cutting(s, Past(x), past)
  PROVE  Cutting(<<x>> \o s, x.first, past)
<1> DEFINE t == <<x>> \o s
           S == {s[i] : i \in 1..Len(s)}
           T == {t[i] : i \in 1..Len(t)}
<1>1. s \in Seq(Sites) /\ Len(s) \in Nat
  BY DEF Cutting
<1>2. /\ t \in Seq(Sites) /\ Len(t) = Len(s) + 1 /\ t[1] = x
      /\ \A i \in 2..(Len(s) + 1) : t[i] = s[i - 1]
  BY <1>1, ConcatIs
<1> HIDE DEF t
<1>3. T = {x} \cup S
  <2>1. ASSUME NEW e \in T PROVE e \in {x} \cup S
    <3>1. PICK i \in 1..Len(t) : e = t[i]
      OBVIOUS
    <3>2. CASE i = 1
      BY <1>2, <3>1, <3>2
    <3>3. CASE i # 1
      <4>1. i \in 2..(Len(s) + 1) /\ i - 1 \in 1..Len(s)
        BY <1>1, <1>2, <3>3
      <4> QED BY <1>2, <3>1, <4>1
    <3> QED BY <3>2, <3>3
  <2>2. x \in T
    <3>1. 1 \in 1..Len(t)
      BY <1>1, <1>2
    <3> QED BY <1>2, <3>1
  <2>3. ASSUME NEW e \in S PROVE e \in T
    <3>1. PICK i \in 1..Len(s) : e = s[i]
      OBVIOUS
    <3>2. i + 1 \in 1..Len(t) /\ t[i + 1] = s[i]
      BY <1>1, <1>2
    <3> QED BY <3>1, <3>2
  <2> HIDE DEF T, S
  <2> QED BY <2>1, <2>2, <2>3
<1>4. Tiling(S, Past(x)..(past - 1))
  BY DEF Cutting
<1>5. /\ x.first \in Nat /\ Past(x) \in Nat /\ x.first < Past(x) /\ x.first \in Body(x)
      /\ Tiling({x}, Body(x)) /\ Body(x) = x.first..(Past(x) - 1)
  BY SiteIs, TilingOfOne DEF Body
<1>6. Body(x) \cap (Past(x)..(past - 1)) = {} /\ Body(x) \cup (Past(x)..(past - 1)) = x.first..(past - 1)
  BY <1>5
<1> HIDE DEF S, T
<1>7. Tiling(T, x.first..(past - 1))
  BY <1>3, <1>4, <1>5, <1>6, TilingBoth
<1>8. \A i \in 1..Len(s) : s[i] # x
  <2>1. ASSUME NEW i \in 1..Len(s), s[i] = x PROVE FALSE
    <3>1. x \in S
      BY <2>1 DEF S
    <3>2. x.first \in Past(x)..(past - 1)
      BY <1>4, <1>5, <3>1, TilingGives
    <3> QED BY <1>5, <3>2
  <2> QED BY <2>1
<1>9. ASSUME NEW i \in 1..Len(t) PROVE i = 1 \/ (i - 1 \in 1..Len(s) /\ t[i] = s[i - 1])
  <2>1. i # 1 => i \in 2..(Len(s) + 1) /\ i - 1 \in 1..Len(s)
    BY <1>1, <1>2
  <2> QED BY <1>2, <2>1
<1>10. \A i \in 1..Len(t) : Largest(t[i], past)
  BY <1>2, <1>9 DEF Cutting
<1>11. ASSUME NEW i \in 1..Len(t), NEW j \in 1..Len(t), t[i] = t[j] PROVE i = j
  <2>1. CASE i = 1 /\ j = 1
    BY <2>1
  <2>2. CASE i = 1 /\ j # 1
    BY <1>2, <1>8, <1>9, <1>11, <2>2
  <2>3. CASE i # 1 /\ j = 1
    BY <1>2, <1>8, <1>9, <1>11, <2>3
  <2>4. CASE i # 1 /\ j # 1
    <3>1. i - 1 = j - 1
      BY <1>9, <1>11, <2>4 DEF Cutting
    <3> QED BY <3>1
  <2> QED BY <2>1, <2>2, <2>3, <2>4
<1> QED BY <1>2, <1>7, <1>10, <1>11 DEF Cutting, T, t

(* What toFree cuts tiles the part it is given, and each piece is as large *)
(* as can be.                                                              *)
LEMMA PiecesCut ==
  ASSUME NEW first \in Nat, NEW past \in Nat, first <= past, past <= PoolBlocks
  PROVE  Cutting(Pieces(first, past), first, past)
<1>0. Cutting(<<>>, past, past)
  <2>1. <<>> \in Seq(Sites) /\ Len(<<>>) = 0 /\ 1..0 = {} /\ past..(past - 1) = {}
    OBVIOUS
  <2>2. Tiling({}, {})
    BY DEF Tiling, Cover
  <2>3. {(<<>>)[i] : i \in 1..0} = {}
    BY <2>1
  <2> QED BY <2>1, <2>2, <2>3 DEF Cutting
<1> DEFINE P(c) == c = [i \in 0..past |->
                          IF i = past THEN <<>>
                          ELSE LET k == CHOOSE k \in {h \in Orders : i + Span(h) <= past /\ Aligned(i, h)} :
                                          \A j \in {h \in Orders : i + Span(h) <= past /\ Aligned(i, h)} : j <= k
                               IN  <<[first |-> i, order |-> k]>> \o c[i + Span(k)]]
<1>1. \A c : P(c) <=> Cuts(past, c)
  BY DEF Cuts, Cut, Widest, Fits, RangeAt
<1> DEFINE cut == CHOOSE c : P(c)
<1>2. first < past => Pieces(first, past) = cut[first]
  BY DEF Pieces
<1> HIDE DEF P
<1>7. P(cut)
  <2>1. \E c : P(c)
    BY <1>1, CutsExist
  <2> QED BY <2>1, Zenon
<1> HIDE DEF cut
<1>8. Cuts(past, cut)
  BY <1>1, <1>7
<1>3. \A i \in 0..past : cut[i] = Cut(past, cut, i)
  BY <1>8 DEF Cuts
<1> DEFINE Bad == {m \in 0..past : ~Cutting(cut[past - m], past - m, past)}
<1>4. ASSUME Bad # {} PROVE FALSE
  <2>1. Bad \subseteq Nat
    OBVIOUS
  <2>2. PICK m \in Bad : \A e \in Bad : m <= e
    BY <1>4, <2>1, LeastOf
  <2>3. m \in 0..past /\ m \in Nat /\ past - m \in 0..past
    OBVIOUS
  <2>4. ~Cutting(cut[past - m], past - m, past)
    OBVIOUS
  <2>5. m # 0
    <3>1. cut[past] = <<>> /\ past - 0 = past
      <4>1. past \in 0..past
        OBVIOUS
      <4>2. cut[past] = Cut(past, cut, past)
        BY <1>3, <4>1
      <4> QED BY <4>2 DEF Cut
    <3>2. Cutting(cut[past - 0], past - 0, past)
      BY <3>1, <1>0
    <3> QED BY <2>4, <3>2
  <2> DEFINE i == past - m
             k == Widest(i, past)
             x == RangeAt(i, k)
  <2>6. /\ i + Span(k) <= past /\ i < i + Span(k) /\ i + Span(k) \in Nat
        /\ x \in Sites /\ Largest(x, past) /\ Past(x) = i + Span(k) /\ x.first = i
    <3>1. i \in Nat /\ i < past
      BY <2>3, <2>5
    <3> HIDE DEF i
    <3> QED BY <3>1, WidestIs
  <2>7. cut[i] = <<x>> \o cut[i + Span(k)]
    <3>1. i # past /\ i \in 0..past
      BY <2>3, <2>5
    <3> HIDE DEF i
    <3> QED BY <1>3, <3>1 DEF Cut
  <2> HIDE DEF k, x
  <2> DEFINE e == past - (i + Span(k))
  <2>8. e \in 0..past /\ e < m /\ past - e = i + Span(k)
    BY <2>3, <2>6
  <2> HIDE DEF e
  <2>9. Cutting(cut[past - e], past - e, past)
    BY <2>2, <2>3, <2>8
  <2>10. Cutting(cut[i], i, past)
    <3>1. Cutting(cut[i + Span(k)], Past(x), past)
      BY <2>6, <2>8, <2>9
    <3> HIDE DEF i
    <3> QED BY <2>6, <2>7, <3>1, CutAhead
  <2> QED BY <2>4, <2>10
<1>5. CASE first < past
  <2>1. past - first \in 0..past /\ past - (past - first) = first
    BY <1>5
  <2>2. Cutting(cut[past - (past - first)], past - (past - first), past)
    BY <1>4, <2>1
  <2> QED BY <1>2, <1>5, <2>1, <2>2
<1>6. CASE first = past
  <2>1. Pieces(first, past) = <<>>
    BY <1>6 DEF Pieces
  <2> QED BY <1>0, <1>6, <2>1
<1> QED BY <1>5, <1>6

-----------------------------------------------------------------------------
(* toFree: ranges in hand enter the lists of their orders, one by one.     *)

\* The elements of a part of a sequence.
Items(s, m, n) == {s[i] : i \in m..n}

\* A range has as many blocks as its order says.
LEMMA BodySize ==
  ASSUME NEW x \in Sites
  PROVE  IsFiniteSet(Body(x)) /\ Cardinality(Body(x)) = Span(x.order)
<1>1. /\ Body(x) = x.first..(Past(x) - 1) /\ x.first \in Nat /\ Past(x) \in Nat /\ x.first < Past(x)
      /\ Past(x) = x.first + Span(x.order) /\ Span(x.order) \in Nat
  BY SiteIs DEF Body
<1>2. x.first \in Int /\ Past(x) - 1 \in Int /\ x.first <= Past(x) - 1
  BY <1>1
<1>3. IsFiniteSet(x.first..(Past(x) - 1))
      /\ Cardinality(x.first..(Past(x) - 1))
           = IF x.first > Past(x) - 1 THEN 0 ELSE (Past(x) - 1) - x.first + 1
  BY <1>2, FS_Interval
<1> QED BY <1>1, <1>2, <1>3

\* Sets of blocks are finite.
LEMMA BlocksFinite ==
  ASSUME NEW S \in SUBSET Blocks
  PROVE  IsFiniteSet(S) /\ Cardinality(S) \in Nat /\ Cardinality(S) <= PoolBlocks
<1>1. IsFiniteSet(Blocks) /\ Cardinality(Blocks) = PoolBlocks
  <2>1. 0 \in Int /\ PoolBlocks - 1 \in Int /\ PoolBlocks \in Nat
    BY BlocksAre
  <2>2. IsFiniteSet(0..(PoolBlocks - 1))
        /\ Cardinality(0..(PoolBlocks - 1)) = IF 0 > PoolBlocks - 1 THEN 0 ELSE (PoolBlocks - 1) - 0 + 1
    BY <2>1, FS_Interval
  <2> QED BY <2>1, <2>2 DEF Blocks
<1>2. IsFiniteSet(S) /\ Cardinality(S) <= Cardinality(Blocks)
  BY <1>1, FS_Subset
<1> QED BY <1>1, <1>2, FS_CardinalityType

\* Disjoint sets of blocks count together.
LEMMA SizeOfBoth ==
  ASSUME NEW S \in SUBSET Blocks, NEW T \in SUBSET Blocks, S \cap T = {}
  PROVE  Cardinality(S \cup T) = Cardinality(S) + Cardinality(T)
<1>1. IsFiniteSet(S) /\ IsFiniteSet(T) /\ Cardinality(S) \in Nat /\ Cardinality(T) \in Nat
  BY BlocksFinite
<1>2. Cardinality(S \cup T) = Cardinality(S) + Cardinality(T) - Cardinality(S \cap T)
  BY <1>1, FS_Union
<1>3. Cardinality(S \cap T) = 0
  BY FS_EmptySet
<1> QED BY <1>1, <1>2, <1>3

\* Ranges of the pool cover blocks of the pool.
LEMMA CoverInBlocks == ASSUME NEW S \in SUBSET Sites PROVE Cover(S) \subseteq Blocks
<1>1. ASSUME NEW b \in Cover(S) PROVE b \in Blocks
  <2>1. PICK r \in S : b \in Body(r)
    BY InCover
  <2> QED BY <2>1, SiteIs
<1> QED BY <1>1

\* The blocks of one more range.
LEMMA CoverWith == ASSUME NEW S, NEW x PROVE Cover(S \cup {x}) = Cover(S) \cup Body(x)
<1>1. Cover(S \cup {x}) = Cover(S) \cup Cover({x})
  BY CoverOfTwo, Zenon
<1>2. Cover({x}) = Body(x)
  BY CoverOfOne, Zenon
<1> QED BY <1>1, <1>2

\* Ranges apart from x and the blocks of x.
LEMMA CoverGrows ==
  ASSUME NEW S \in SUBSET Sites, NEW x \in Sites, \A r \in S : ~Meet(r, x)
  PROVE  /\ Cover(S \cup {x}) = Cover(S) \cup Body(x) /\ Cover(S) \cap Body(x) = {}
         /\ Cardinality(Cover(S \cup {x})) = Cardinality(Cover(S)) + Span(x.order)
<1>1. Cover(S \cup {x}) = Cover(S) \cup Body(x)
  BY CoverWith
<1>2. Cover(S) \cap Body(x) = {}
  <2>1. ASSUME NEW b \in Cover(S), b \in Body(x) PROVE FALSE
    <3>1. PICK r \in S : b \in Body(r)
      BY InCover
    <3> QED BY <2>1, <3>1 DEF Meet
  <2> QED BY <2>1
<1>3. Cover(S) \subseteq Blocks /\ Body(x) \subseteq Blocks
  BY CoverInBlocks, SiteIs
<1>4. Cardinality(Cover(S) \cup Body(x)) = Cardinality(Cover(S)) + Cardinality(Body(x))
  BY <1>2, <1>3, SizeOfBoth
<1> QED BY <1>1, <1>2, <1>4, BodySize

\* From p, all of X entered the lists and Y has not yet.
Freed(p, q, L, G, X, Y, U) ==
  /\ \E M : Kept(q, M, G, Y, U) /\ Listed(M) = Listed(L) \cup X /\ Counts(q, M)
  /\ q.map = p.map /\ Quiet(p, q, Cover(G))

\* Before the first turn of toFree.
LEMMA FreedNone ==
  ASSUME NEW p, NEW L, NEW G, NEW Y, NEW U, Kept(p, L, G, Y, U), Counts(p, L)
  PROVE  Freed(p, p, L, G, {}, Y, U)
<1>1. Listed(L) = Listed(L) \cup {}
  OBVIOUS
<1> QED BY <1>1 DEF Freed, Quiet

\* A turn of toFree.
LEMMA FreedOne ==
  ASSUME NEW p, NEW q, NEW L, NEW G, NEW X, NEW Y, NEW U, Freed(p, q, L, G, X, Y, U), NEW x \in Y
  PROVE  Freed(p, makeFree(q, x), L, G, X \cup {x}, Y \ {x}, U)
<1> DEFINE o == makeFree(q, x)
<1>1. PICK M : Kept(q, M, G, Y, U) /\ Listed(M) = Listed(L) \cup X /\ Counts(q, M)
  BY DEF Freed
<1>2. q.map = p.map /\ Quiet(p, q, Cover(G))
  BY DEF Freed
<1>3. /\ \E N : Kept(o, N, G, Y \ {x}, U) /\ Listed(N) = Listed(M) \cup {x}
      /\ o.map = q.map /\ o.freeBytes = q.freeBytes + Span(x.order) /\ Quiet(q, o, Cover(G))
  BY <1>1, KeepMakeFree
<1> HIDE DEF o
<1>4. PICK N : Kept(o, N, G, Y \ {x}, U) /\ Listed(N) = Listed(M) \cup {x}
  BY <1>3
<1>5. Counts(o, N)
  <2>1. Listed(M) \subseteq Sites /\ x \in Sites
    BY <1>1, KeptSites
  <2>2. ASSUME NEW r \in Listed(M), Meet(r, x) PROVE FALSE
    <3>1. r \in Listed(M) \cup G \cup Y /\ x \in Listed(M) \cup G \cup Y /\ r # x
      BY <1>1 DEF Kept
    <3> QED BY <1>1, <2>2, <3>1, KeptSites
  <2>3. Cardinality(Cover(Listed(M) \cup {x})) = Cardinality(Cover(Listed(M))) + Span(x.order)
    BY <2>1, <2>2, CoverGrows
  <2> QED BY <1>1, <1>3, <1>4, <2>3 DEF Counts
<1>6. Listed(N) = Listed(L) \cup (X \cup {x})
  BY <1>1, <1>4
<1>7. Quiet(p, o, Cover(G))
  BY <1>2, <1>3 DEF Quiet
<1> QED BY <1>2, <1>3, <1>4, <1>5, <1>6, <1>7 DEF Freed, o

\* All turns of toFree.
LEMMA FreedAll ==
  ASSUME NEW p, NEW L, NEW G, NEW U, NEW s \in Seq(Sites), \A i, j \in 1..Len(s) : s[i] = s[j] => i = j,
         Kept(p, L, G, Items(s, 1, Len(s)), U), Counts(p, L)
  PROVE  Freed(p, FoldLeft(makeFree, p, s), L, G, Items(s, 1, Len(s)), {}, U)
<1> DEFINE n == Len(s)
<1>1. n \in Nat /\ DOMAIN s = 1..n
  OBVIOUS
<1>0. PICK r : PushRun(p, s, n, r) /\ r[n] = FoldLeft(makeFree, p, s)
  BY <1>1, FoldPushes
<1>2. /\ r[0] = p /\ r[n] = FoldLeft(makeFree, p, s)
      /\ \A i \in 1..n : r[i] = makeFree(r[i - 1], s[i])
  BY <1>0 DEF PushRun
<1> DEFINE Q(m) == Freed(p, r[m], L, G, Items(s, 1, m), Items(s, m + 1, n), U)
           Bad == {m \in 0..n : ~Q(m)}
<1>3. ASSUME Bad # {} PROVE FALSE
  <2>1. Bad \subseteq Nat
    BY <1>1
  <2>2. PICK m \in Bad : \A e \in Bad : m <= e
    BY <1>3, <2>1, LeastOf
  <2>3. m \in Nat /\ m <= n /\ ~Q(m)
    BY <1>1
  <2>4. m # 0
    <3>1. Items(s, 1, 0) = {} /\ 0 + 1 = 1
      BY DEF Items
    <3>2. Freed(p, p, L, G, {}, Items(s, 1, n), U)
      BY FreedNone
    <3>3. Q(0)
      BY <1>2, <3>1, <3>2
    <3> QED BY <2>3, <3>3
  <2>5. Q(m - 1)
    <3>1. m - 1 \in 0..n /\ m - 1 \in Nat /\ m - 1 < m
      BY <1>1, <2>3, <2>4
    <3> HIDE DEF Q
    <3>2. m - 1 \notin Bad
      <4> HIDE DEF Bad
      <4> QED BY <2>2, <2>3, <3>1
    <3> QED BY <3>1, <3>2
  <2>6. m \in 1..n /\ (m - 1) + 1 = m
    BY <1>1, <2>3, <2>4
  <2>7. s[m] \in Items(s, m, n)
    BY <1>1, <2>6 DEF Items
  <2>8. Items(s, 1, m - 1) \cup {s[m]} = Items(s, 1, m)
    <3>1. \A i \in Int : i \in 1..m <=> (i \in 1..(m - 1) \/ i = m)
      BY <2>6
    <3> QED BY <3>1 DEF Items
  <2>9. Items(s, m, n) \ {s[m]} = Items(s, m + 1, n)
    <3>1. \A i \in Int : i \in m..n <=> (i \in (m + 1)..n \/ i = m)
      BY <2>6, <1>1
    <3>2. \A i \in (m + 1)..n : i # m /\ i \in 1..n
      BY <2>6, <1>1
    <3>3. \A i \in (m + 1)..n : s[i] # s[m]
      BY <3>2, <2>6
    <3> QED BY <3>1, <3>3 DEF Items
  <2>10. Freed(p, r[m - 1], L, G, Items(s, 1, m - 1), Items(s, m, n), U)
    BY <2>5, <2>6
  <2>11. Freed(p, makeFree(r[m - 1], s[m]), L, G, Items(s, 1, m - 1) \cup {s[m]}, Items(s, m, n) \ {s[m]}, U)
    BY <2>7, <2>10, FreedOne
  <2> QED BY <1>2, <2>3, <2>6, <2>8, <2>9, <2>11
<1>4. Q(n)
  <2>1. n \in 0..n
    BY <1>1
  <2> HIDE DEF Q
  <2> QED BY <1>3, <2>1
<1>5. Items(s, n + 1, n) = {}
  BY <1>1 DEF Items
<1> QED BY <1>2, <1>4, <1>5

\* What toFree makes of a part of the pool that is in hand.
LEMMA ToFreeIs ==
  ASSUME NEW p, NEW L, NEW G, NEW U, NEW first \in Nat, NEW past \in Nat,
         first <= past, past <= PoolBlocks,
         NEW X, X = Items(Pieces(first, past), 1, Len(Pieces(first, past))),
         Kept(p, L, G, X, U), Counts(p, L)
  PROVE  Freed(p, toFree(p, first, past), L, G, X, {}, U)
<1>1. Cutting(Pieces(first, past), first, past)
  BY PiecesCut
<1> QED BY <1>1, FreedAll DEF Cutting, toFree

\* The pieces as a set.
LEMMA PiecesAre ==
  ASSUME NEW first \in Nat, NEW past \in Nat, first <= past, past <= PoolBlocks,
         NEW X, X = Items(Pieces(first, past), 1, Len(Pieces(first, past)))
  PROVE  /\ Tiling(X, first..(past - 1)) /\ Merged(X)
         /\ \A x \in X : x \in Sites /\ Largest(x, past) /\ first <= x.first /\ Past(x) <= past
<1> DEFINE s == Pieces(first, past)
<1>1. Cutting(s, first, past)
  BY PiecesCut
<1> HIDE DEF s
<1>2. X = {s[i] : i \in 1..Len(s)}
  BY DEF Items, s
<1>3. Tiling(X, first..(past - 1))
  BY <1>1, <1>2 DEF Cutting
<1>4. ASSUME NEW x \in X PROVE x \in Sites /\ Largest(x, past) /\ first <= x.first /\ Past(x) <= past
  <2>1. x \in Sites /\ Body(x) \subseteq first..(past - 1)
    BY <1>3, TilingGives
  <2>2. Largest(x, past)
    BY <1>1, <1>2 DEF Cutting
  <2>3. /\ x.first \in Body(x) /\ End(x.first, x.order) \in Body(x)
        /\ End(x.first, x.order) = Past(x) - 1 /\ Past(x) \in Nat
    BY <2>1, SiteIs
  <2>4. x.first \in first..(past - 1) /\ Past(x) - 1 \in first..(past - 1)
    BY <2>1, <2>3
  <2> QED BY <2>1, <2>2, <2>3, <2>4
<1>5. ASSUME NEW x \in X, NEW y \in X, Twins(x, y), x.order + 1 \in Orders PROVE FALSE
  <2>1. LET q == RangeAt(x.first, x.order + 1) IN q.first = x.first /\ q.order = x.order + 1 /\ Past(q) = Past(y)
    BY <1>4, <1>5, TwinsMake
  <2>2. x.first + Span(x.order + 1) = Past(y)
    BY <2>1 DEF Past
  <2>3. Past(y) <= past /\ Largest(x, past)
    BY <1>4
  <2> QED BY <1>5, <2>2, <2>3 DEF Largest, Twins
<1> QED BY <1>3, <1>4, <1>5 DEF Merged

\* The pieces of a part of r have no twin outside r.
LEMMA CutMerged ==
  ASSUME NEW S \in SUBSET Sites, NEW r \in Sites, \A f \in S : ~Meet(f, r), Merged(S),
         NEW X \in SUBSET Sites, Merged(X), \A x \in X : Body(x) \subseteq Body(r) /\ x.order < r.order
  PROVE  Merged(S \cup X)
<1>1. ASSUME NEW x \in Sites, NEW y \in Sites, Twins(x, y), x.order + 1 \in Orders,
             NEW a \in {x, y}, NEW f \in {x, y}, a \in X, f \in S
      PROVE  FALSE
  <2> DEFINE q == RangeAt(x.first, x.order + 1)
  <2>1. q \in Sites /\ q.order = x.order + 1 /\ Body(q) = Body(x) \cup Body(y)
    BY <1>1, TwinsMake
  <2> HIDE DEF q
  <2>2. a.order = x.order /\ f.order = x.order
    BY <1>1 DEF Twins
  <2>3. Body(a) \subseteq Body(r) /\ a.order < r.order /\ a \in Sites
    BY <1>1
  <2>4. q.order <= r.order
    BY <2>1, <2>2, <2>3, SiteIs
  <2>5. Meet(q, r)
    <3>1. a.first \in Body(a)
      BY <2>3, SiteIs
    <3>2. a.first \in Body(q) /\ a.first \in Body(r)
      BY <2>1, <2>3, <3>1, <1>1
    <3> QED BY <3>2 DEF Meet
  <2>6. Body(q) \subseteq Body(r)
    BY <2>1, <2>4, <2>5, MeetNested
  <2>7. f \in Sites /\ f.first \in Body(f) /\ Body(f) \subseteq Body(q)
    BY <1>1, <2>1, SiteIs
  <2>8. Meet(f, r)
    BY <2>6, <2>7 DEF Meet
  <2> QED BY <1>1, <2>8
<1>2. ASSUME NEW x \in S \cup X, NEW y \in S \cup X, Twins(x, y), x.order + 1 \in Orders PROVE FALSE
  <2>0. x \in Sites /\ y \in Sites /\ x \in {x, y} /\ y \in {x, y}
    OBVIOUS
  <2>1. CASE x \in S /\ y \in S
    BY <1>2, <2>1 DEF Merged
  <2>2. CASE x \in X /\ y \in X
    BY <1>2, <2>2 DEF Merged
  <2>3. CASE x \in S /\ y \in X
    BY <1>1, <1>2, <2>0, <2>3
  <2>4. CASE x \in X /\ y \in S
    BY <1>1, <1>2, <2>0, <2>4
  <2> QED BY <2>1, <2>2, <2>3, <2>4
<1> QED BY <1>2 DEF Merged

-----------------------------------------------------------------------------
(* A range of which the first part is kept and the rest is cut up.         *)

Rest(r, k) == Items(Pieces(r.first + Span(k), Past(r)), 1, Len(Pieces(r.first + Span(k), Past(r))))

\* Tilings of areas apart have no tile in common.
LEMMA TilingApart ==
  ASSUME NEW S, NEW T, NEW U, NEW V, Tiling(S, U), Tiling(T, V), U \cap V = {} PROVE S \cap T = {}
<1>1. ASSUME NEW r \in S, r \in T PROVE FALSE
  <2>1. r \in Sites /\ Body(r) \subseteq U
    BY TilingGives
  <2>2. Body(r) \subseteq V
    BY <1>1, TilingGives
  <2>3. r.first \in Body(r)
    BY <2>1, SiteIs
  <2> QED BY <2>1, <2>2, <2>3
<1> QED BY <1>1

(* The range r of a tiling is replaced by its first part x and the pieces  *)
(* X.                                                                      *)
Split(S, U, r, k, x, X) ==
  /\ x \in Sites /\ x.first = r.first /\ x.order = k /\ Body(x) \subseteq Body(r)
  /\ r.first + Span(k) <= Past(r) /\ Past(r) <= PoolBlocks
  /\ r.first + Span(k) \in Nat /\ Past(r) \in Nat
  /\ Tiling(S \cup ({x} \cup X), U)
  /\ x \notin S /\ x \notin X /\ S \cap X = {}
  /\ \A f \in S : ~Meet(f, r)
  /\ \A T \in SUBSET S : Merged(T) => Merged(T \cup X)

(* A range cut after its first part leaves a tiling, and no two pieces     *)
(* that could be merged.                                                   *)
LEMMA SplitIs ==
  ASSUME NEW S, NEW U, NEW r, Tiling(S \cup {r}, U), r \notin S, NEW k \in Orders, k <= r.order
  PROVE  Split(S, U, r, k, RangeAt(r.first, k), Rest(r, k))
<1> DEFINE x == RangeAt(r.first, k)
           X == Rest(r, k)
           mid == r.first + Span(k)
<1>1. r \in Sites /\ S \subseteq Sites
  BY DEF Tiling
<1>2. /\ r.first \in Nat /\ r.order \in Nat /\ Past(r) = r.first + Span(r.order) /\ Past(r) \in Nat
      /\ Past(r) <= PoolBlocks /\ Aligned(r.first, r.order) /\ PoolBlocks \in Nat
  BY <1>1, SiteIs, BlocksAre DEF Sited
<1>3. k \in Nat /\ Span(k) \in Nat /\ Span(k) > 0 /\ Span(k) <= Span(r.order)
  BY <1>2, BlocksAre, SpanPositive, SpanGrows
<1>4. mid \in Nat /\ r.first < mid /\ mid <= Past(r) /\ mid <= PoolBlocks
  BY <1>2, <1>3, SpanPositive
<1>5. Aligned(r.first, k)
  <2>1. PICK q \in Nat : r.first = q * Span(r.order)
    BY <1>2, AlignedIs
  <2>2. PICK c \in Nat \ {0} : Span(r.order) = c * Span(k)
    <3>1. r.order - k \in Nat /\ k + (r.order - k) = r.order
      BY <1>2, <1>3
    <3> QED BY <1>3, <3>1, SpanMultiple, ZenonT(60)
  <2>3. r.first = (q * c) * Span(k) /\ q * c \in Nat
    BY <1>3, <2>1, <2>2
  <2> QED BY <1>2, <1>3, <2>3, AlignedIs
<1>6. x \in Sites /\ x.first = r.first /\ x.order = k
  BY <1>2, <1>4, <1>5, SiteOf
<1> HIDE DEF x
<1>7. Past(x) = mid
  BY <1>6 DEF Past
<1>8. X = Items(Pieces(mid, Past(r)), 1, Len(Pieces(mid, Past(r))))
  BY DEF Rest
<1> HIDE DEF mid, X
<1>9. /\ Tiling(X, mid..(Past(r) - 1)) /\ Merged(X)
      /\ \A y \in X : y \in Sites /\ mid <= y.first /\ Past(y) <= Past(r)
  BY <1>2, <1>4, <1>8, PiecesAre
<1>10. /\ Body(x) = r.first..(mid - 1) /\ Body(r) = r.first..(Past(r) - 1)
       /\ Body(x) \cap (mid..(Past(r) - 1)) = {} /\ Body(x) \cup (mid..(Past(r) - 1)) = Body(r)
  <2>1. Body(x) = r.first..(mid - 1) /\ Body(r) = r.first..(Past(r) - 1)
    BY <1>6, <1>7 DEF Body
  <2>2. \A b : b \in r.first..(Past(r) - 1) <=> b \in r.first..(mid - 1) \/ b \in mid..(Past(r) - 1)
    BY <1>2, <1>4
  <2>3. \A b : ~(b \in r.first..(mid - 1) /\ b \in mid..(Past(r) - 1))
    BY <1>2, <1>4
  <2> QED BY <2>1, <2>2, <2>3
<1>11. Tiling({x} \cup X, Body(r)) /\ {x} \cap X = {}
  <2> DEFINE V == mid..(Past(r) - 1)
  <2>1. Tiling({x}, Body(x))
    BY <1>6, TilingOfOne
  <2>2. Tiling(X, V) /\ Body(x) \cap V = {} /\ Body(x) \cup V = Body(r)
    BY <1>9, <1>10
  <2> HIDE DEF V
  <2>3. Tiling({x} \cup X, Body(x) \cup V) /\ {x} \cap X = {}
    BY <2>1, <2>2, TilingBoth, TilingApart
  <2> QED BY <2>2, <2>3
<1>12. Tiling(S \cup ({x} \cup X), U)
  BY <1>11, TilingCut
<1>13. \A f \in S : ~Meet(f, r)
  <2>1. ASSUME NEW f \in S, Meet(f, r) PROVE FALSE
    <3>1. f \in S \cup {r} /\ r \in S \cup {r}
      OBVIOUS
    <3> QED BY <2>1, <3>1, TilingMeets
  <2> QED BY <2>1
<1>14. ASSUME NEW y \in {x} \cup X, y \in S PROVE FALSE
  <2>1. y \in Sites /\ Body(y) \subseteq Body(r)
    BY <1>11, TilingGives
  <2>2. y.first \in Body(y) /\ y.first \in Body(r)
    BY <2>1, SiteIs
  <2> QED BY <1>13, <1>14, <2>2 DEF Meet
<1>15. ASSUME NEW T \in SUBSET S, Merged(T) PROVE Merged(T \cup X)
  <2>1. ASSUME NEW y \in X PROVE Body(y) \subseteq Body(r) /\ y.order < r.order
    <3>1. y \in {x} \cup X
      OBVIOUS
    <3>2. Body(y) \subseteq Body(r) /\ y \in Sites /\ mid <= y.first
      BY <1>9, <1>11, <3>1, TilingGives
    <3>3. ASSUME r.order <= y.order PROVE FALSE
      <4>1. y.first \in Body(y) /\ y.first \in Body(r)
        BY <3>2, SiteIs
      <4>2. Meet(r, y)
        BY <4>1 DEF Meet
      <4>3. y.first <= r.first
        BY <1>1, <3>2, <3>3, <4>2, MeetNested
      <4> QED BY <1>2, <1>4, <3>2, <4>3, SiteIs
    <3>4. y.order \in Nat
      BY <3>2, SiteIs
    <3> QED BY <1>2, <3>2, <3>3, <3>4
  <2>2. X \subseteq Sites /\ T \subseteq Sites /\ \A f \in T : ~Meet(f, r)
    BY <1>1, <1>9, <1>13
  <2> QED BY <1>1, <1>9, <1>15, <2>1, <2>2, CutMerged
<1>16. x \notin S /\ x \notin X /\ S \cap X = {}
  BY <1>11, <1>14
<1>17. Body(x) \subseteq Body(r)
  BY <1>10
<1> QED BY <1>2, <1>4, <1>6, <1>12, <1>13, <1>15, <1>16, <1>17 DEF Split, x, X, mid

\* The bitmap and the counts change, the records do not.
LEMMA Regroup ==
  ASSUME NEW p, NEW L, Listing(p, L), NEW q, PoolShape(q), q.freeList = p.freeList,
         q.head = p.head, q.tail = p.tail,
         NEW G, NEW X, NEW U, Marks(q, G, U), Tiling(Listed(L) \cup G \cup X, U),
         Listed(L) \cap G = {}, Listed(L) \cap X = {}, G \cap X = {}
  PROVE  Kept(q, L, G, X, U)
<1>1. Listing(q, L)
  BY ListsStay
<1> QED BY <1>1 DEF Kept

\* Between two calls: nothing is in hand, and twins are merged.
Sound(p, L, G, U) == Kept(p, L, G, {}, U) /\ Merged(Listed(L)) /\ Counts(p, L)

\* Fewer free ranges have no more twins.
LEMMA MergedPart == ASSUME NEW S, NEW T \in SUBSET S, Merged(S) PROVE Merged(T)
BY DEF Merged

\* What is left when a free range leaves its list.
LEMMA CountsTake ==
  ASSUME NEW p, NEW L, NEW G, NEW U, Kept(p, L, G, {}, U), Counts(p, L),
         NEW r \in Listed(L), NEW M, Listed(M) = Listed(L) \ {r}
  PROVE  Cardinality(Cover(Listed(M))) = p.freeBytes - Span(r.order)
<1>1. Listed(L) \subseteq Sites /\ r \in Sites
  BY KeptSites
<1>2. ASSUME NEW s \in Listed(M), Meet(s, r) PROVE FALSE
  <2>1. s \in Listed(L) \cup G \cup {} /\ r \in Listed(L) \cup G \cup {} /\ s # r
    BY <1>2
  <2> QED BY <1>2, <2>1, KeptSites
<1>3. Listed(M) \cup {r} = Listed(L) /\ Listed(M) \subseteq Sites
  BY <1>1
<1>4. Cardinality(Cover(Listed(M) \cup {r})) = Cardinality(Cover(Listed(M))) + Span(r.order)
  BY <1>1, <1>2, <1>3, CoverGrows
<1>5. Cardinality(Cover(Listed(M))) \in Nat /\ Span(r.order) \in Nat
  BY <1>1, <1>3, CoverInBlocks, BlocksFinite, SiteIs
<1>6. p.freeBytes = Cardinality(Cover(Listed(L)))
  BY DEF Counts
<1>7. p.freeBytes = Cardinality(Cover(Listed(M))) + Span(r.order)
  BY <1>3, <1>4, <1>6
<1> QED BY <1>5, <1>7

-----------------------------------------------------------------------------
(* BuddyMalloc.                                                            *)

\* The orders BuddyMalloc can take a range from.
Larger(p, k) == {j \in Orders : j >= k /\ p.freeList[j] # Null}

\* What a successful allocation of order k gives.
Allotted(p, G, U, k, r) ==
  /\ r.ret = "success" /\ r.at \in Nat /\ k \in Orders
  /\ RangeAt(r.at, k) \in Sites /\ RangeAt(r.at, k) \notin G
  /\ \E L : Sound(r.pool, L, G \cup {RangeAt(r.at, k)}, U)
  /\ Quiet(p, r.pool, Cover(G))

\* A list that does not begin with null begins with a free range.
LEMMA HeadListed ==
  ASSUME NEW p, NEW L, Listing(p, L), NEW j \in Orders, p.freeList[j] # Null
  PROVE  /\ 1 \in 1..Len(L[j]) /\ p.freeList[j] = L[j][1]
         /\ RangeAt(p.freeList[j], j) \in Listed(L)
         /\ p.head[p.freeList[j]].prev = Null /\ p.tail[End(p.freeList[j], j)] = j
         /\ p.freeList[j] \in Blocks /\ IsFree(p, p.freeList[j])
<1>1. Chain(p, j, L[j])
  BY DEF Listing
<1>2. 1 \in 1..Len(L[j]) /\ p.freeList[j] = L[j][1]
  <2>1. L[j] \in Seq(Blocks) /\ p.freeList[j] = Leader(L[j]) /\ Len(L[j]) \in Nat
    BY <1>1 DEF Chain
  <2> QED BY <2>1 DEF Leader
<1>3. p.head[L[j][1]] = Link(Before(L[j], 1), After(L[j], 1)) /\ p.tail[End(L[j][1], j)] = j
  BY <1>1, <1>2 DEF Chain
<1>4. p.head[L[j][1]].prev = Null
  BY <1>3 DEF Link, Before
<1>5. RangeAt(L[j][1], j) \in Listed(L)
  BY <1>2, ListedPlace
<1>6. L[j][1] \in Blocks /\ p.head[L[j][1]] \in Links
  BY <1>2, Neighbours
<1> QED BY <1>2, <1>3, <1>4, <1>5, <1>6 DEF IsFree

\* A larger range is split: its first part is busy, the rest is freed.
LEMMA MallocTakes ==
  ASSUME NEW p, NEW L, NEW G, NEW U, Sound(p, L, G, U), NEW k \in Nat, NEW j \in Larger(p, k)
  PROVE  LET at == p.freeList[j]
             q == Spare([Unlink(p, at, j) EXCEPT !.map = @ \cup {at + Span(k) - 1},
                                                 !.freeBytes = @ - Span(j)], at, k, j)
         IN  /\ ~(BadLinks(p, at) \/ p.head[at].prev # Null \/ p.tail[at + Span(j) - 1] # j)
             /\ Allotted(p, G, U, k, Success(q, at))
<1> DEFINE at == p.freeList[j]
           r == RangeAt(at, j)
           x == RangeAt(at, k)
           X == Rest(r, k)
           o == Unlink(p, at, j)
           e == at + Span(k) - 1
           f == [o EXCEPT !.map = @ \cup {e}, !.freeBytes = @ - Span(j)]
           q == Spare(f, at, k, j)
<1>1. Kept(p, L, G, {}, U) /\ Merged(Listed(L)) /\ Counts(p, L) /\ Listing(p, L)
  BY DEF Sound, Kept
<1>2. j \in Orders /\ j \in Nat /\ k <= j /\ k \in Orders /\ p.freeList[j] # Null
  <2>1. j \in Orders /\ j >= k /\ p.freeList[j] # Null
    BY DEF Larger
  <2>2. j \in Nat
    BY <2>1, BlocksAre
  <2>3. k \in Orders
    BY <2>1, <2>2, SizeAssumption DEF Orders
  <2> QED BY <2>1, <2>2, <2>3
<1>3. /\ r \in Listed(L) /\ p.head[at].prev = Null /\ p.tail[End(at, j)] = j /\ at \in Blocks
  BY <1>1, <1>2, HeadListed
<1>4. r.first = at /\ r.order = j /\ at \in Nat
  BY <1>3, BlocksAre DEF RangeAt
<1>5. r \in Sites /\ G \subseteq Sites /\ U \subseteq Blocks /\ r \notin G
  BY <1>1, <1>3, KeptSites, ZenonT(60) DEF Kept
<1> HIDE DEF r, at
<1>6. /\ \E M : Kept(o, M, G, {} \cup {r}, U) /\ Listed(M) = Listed(L) \ {r}
      /\ ~BadLinks(p, r.first)
      /\ o.map = p.map /\ o.freeBytes = p.freeBytes /\ o.tail = p.tail
      /\ PoolShape(o) /\ Quiet(p, o, Cover(G))
  <2> HIDE DEF o
  <2>1. o = Unlink(p, r.first, r.order)
    BY <1>4 DEF o
  <2>2. Unlinked(p, o, L, G, {}, U, r)
    BY <1>1, <1>3, <2>1, KeepUnlink
  <2> QED BY <2>2 DEF Unlinked
<1> HIDE DEF o, e
<1>7. PICK M : Kept(o, M, G, {} \cup {r}, U) /\ Listed(M) = Listed(L) \ {r}
  BY <1>6
<1>8. /\ PoolShape(f) /\ f.map = p.map \cup {e} /\ f.freeList = o.freeList
      /\ f.freeBytes = p.freeBytes - Span(j) /\ f.head = o.head /\ f.tail = o.tail
  <2> DEFINE f1 == [o EXCEPT !.map = o.map \cup {e}]
  <2>1. /\ PoolShape(f1) /\ f1.map = p.map \cup {e} /\ f1.freeList = o.freeList
        /\ f1.freeBytes = p.freeBytes /\ f1.head = o.head /\ f1.tail = o.tail
    BY <1>6, SetMap
  <2>2. f = [f1 EXCEPT !.freeBytes = f1.freeBytes - Span(j)]
    BY <1>6 DEF PoolShape
  <2> HIDE DEF f1, f
  <2> QED BY <2>1, <2>2, SetBytes
<1> HIDE DEF f
<1> DEFINE S == Listed(M) \cup G
<1>9. Tiling(S \cup {r}, U) /\ r \notin S
  BY <1>5, <1>7 DEF Kept
<1>10. /\ x \in Sites /\ x.first = at /\ x.order = k /\ Body(x) \subseteq Body(r)
       /\ at + Span(k) <= Past(r) /\ Past(r) <= PoolBlocks
       /\ at + Span(k) \in Nat /\ Past(r) \in Nat
       /\ Tiling(S \cup ({x} \cup X), U)
       /\ x \notin S /\ x \notin X /\ S \cap X = {}
       /\ \A g \in S : ~Meet(g, r)
       /\ \A T \in SUBSET S : Merged(T) => Merged(T \cup X)
  <2> HIDE DEF S, x, X
  <2>1. Split(S, U, r, k, x, X)
    BY <1>2, <1>4, <1>9, SplitIs DEF x, X
  <2> QED BY <1>4, <2>1 DEF Split
<1> HIDE DEF x
<1>11. X = Items(Pieces(at + Span(k), Past(r)), 1, Len(Pieces(at + Span(k), Past(r))))
  BY <1>4 DEF Rest
<1> HIDE DEF X
<1>12. Marks(f, G \cup {x}, U)
  <2>1. e = End(x.first, x.order)
    BY <1>10 DEF End, e
  <2>2. \A b \in Blocks : b \in f.map <=> b \in p.map \/ b = e
    BY <1>8
  <2>3. Marks(p, G, U)
    BY <1>1 DEF Kept
  <2> QED BY <2>1, <2>2, <2>3 DEF Marks
<1>13. Kept(f, M, G \cup {x}, X, U)
  <2>1. Listing(o, M) /\ Listed(M) \cap G = {}
    BY <1>7 DEF Kept
  <2>2. Listed(M) \cup (G \cup {x}) \cup X = S \cup ({x} \cup X)
    OBVIOUS
  <2>3. Tiling(Listed(M) \cup (G \cup {x}) \cup X, U)
    BY <1>10, <2>2
  <2>4. Listed(M) \cap (G \cup {x}) = {} /\ Listed(M) \cap X = {} /\ (G \cup {x}) \cap X = {}
    BY <1>10, <2>1
  <2> HIDE DEF S
  <2> QED BY <1>8, <1>12, <2>1, <2>3, <2>4, Regroup
<1>14. Counts(f, M)
  <2>1. Cardinality(Cover(Listed(M))) = p.freeBytes - Span(r.order)
    BY <1>1, <1>3, <1>7, CountsTake
  <2> QED BY <1>4, <1>8, <2>1 DEF Counts
<1>15. Freed(f, q, M, G \cup {x}, X, {}, U)
  <2>1. q = toFree(f, at + Span(k), Past(r))
    BY <1>4 DEF Spare, Past
  <2> HIDE DEF q
  <2> QED BY <1>10, <1>11, <1>13, <1>14, <2>1, ToFreeIs
<1> HIDE DEF q
<1>16. PICK N : Kept(q, N, G \cup {x}, {}, U) /\ Listed(N) = Listed(M) \cup X /\ Counts(q, N)
  BY <1>15 DEF Freed
<1>17. Merged(Listed(N))
  <2>1. Merged(Listed(M))
    BY <1>1, <1>7, MergedPart
  <2>2. Listed(M) \in SUBSET S
    OBVIOUS
  <2> HIDE DEF S
  <2>3. Merged(Listed(M) \cup X)
    BY <1>10, <2>1, <2>2
  <2> QED BY <1>16, <2>3
<1>18. Sound(q, N, G \cup {x}, U)
  BY <1>16, <1>17 DEF Sound
<1>19. Quiet(p, q, Cover(G))
  <2>1. Quiet(f, q, Cover(G \cup {x}))
    BY <1>15 DEF Freed
  <2>2. Cover(G) \subseteq Cover(G \cup {x})
    BY CoverOfTwo
  <2> QED BY <1>6, <1>8, <2>1, <2>2, ZenonT(60) DEF Quiet
<1>20. x \notin G
  BY <1>10
<1>21. Allotted(p, G, U, k, Success(q, at))
  <2>1. Success(q, at).ret = "success" /\ Success(q, at).at = at /\ Success(q, at).pool = q
    BY DEF Success
  <2>2. x = RangeAt(at, k)
    BY DEF x
  <2> QED BY <1>2, <1>4, <1>10, <1>18, <1>19, <1>20, <2>1, <2>2 DEF Allotted
<1>22. at + Span(j) - 1 = End(at, j)
  BY DEF End
<1>23. ~(BadLinks(p, at) \/ p.head[at].prev # Null \/ p.tail[at + Span(j) - 1] # j)
  BY <1>3, <1>4, <1>6, <1>22
<1> QED BY <1>21, <1>23 DEF q, f, o, e, at

(* BuddyMalloc fails only for want of memory; otherwise it hands out a     *)
(* range nobody holds and leaves the contents of busy ranges.              *)
LEMMA MallocIs ==
  ASSUME NEW p, NEW L, NEW G, NEW U, Sound(p, L, G, U), NEW k \in Nat
  PROVE  IF p.freeBytes < Span(k) \/ Larger(p, k) = {}
           THEN BuddyMalloc(p, k) = Failure("nomemory", p)
           ELSE Allotted(p, G, U, k, BuddyMalloc(p, k))
<1>1. CASE p.freeBytes < Span(k) \/ Larger(p, k) = {}
  BY <1>1 DEF BuddyMalloc, Larger
<1>2. CASE ~(p.freeBytes < Span(k) \/ Larger(p, k) = {})
  <2> DEFINE j == CHOOSE j \in Larger(p, k) : \A i \in Larger(p, k) : j <= i
             at == p.freeList[j]
             q == Spare([Unlink(p, at, j) EXCEPT !.map = @ \cup {at + Span(k) - 1},
                                                 !.freeBytes = @ - Span(j)], at, k, j)
             bad == BadLinks(p, at) \/ p.head[at].prev # Null \/ p.tail[at + Span(j) - 1] # j
  <2>1. BuddyMalloc(p, k) = IF bad THEN Failure("corrupt", p) ELSE Success(q, at)
    BY <1>2 DEF BuddyMalloc, Larger
  <2>2. j \in Larger(p, k)
    <3>1. Larger(p, k) \subseteq Nat /\ Larger(p, k) # {}
      BY <1>2, BlocksAre DEF Larger
    <3>2. \E m \in Larger(p, k) : \A i \in Larger(p, k) : m <= i
      BY <3>1, LeastOf
    <3> QED BY <3>2, Zenon
  <2> HIDE DEF j
  <2>3. ~bad /\ Allotted(p, G, U, k, Success(q, at))
    BY <2>2, MallocTakes
  <2> HIDE DEF q, at, bad
  <2> QED BY <1>2, <2>1, <2>3, SMTT(60)
<1> QED BY <1>1, <1>2, SMTT(60)

-----------------------------------------------------------------------------
(* What the bitmap and the tails tell of a range and of its buddy.         *)

\* A released block has its bit set only where a busy range ends.
LEMMA MarkOf ==
  ASSUME NEW p, NEW L, NEW G, NEW X, NEW U, Kept(p, L, G, X, U), NEW b \in U
  PROVE  b \in Blocks /\ (b \in p.map <=> \E g \in G : b = End(g.first, g.order))
<1>1. b \in Blocks /\ Marks(p, G, U)
  BY KeptSites DEF Kept
<1> QED BY <1>1 DEF Marks

(* BuddyAllocSize finds the order of a busy range: no bit is set within    *)
(* it, one is at its end.                                                  *)
LEMMA SizeIs ==
  ASSUME NEW p, NEW L, NEW G, NEW X, NEW U, Kept(p, L, G, X, U), NEW g \in G
  PROVE  Ends(p, g.first) # {} /\ SizeOf(p, g.first) = g.order
<1>1. /\ g \in Sites /\ g.first \in Nat /\ g.order \in Orders /\ Past(g) = g.first + Span(g.order)
      /\ Past(g) <= PoolBlocks /\ Aligned(g.first, g.order) /\ g.order \in Nat
      /\ End(g.first, g.order) = Past(g) - 1 /\ End(g.first, g.order) \in Body(g) /\ Past(g) \in Nat
  BY KeptSites, SiteIs DEF Sited
<1>2. Body(g) \subseteq U /\ \A s \in G : Meet(g, s) => g = s
  <2>1. g \in Listed(L) \cup G \cup X /\ Tiling(Listed(L) \cup G \cup X, U)
    BY DEF Kept
  <2> QED BY <2>1, TilingGives, TilingMeets
<1>3. g.order \in Ends(p, g.first)
  <2>1. End(g.first, g.order) \in p.map
    BY <1>1, <1>2, MarkOf
  <2>2. End(g.first, g.order) = g.first + Span(g.order) - 1
    BY DEF End
  <2> QED BY <1>1, <2>1, <2>2 DEF Ends
<1>4. ASSUME NEW j \in Ends(p, g.first) PROVE g.order <= j
  <2>1. /\ j \in Orders /\ j \in Nat /\ g.first + Span(j) <= PoolBlocks /\ Aligned(g.first, j)
        /\ g.first + Span(j) - 1 \in p.map
    BY BlocksAre DEF Ends
  <2>2. Span(j) \in Nat /\ Span(j) > 0
    BY <2>1, SpanPositive
  <2>3. ASSUME j < g.order PROVE FALSE
    <3>1. Span(j) < Span(g.order)
      BY <1>1, <2>1, <2>3, SpanGrows
    <3>2. g.first + Span(j) - 1 \in Body(g)
      <4>1. Span(g.order) \in Nat
        BY <1>1, SpanPositive
      <4>2. g.first + Span(j) - 1 \in g.first..(Past(g) - 1)
        BY <1>1, <2>2, <3>1, <4>1
      <4> QED BY <4>2 DEF Body
    <3>3. PICK s \in G : g.first + Span(j) - 1 = End(s.first, s.order)
      BY <1>2, <2>1, <3>2, MarkOf
    <3>4. s \in Sites /\ End(s.first, s.order) \in Body(s)
      BY KeptSites, SiteIs
    <3>5. Meet(g, s)
      BY <3>2, <3>3, <3>4 DEF Meet
    <3>6. Span(j) = Span(g.order)
      <4>1. g.first + Span(j) - 1 = g.first + Span(g.order) - 1
        BY <1>2, <3>3, <3>5 DEF End
      <4>2. Span(g.order) \in Nat
        BY <1>1, SiteIs
      <4> QED BY <1>1, <2>2, <4>1, <4>2
    <3> QED BY <1>1, <3>1, <3>6, <2>2
  <2> QED BY <1>1, <2>1, <2>3
<1>5. SizeOf(p, g.first) = g.order
  <2> DEFINE P(k) == k \in Ends(p, g.first) /\ \A j \in Ends(p, g.first) : k <= j
  <2>1. P(g.order)
    BY <1>3, <1>4
  <2>2. ASSUME NEW k, P(k) PROVE k = g.order
    <3>1. k \in Ends(p, g.first) /\ k \in Nat /\ k <= g.order /\ g.order <= k
      BY <1>3, <1>4, <2>2, BlocksAre DEF Ends
    <3> QED BY <1>1, <3>1
  <2>3. SizeOf(p, g.first) = CHOOSE k : P(k)
    BY DEF SizeOf
  <2> HIDE DEF P
  <2>4. P(CHOOSE k : P(k))
    BY <2>1, Zenon
  <2> QED BY <2>2, <2>3, <2>4
<1> QED BY <1>3, <1>5

\* A free range notes its order at its end.
LEMMA TailListed ==
  ASSUME NEW p, NEW L, Listing(p, L), NEW r \in Listed(L)
  PROVE  p.tail[End(r.first, r.order)] = r.order
<1>1. PICK k \in Orders : \E i \in 1..Len(L[k]) : r = RangeAt(L[k][i], k)
  BY InListed
<1>2. PICK i \in 1..Len(L[k]) : r = RangeAt(L[k][i], k)
  BY <1>1
<1>3. r.first = L[k][i] /\ r.order = k
  BY <1>2 DEF RangeAt
<1>4. p.tail[End(L[k][i], k)] = k
  BY DEF Listing, Chain
<1> QED BY <1>3, <1>4

\* The end of the buddy s of x, seen by Free.
LEMMA BuddySeen ==
  ASSUME NEW p, NEW L, NEW G, NEW x, NEW U, Kept(p, L, G, {x}, U), x.order + 1 \in Orders,
         NEW b, b = BuddyOf(x.first, x.order), NEW s, s = RangeAt(b, x.order)
  PROVE  /\ End(b, x.order) \in Blocks /\ End(b, x.order) \notin p.map => p.tail[End(b, x.order)] \in Orders
         /\ WholeBuddy(p, b, x.order) <=> s \in Listed(L)
<1> DEFINE o == x.order
           e == End(b, o)
<1>1. x \in Sites /\ Listed(L) \subseteq Sites /\ G \subseteq Sites /\ Listing(p, L)
  BY KeptSites DEF Kept
<1>2. /\ b \in Nat /\ s.first = b /\ s.order = o
      /\ b + Span(o) <= PoolBlocks => s \in Sites /\ (Twins(x, s) \/ Twins(s, x))
  BY <1>1, BuddiesAreTwins
<1>3. o \in Nat /\ o \in Orders /\ Span(o) \in Nat /\ Span(o) > 0
  BY <1>1, SiteIs
<1>4. e = b + Span(o) - 1 /\ (e \in Blocks <=> b + Span(o) <= PoolBlocks)
  <2>1. e = b + Span(o) - 1
    BY DEF End
  <2> HIDE DEF e, o
  <2> QED BY <1>2, <1>3, <2>1, BlocksAre
<1>5. ASSUME e \in Blocks, e \notin p.map
      PROVE  p.tail[e] \in Orders /\ (p.tail[e] = o => s \in Listed(L))
  <2>1. s \in Sites /\ (Twins(x, s) \/ Twins(s, x))
    BY <1>2, <1>4, <1>5
  <2>2. /\ e \in Body(s) /\ Past(s) - 1 = e /\ Past(s) \in Nat
    BY <1>2, <2>1, SiteIs
  <2>3. PICK q \in Sites : q.order = o + 1 /\ Body(q) = Body(x) \cup Body(s) /\ Body(x) \cap Body(s) = {}
    <3>1. CASE Twins(x, s)
      BY <1>1, <2>1, <3>1, TwinsMake
    <3>2. CASE Twins(s, x)
      <4>1. s.order + 1 \in Orders
        BY <1>2
      <4>2. LET q == RangeAt(s.first, s.order + 1)
            IN  q \in Sites /\ q.order = s.order + 1 /\ Body(q) = Body(s) \cup Body(x)
                /\ Body(s) \cap Body(x) = {}
        BY <1>1, <2>1, <3>2, <4>1, TwinsMake
      <4> QED BY <1>2, <4>2
    <3> QED BY <2>1, <3>1, <3>2
  <2>4. PICK t \in Listed(L) \cup G \cup {x} : e \in Body(t)
    <3>1. e \in U
      BY <1>5 DEF Kept, Marks
    <3> QED BY <3>1, TilingCovers DEF Kept
  <2>5. t \in Sites /\ t # x
    BY <1>1, <2>2, <2>3, <2>4
  <2>6. t.order <= o
    <3>1. ASSUME o + 1 <= t.order PROVE FALSE
      <4>1. Meet(q, t)
        BY <2>2, <2>3, <2>4 DEF Meet
      <4>2. Body(q) \subseteq Body(t)
        BY <2>3, <2>5, <3>1, <4>1, MeetNested
      <4>3. x.first \in Body(x) /\ x.first \in Body(t)
        BY <1>1, <2>3, <4>2, SiteIs
      <4>4. Meet(x, t) /\ x \in Listed(L) \cup G \cup {x}
        BY <4>3 DEF Meet
      <4> QED BY <2>4, <2>5, <4>4, KeptSites
    <3>2. t.order \in Nat
      BY <2>5, SiteIs
    <3> QED BY <1>3, <3>1, <3>2
  <2>7. Meet(t, s)
    BY <2>2, <2>4 DEF Meet
  <2>8. End(t.first, t.order) = e
    <3>1. Past(t) <= Past(s)
      BY <1>2, <2>1, <2>5, <2>6, <2>7, MeetNested
    <3>2. e < Past(t)
      BY <2>4, <2>5, InBody
    <3>3. End(t.first, t.order) = Past(t) - 1 /\ Past(t) \in Nat
      BY <2>5, SiteIs
    <3> HIDE DEF e
    <3> QED BY <2>2, <3>1, <3>2, <3>3
  <2>9. t \notin G
    BY <1>5, <2>8 DEF Kept, Marks
  <2>10. t \in Listed(L)
    BY <2>4, <2>5, <2>9
  <2>11. p.tail[e] = t.order
    BY <1>1, <2>8, <2>10, TailListed
  <2>12. t.order \in Orders
    BY <2>5, SiteIs
  <2>13. t.order = o => t = s
    BY <1>2, <2>1, <2>5, <2>7, MeetSame
  <2> QED BY <2>10, <2>11, <2>12, <2>13
<1>6. ASSUME WholeBuddy(p, b, o) PROVE s \in Listed(L)
  <2>1. b + Span(o) <= PoolBlocks /\ b + Span(o) - 1 \notin p.map /\ p.tail[b + Span(o) - 1] = o
    BY <1>6 DEF WholeBuddy
  <2>2. e \in Blocks /\ e \notin p.map /\ p.tail[e] = o
    BY <1>4, <2>1
  <2> QED BY <1>5, <2>2
<1>7. ASSUME s \in Listed(L) PROVE WholeBuddy(p, b, o)
  <2>1. s \in Sites
    BY <1>1, <1>7
  <2>2. Past(s) <= PoolBlocks /\ e \in Body(s) /\ Past(s) = b + Span(o)
    BY <1>2, <2>1, SiteIs
  <2>3. e \in U
    <3>1. s \in Listed(L) \cup G \cup {x} /\ Tiling(Listed(L) \cup G \cup {x}, U)
      BY <1>7 DEF Kept
    <3> QED BY <2>2, <3>1, TilingGives
  <2>4. e \notin p.map
    <3>1. ASSUME NEW g \in G, e = End(g.first, g.order) PROVE FALSE
      <4>1. g \in Sites /\ e \in Body(g)
        BY <1>1, <3>1, SiteIs
      <4>2. Meet(g, s)
        BY <2>2, <4>1 DEF Meet
      <4>3. g \in Listed(L) \cup G \cup {x} /\ s \in Listed(L) \cup G \cup {x} /\ g # s
        BY <1>7 DEF Kept
      <4> QED BY <4>2, <4>3, KeptSites
    <3> QED BY <2>3, <3>1, MarkOf
  <2>5. p.tail[e] = o
    BY <1>1, <1>2, <1>7, TailListed
  <2> QED BY <1>4, <2>2, <2>4, <2>5 DEF WholeBuddy
<1> QED BY <1>5, <1>6, <1>7

\* Two twins in hand are taken as one range.
LEMMA JoinIs ==
  ASSUME NEW S, NEW U, NEW x, NEW s, NEW q, Tiling(S \cup ({x} \cup {s}), U),
         x \notin S, s \notin S, q \in Sites, Body(q) = Body(x) \cup Body(s), x # s
  PROVE  Tiling(S \cup {q}, U) /\ q \notin S
<1> DEFINE T == S \cup ({x} \cup {s})
<1>1. Tiling(T, U) /\ x \in T /\ s \in T \ {x} /\ (T \ {x}) \ {s} = S
  OBVIOUS
<1> HIDE DEF T
<1>2. Tiling(T \ {x}, U \ Body(x))
  BY <1>1, TilingWithout
<1>3. Tiling((T \ {x}) \ {s}, (U \ Body(x)) \ Body(s))
  BY <1>1, <1>2, TilingWithout
<1>4. Body(x) \subseteq U /\ Body(s) \subseteq U
  BY <1>1, TilingGives
<1> DEFINE V == U \ Body(q)
<1>5. Tiling(S, V) /\ V \cap Body(q) = {} /\ V \cup Body(q) = U
  <2>1. (U \ Body(x)) \ Body(s) = V
    OBVIOUS
  <2>2. V \cap Body(q) = {} /\ V \cup Body(q) = U
    BY <1>4
  <2> HIDE DEF V
  <2> QED BY <1>1, <1>3, <2>1, <2>2
<1> HIDE DEF V
<1>6. Tiling({q}, Body(q))
  BY TilingOfOne
<1>7. Tiling(S \cup {q}, U) /\ S \cap {q} = {}
  BY <1>5, <1>6, TilingBoth, TilingApart
<1> QED BY <1>7

-----------------------------------------------------------------------------
(* The loop of Free: s is the range so far, G the busy ranges, n what Free *)
(* will add to freeBytes, C the contents callers rely on.                  *)

\* Only the head of b and the tail of e differ.
CellsSet(q, r, e, b) ==
  /\ PoolShape(r) /\ r.map = q.map /\ r.freeList = q.freeList /\ r.freeBytes = q.freeBytes
  /\ \A y \in Blocks : (y # b => r.head[y] = q.head[y]) /\ (y # e => r.tail[y] = q.tail[y])

\* One entry of a function is replaced.
LEMMA ExceptIs ==
  ASSUME NEW h, h = [y \in Blocks |-> h[y]], NEW c, NEW z
  PROVE  LET g == [h EXCEPT ![c] = z]
         IN  g = [y \in Blocks |-> g[y]] /\ \A y \in Blocks : y # c => g[y] = h[y]
OBVIOUS

\* Two words of the records are overwritten.
LEMMA SetCells ==
  ASSUME NEW q, PoolShape(q), NEW e \in Blocks, NEW b \in Blocks, NEW v, NEW w
  PROVE  CellsSet(q, [q EXCEPT !.tail[e] = v, !.head[b] = w], e, b)
<1> DEFINE r == [q EXCEPT !.tail[e] = v, !.head[b] = w]
<1>1. q = [map |-> q.map, freeList |-> q.freeList, freeBytes |-> q.freeBytes,
           head |-> q.head, tail |-> q.tail]
  BY DEF PoolShape
<1>2. r = [map |-> q.map, freeList |-> q.freeList, freeBytes |-> q.freeBytes,
           head |-> [q.head EXCEPT ![b] = w], tail |-> [q.tail EXCEPT ![e] = v]]
  <2> DEFINE o == [q EXCEPT !.tail[e] = v]
  <2>1. o = [map |-> q.map, freeList |-> q.freeList, freeBytes |-> q.freeBytes,
             head |-> q.head, tail |-> [q.tail EXCEPT ![e] = v]]
    BY <1>1
  <2>2. r = [o EXCEPT !.head[b] = w]
    BY <1>1
  <2> HIDE DEF o
  <2> QED BY <2>1, <2>2
<1> HIDE DEF r
<1>3. /\ r.map = q.map /\ r.freeList = q.freeList /\ r.freeBytes = q.freeBytes
      /\ r.head = [q.head EXCEPT ![b] = w] /\ r.tail = [q.tail EXCEPT ![e] = v]
  BY <1>2
<1>4. q.head = [y \in Blocks |-> q.head[y]] /\ q.tail = [y \in Blocks |-> q.tail[y]]
  BY DEF PoolShape
<1>5. /\ r.head = [y \in Blocks |-> r.head[y]] /\ r.tail = [y \in Blocks |-> r.tail[y]]
      /\ \A y \in Blocks : (y # b => r.head[y] = q.head[y]) /\ (y # e => r.tail[y] = q.tail[y])
  <2>1. /\ r.head = [y \in Blocks |-> r.head[y]]
        /\ \A y \in Blocks : y # b => r.head[y] = q.head[y]
    BY <1>3, <1>4, ExceptIs
  <2>2. /\ r.tail = [y \in Blocks |-> r.tail[y]]
        /\ \A y \in Blocks : y # e => r.tail[y] = q.tail[y]
    BY <1>3, <1>4, ExceptIs
  <2> QED BY <2>1, <2>2
<1>6. PoolShape(r)
  BY <1>2, <1>3, <1>5 DEF PoolShape
<1> QED BY <1>3, <1>5, <1>6 DEF CellsSet, r

\* The invariant of the loop.
Climbing(p, s, G, U, n, k) ==
  /\ s = [pool |-> s.pool, first |-> s.first, order |-> s.order, done |-> s.done, bad |-> s.bad]
  /\ s.bad = FALSE /\ s.done \in BOOLEAN
  /\ RangeAt(s.first, s.order) \in Sites
  /\ s.done = FALSE => s.order = k
  /\ \E L : /\ Kept(s.pool, L, G, {RangeAt(s.first, s.order)}, U)
            /\ Merged(Listed(L))
            /\ s.done = TRUE => Merged(Listed(L) \cup {RangeAt(s.first, s.order)})
            /\ Cardinality(Cover(Listed(L) \cup {RangeAt(s.first, s.order)})) = n
  /\ s.pool.freeBytes = p.freeBytes
  /\ Quiet(p, s.pool, Cover(G))

\* A free range that is not the buddy of x is no twin of x.
LEMMA NoTwin ==
  ASSUME NEW S \in SUBSET Sites, Merged(S), NEW x \in Sites,
         x.order + 1 \in Orders => RangeAt(BuddyOf(x.first, x.order), x.order) \notin S
  PROVE  Merged(S \cup {x})
<1>1. ASSUME NEW r \in S \cup {x}, NEW s \in S \cup {x}, Twins(r, s), r.order + 1 \in Orders PROVE FALSE
  <2>1. r \in Sites /\ s \in Sites /\ r.order = s.order
    BY <1>1 DEF Twins
  <2>2. CASE r \in S /\ s \in S
    BY <1>1, <2>2 DEF Merged
  <2>3. CASE r = x /\ s = x
    <3>1. r # s
      BY <1>1, <2>1, TwinsMake
    <3> QED BY <2>3, <3>1
  <2>4. CASE r = x /\ s \in S
    <3>1. BuddyOf(x.first, x.order) = s.first /\ s = RangeAt(s.first, s.order)
      BY <1>1, <2>1, <2>4, TwinsAreBuddies, SiteIs
    <3> QED BY <1>1, <2>1, <2>4, <3>1
  <2>5. CASE r \in S /\ s = x
    <3>1. BuddyOf(x.first, x.order) = r.first /\ r = RangeAt(r.first, r.order)
      BY <1>1, <2>1, <2>5, TwinsAreBuddies, SiteIs
    <3> QED BY <1>1, <2>1, <2>5, <3>1
  <2> QED BY <2>2, <2>3, <2>4, <2>5
<1> QED BY <1>1 DEF Merged

\* The buddy, t, is free: it is taken, and makes up q with the range in hand.
BuddyTaken(p, o, L, G, U, x, b, q) ==
  /\ ~BadLinks(p, b) /\ q \in Sites
  /\ \E M : /\ Kept(o, M, G, {q}, U) /\ Merged(Listed(M))
            /\ Cover(Listed(M) \cup {q}) = Cover(Listed(L) \cup {x})
  /\ o.freeBytes = p.freeBytes /\ o.map = p.map /\ Quiet(p, o, Cover(G))

\* The lower of a range and its buddy.
Lower(b, x) == IF b < x.first THEN b ELSE x.first

(* The free buddy leaves its list and makes one range with the one in      *)
(* hand.                                                                   *)
LEMMA TakeBuddy ==
  ASSUME NEW p, NEW L, NEW G, NEW x \in Sites, NEW U, Kept(p, L, G, {x}, U), Merged(Listed(L)),
         x.order + 1 \in Orders, RangeAt(BuddyOf(x.first, x.order), x.order) \in Listed(L)
  PROVE  LET b == BuddyOf(x.first, x.order)
         IN  BuddyTaken(p, [Unlink(p, b, x.order) EXCEPT !.tail[End(b, x.order)] = Zero, !.head[b] = Zero],
                        L, G, U, x, b, RangeAt(Lower(b, x), x.order + 1))
<1> DEFINE b == BuddyOf(x.first, x.order)
           t == RangeAt(b, x.order)
           q == RangeAt(Lower(b, x), x.order + 1)
           o == [Unlink(p, b, x.order) EXCEPT !.tail[End(b, x.order)] = Zero, !.head[b] = Zero]
           k == x.order
           e == End(b, k)
           u == Unlink(p, b, k)
<1>0. t \in Listed(L)
  OBVIOUS
<1>1. t \in Sites /\ Listed(L) \subseteq Sites /\ t # x
  <2> HIDE DEF t
  <2> QED BY <1>0, KeptSites DEF Kept
<1>2. t.first = b /\ t.order = k /\ (b < x.first => Twins(t, x)) /\ (~(b < x.first) => Twins(x, t))
  <2>1. LET c == BuddyOf(x.first, x.order)
            s == RangeAt(c, x.order)
        IN  /\ s.first = c /\ s.order = x.order
            /\ c < x.first => Twins(s, x) /\ c + Span(x.order) = x.first
            /\ ~(c < x.first) => Twins(x, s)
    BY BuddiesAreTwins
  <2> QED BY <2>1
<1> HIDE DEF t, b
<1>3. b \in Body(t) /\ e \in Body(t) /\ b \in Blocks /\ e \in Blocks
  BY <1>1, <1>2, SiteIs
<1>4. q \in Sites /\ Body(q) = Body(x) \cup Body(t)
  <2>1. CASE b < x.first
    <3>1. LET r == RangeAt(t.first, t.order + 1) IN r \in Sites /\ Body(r) = Body(t) \cup Body(x)
      BY <1>1, <1>2, <2>1, TwinsMake
    <3> QED BY <1>2, <2>1, <3>1 DEF Lower
  <2>2. CASE ~(b < x.first)
    <3>1. LET r == RangeAt(x.first, x.order + 1) IN r \in Sites /\ Body(r) = Body(x) \cup Body(t)
      BY <1>1, <1>2, <2>2, TwinsMake
    <3> QED BY <2>2, <3>1 DEF Lower
  <2> QED BY <2>1, <2>2
<1> HIDE DEF u, e, k, q
<1>5. Unlinked(p, u, L, G, {x}, U, t)
  <2>1. u = Unlink(p, t.first, t.order)
    BY <1>2 DEF u
  <2> QED BY <1>0, <2>1, KeepUnlink
<1>6. /\ ~BadLinks(p, b) /\ u.map = p.map /\ u.freeBytes = p.freeBytes /\ PoolShape(u)
      /\ Quiet(p, u, Cover(G))
  BY <1>2, <1>5 DEF Unlinked
<1>7. PICK M : Kept(u, M, G, {x} \cup {t}, U) /\ Listed(M) = Listed(L) \ {t}
  BY <1>5 DEF Unlinked
<1>8. /\ PoolShape(o) /\ o.map = u.map /\ o.freeList = u.freeList /\ o.freeBytes = u.freeBytes
      /\ \A y \in Blocks : (y # b => o.head[y] = u.head[y]) /\ (y # e => o.tail[y] = u.tail[y])
  <2>1. o = [u EXCEPT !.tail[e] = Zero, !.head[b] = Zero]
    BY DEF u, e, k
  <2> HIDE DEF o
  <2>2. CellsSet(u, o, e, b)
    BY <1>3, <1>6, <2>1, SetCells
  <2> QED BY <2>2 DEF CellsSet
<1> HIDE DEF o
<1>9. Quiet(u, o, Cover(Listed(M)))
  <2>1. ASSUME NEW c \in Cover(Listed(M)) PROVE c \in Blocks /\ c \notin Body(t)
    <3>1. PICK r \in Listed(M) : c \in Body(r)
      BY InCover
    <3>2. r \in Listed(L) \cup G \cup {x} /\ t \in Listed(L) \cup G \cup {x} /\ r # t
      BY <1>0, <1>7, <3>1
    <3>3. ~Meet(r, t) /\ r \in Sites
      BY <3>2, <1>1, <1>7, KeptSites
    <3> QED BY <3>1, <3>3, SiteIs DEF Meet
  <2> QED BY <1>3, <1>8, <2>1 DEF Quiet
<1>10. Kept(o, M, G, {x} \cup {t}, U)
  BY <1>7, <1>8, <1>9, KeepWrite
<1> DEFINE S == Listed(M) \cup G
<1>11. x \notin S /\ t \notin S /\ Tiling(S \cup ({x} \cup {t}), U)
  BY <1>10 DEF Kept
<1> HIDE DEF S
<1>12. Tiling(S \cup {q}, U) /\ q \notin S
  BY <1>1, <1>4, <1>11, JoinIs
<1>13. Kept(o, M, G, {q}, U)
  <2>1. Listing(o, M) /\ Marks(o, G, U) /\ Listed(M) \cap G = {}
    BY <1>10 DEF Kept
  <2>2. Listed(M) \cap {q} = {} /\ G \cap {q} = {} /\ Tiling(Listed(M) \cup G \cup {q}, U)
    BY <1>12 DEF S
  <2> QED BY <2>1, <2>2 DEF Kept
<1>14. Merged(Listed(M))
  BY <1>7, MergedPart
<1>15. Cover(Listed(M) \cup {q}) = Cover(Listed(L) \cup {x})
  <2>1. Listed(L) = Listed(M) \cup {t}
    BY <1>0, <1>7
  <2>2. Cover(Listed(M) \cup {q}) = Cover(Listed(M)) \cup Body(q)
    BY CoverWith
  <2>3. Cover(Listed(L)) = Cover(Listed(M)) \cup Body(t)
    BY <2>1, CoverWith
  <2>4. Cover(Listed(L) \cup {x}) = Cover(Listed(L)) \cup Body(x)
    BY CoverWith
  <2> QED BY <1>4, <2>2, <2>3, <2>4
<1>16. Quiet(p, o, Cover(G))
  <2>1. ASSUME NEW c \in Cover(G) PROVE c \in Blocks /\ c # b /\ c # e
    <3>1. t \in {x} \cup Listed(L)
      BY <1>0
    <3>2. c \in Blocks /\ c \notin Body(t)
      BY <3>1, InHandElsewhere
    <3> QED BY <1>3, <3>2
  <2> QED BY <1>6, <1>8, <2>1 DEF Quiet
<1>17. BuddyTaken(p, o, L, G, U, x, b, q)
  BY <1>4, <1>6, <1>8, <1>13, <1>14, <1>15, <1>16 DEF BuddyTaken
<1> QED BY <1>17 DEF o, q, b

-----------------------------------------------------------------------------
\* The pool when the buddy has been taken.
Taken(p, b, k) == [Unlink(p, b, k) EXCEPT !.tail[End(b, k)] = Zero, !.head[b] = Zero]

\* The loop when it has.
Took(s, x, y, z) == [s EXCEPT !.pool = x, !.first = y, !.order = z]

\* The three outcomes of a turn.
LEMMA MergeStays ==
  ASSUME NEW s, NEW k, s.done = TRUE
  PROVE  Merge(s, k) = s
BY DEF Merge

\* The buddy is not free as a whole: the loop ends.
LEMMA MergeEnds ==
  ASSUME NEW s, NEW k, s.done = FALSE, NEW b, b = BuddyOf(s.first, k),
         End(b, k) \in Blocks /\ End(b, k) \notin s.pool.map => s.pool.tail[End(b, k)] \in Orders,
         ~WholeBuddy(s.pool, b, k)
  PROVE  Merge(s, k) = [s EXCEPT !.done = TRUE]
BY DEF Merge, End

\* The buddy is free as a whole: the loop goes on with both.
LEMMA MergeTakes ==
  ASSUME NEW s, NEW k, s.done = FALSE, NEW b, b = BuddyOf(s.first, k),
         End(b, k) \in Blocks /\ End(b, k) \notin s.pool.map => s.pool.tail[End(b, k)] \in Orders,
         WholeBuddy(s.pool, b, k), ~BadLinks(s.pool, b)
  PROVE  Merge(s, k) = Took(s, Taken(s.pool, b, k), IF b < s.first THEN b ELSE s.first, k + 1)
<1>1. Merge(s, k) = [s EXCEPT !.pool = [Unlink(@, b, k) EXCEPT !.tail[End(b, k)] = Zero, !.head[b] = Zero],
                              !.first = IF b < @ THEN b ELSE @, !.order = k + 1]
  BY DEF Merge, End
<1> QED BY <1>1 DEF Taken, Took

\* The state of the loop, field by field.
Climb5(pool0, first, order, done, bad) ==
  [pool |-> pool0, first |-> first, order |-> order, done |-> done, bad |-> bad]

\* A truth that provers do not simplify away.
Yes == TRUE

\* What a turn that ends the loop changes.
LEMMA ClimbEnds ==
  ASSUME NEW s, s = [pool |-> s.pool, first |-> s.first, order |-> s.order, done |-> s.done, bad |-> s.bad]
  PROVE  LET t == [s EXCEPT !.done = TRUE]
         IN  /\ t = Climb5(t.pool, t.first, t.order, t.done, t.bad)
             /\ t.pool = s.pool /\ t.first = s.first /\ t.order = s.order /\ t.done = TRUE /\ t.bad = s.bad
<1> DEFINE t == [s EXCEPT !.done = Yes]
<1>1. /\ t = Climb5(t.pool, t.first, t.order, t.done, t.bad)
      /\ t.pool = s.pool /\ t.first = s.first /\ t.order = s.order /\ t.done = Yes /\ t.bad = s.bad
  BY DEF Climb5
<1>2. t = [s EXCEPT !.done = TRUE]
  BY DEF Yes
<1> HIDE DEF t
<1>3. t.done = TRUE
  BY <1>1 DEF Yes
<1> DEFINE u == [s EXCEPT !.done = TRUE]
<1>4. t = u
  BY <1>2
<1> HIDE DEF u
<1>5. /\ u = Climb5(u.pool, u.first, u.order, u.done, u.bad)
      /\ u.pool = s.pool /\ u.first = s.first /\ u.order = s.order /\ u.done = TRUE /\ u.bad = s.bad
  BY <1>1, <1>3, <1>4
<1> QED BY <1>5 DEF u

\* What a turn that takes the buddy changes.
LEMMA ClimbTakes ==
  ASSUME NEW s, s = [pool |-> s.pool, first |-> s.first, order |-> s.order, done |-> s.done, bad |-> s.bad],
         NEW x, NEW y, NEW z
  PROVE  LET t == Took(s, x, y, z)
         IN  /\ t = Climb5(t.pool, t.first, t.order, t.done, t.bad)
             /\ t.pool = x /\ t.first = y /\ t.order = z /\ t.done = s.done /\ t.bad = s.bad
<1> DEFINE a == [s EXCEPT !.pool = x]
           b == [a EXCEPT !.first = y]
           c == [b EXCEPT !.order = z]
<1>1. /\ a = Climb5(a.pool, a.first, a.order, a.done, a.bad)
      /\ a.pool = x /\ a.first = s.first /\ a.order = s.order /\ a.done = s.done /\ a.bad = s.bad
  BY DEF Climb5
<1> DEFINE t == Took(s, x, y, z)
<1>2. c = t
  BY DEF Took
<1> HIDE DEF a, t
<1>3. /\ b = Climb5(b.pool, b.first, b.order, b.done, b.bad)
      /\ b.pool = x /\ b.first = y /\ b.order = s.order /\ b.done = s.done /\ b.bad = s.bad
  BY <1>1 DEF Climb5
<1> HIDE DEF b
<1>4. /\ c = Climb5(c.pool, c.first, c.order, c.done, c.bad)
      /\ c.pool = x /\ c.first = y /\ c.order = z /\ c.done = s.done /\ c.bad = s.bad
  BY <1>3 DEF Climb5
<1> HIDE DEF c
<1>5. /\ t = Climb5(t.pool, t.first, t.order, t.done, t.bad)
      /\ t.pool = x /\ t.first = y /\ t.order = z /\ t.done = s.done /\ t.bad = s.bad
  BY <1>2, <1>4
<1> QED BY <1>5 DEF t

\* A turn of the loop keeps its invariant.
LEMMA MergeTurn ==
  ASSUME NEW p, NEW s, NEW G, NEW U, NEW n, NEW k \in Nat, Climbing(p, s, G, U, n, k), k + 1 \in Orders
  PROVE  Climbing(p, Merge(s, k), G, U, n, k + 1)
<1>1. CASE s.done = TRUE
  <2>1. Merge(s, k) = s
    BY <1>1, MergeStays
  <2>2. Climbing(p, s, G, U, n, k + 1)
    BY <1>1 DEF Climbing
  <2> QED BY <2>1, <2>2
<1>2. CASE s.done = FALSE
  <2> DEFINE x == RangeAt(s.first, k)
             b == BuddyOf(s.first, k)
             y == RangeAt(b, k)
             e == End(b, k)
  <2>1. /\ s = [pool |-> s.pool, first |-> s.first, order |-> s.order, done |-> s.done, bad |-> s.bad]
        /\ s.bad = FALSE /\ s.order = k /\ x \in Sites /\ x.first = s.first /\ x.order = k
        /\ s.pool.freeBytes = p.freeBytes /\ Quiet(p, s.pool, Cover(G))
    BY <1>2 DEF Climbing, RangeAt
  <2>2. PICK L : /\ Kept(s.pool, L, G, {x}, U) /\ Merged(Listed(L))
                 /\ Cardinality(Cover(Listed(L) \cup {x})) = n
    <3>1. \E L : /\ Kept(s.pool, L, G, {RangeAt(s.first, s.order)}, U) /\ Merged(Listed(L))
                 /\ Cardinality(Cover(Listed(L) \cup {RangeAt(s.first, s.order)})) = n
      BY DEF Climbing
    <3> QED BY <2>1, <3>1
  <2>3. /\ e \in Blocks /\ e \notin s.pool.map => s.pool.tail[e] \in Orders
        /\ WholeBuddy(s.pool, b, k) <=> y \in Listed(L)
    <3>1. b = BuddyOf(x.first, x.order) /\ y = RangeAt(b, x.order) /\ x.order + 1 \in Orders /\ x.order = k
      BY <2>1
    <3> HIDE DEF x, b, y
    <3> QED BY <2>2, <3>1, BuddySeen
  <2>4. CASE y \notin Listed(L)
    <3> DEFINE t == [s EXCEPT !.done = TRUE]
    <3>1. Merge(s, k) = t
      <4>1. ~WholeBuddy(s.pool, b, k)
        BY <2>3, <2>4
      <4>2. b = BuddyOf(s.first, k)
        OBVIOUS
      <4> HIDE DEF b, y
      <4> QED BY <1>2, <2>3, <4>1, <4>2, MergeEnds
    <3>2. /\ t = [pool |-> t.pool, first |-> t.first, order |-> t.order, done |-> t.done, bad |-> t.bad]
          /\ t.pool = s.pool /\ t.first = s.first /\ t.order = s.order /\ t.done = TRUE /\ t.bad = FALSE
      BY <2>1, ClimbEnds DEF Climb5
    <3>3. Merged(Listed(L) \cup {x})
      <4>1. Listed(L) \in SUBSET Sites
        BY <2>2, KeptSites
      <4>2. RangeAt(BuddyOf(x.first, x.order), x.order) \notin Listed(L)
        BY <2>1, <2>4
      <4>3. x \in Sites /\ Merged(Listed(L))
        BY <2>1, <2>2
      <4> HIDE DEF x
      <4> QED BY <4>1, <4>2, <4>3, NoTwin
    <3>4. RangeAt(t.first, t.order) = x
      BY <2>1, <3>2
    <3> HIDE DEF t, x
    <3>5. Climbing(p, t, G, U, n, k + 1)
      BY <2>1, <2>2, <3>2, <3>3, <3>4 DEF Climbing
    <3> QED BY <3>1, <3>5
  <2>5. CASE y \in Listed(L)
    <3> DEFINE c == IF b < s.first THEN b ELSE s.first
               o == Taken(s.pool, b, k)
               q == RangeAt(c, k + 1)
               t == Took(s, o, c, k + 1)
    <3>1. BuddyTaken(s.pool, o, L, G, U, x, b, q)
      <4>1. x.order + 1 \in Orders /\ RangeAt(BuddyOf(x.first, x.order), x.order) \in Listed(L)
        BY <2>1, <2>5
      <4> HIDE DEF x
      <4>2. LET d == BuddyOf(x.first, x.order)
            IN  BuddyTaken(s.pool, [Unlink(s.pool, d, x.order) EXCEPT !.tail[End(d, x.order)] = Zero,
                                                                      !.head[d] = Zero],
                           L, G, U, x, d, RangeAt(Lower(d, x), x.order + 1))
        BY <2>1, <2>2, <4>1, TakeBuddy
      <4>3. Lower(b, x) = c
        BY <2>1 DEF Lower
      <4>4. BuddyOf(x.first, x.order) = b
        BY <2>1
      <4> HIDE DEF b, c
      <4>5. BuddyTaken(s.pool, [Unlink(s.pool, b, k) EXCEPT !.tail[End(b, k)] = Zero, !.head[b] = Zero],
                       L, G, U, x, b, RangeAt(c, k + 1))
        BY <2>1, <4>2, <4>3, <4>4
      <4> QED BY <4>5 DEF Taken
    <3>2. Merge(s, k) = t
      <4>1. WholeBuddy(s.pool, b, k) /\ ~BadLinks(s.pool, b)
        BY <2>3, <2>5, <3>1 DEF BuddyTaken
      <4>2. b = BuddyOf(s.first, k)
        OBVIOUS
      <4> HIDE DEF b, y
      <4> QED BY <1>2, <2>3, <4>1, <4>2, MergeTakes
    <3>3. /\ t = [pool |-> t.pool, first |-> t.first, order |-> t.order, done |-> t.done, bad |-> t.bad]
          /\ t.pool = o /\ t.first = c /\ t.order = k + 1 /\ t.done = FALSE /\ t.bad = FALSE
      <4> HIDE DEF o, c
      <4>1. /\ t = Climb5(t.pool, t.first, t.order, t.done, t.bad)
            /\ t.pool = o /\ t.first = c /\ t.order = k + 1 /\ t.done = s.done /\ t.bad = s.bad
        BY <2>1, ClimbTakes
      <4> HIDE DEF t
      <4> QED BY <1>2, <2>1, <4>1 DEF Climb5
    <3>4. RangeAt(t.first, t.order) = q
      BY <3>3
    <3>5. /\ q \in Sites /\ o.freeBytes = s.pool.freeBytes /\ Quiet(s.pool, o, Cover(G))
          /\ \E M : /\ Kept(o, M, G, {q}, U) /\ Merged(Listed(M))
                    /\ Cover(Listed(M) \cup {q}) = Cover(Listed(L) \cup {x})
      <4> HIDE DEF o, q, x, b
      <4> QED BY <3>1 DEF BuddyTaken
    <3> HIDE DEF t, q, o, x
    <3>6. Quiet(p, o, Cover(G))
      BY <2>1, <3>5 DEF Quiet
    <3>7. \E M : /\ Kept(o, M, G, {q}, U) /\ Merged(Listed(M))
                 /\ Cardinality(Cover(Listed(M) \cup {q})) = n
      BY <2>2, <3>5
    <3>8. Climbing(p, t, G, U, n, k + 1)
      BY <2>1, <3>3, <3>4, <3>5, <3>6, <3>7 DEF Climbing
    <3> QED BY <3>2, <3>8
  <2> QED BY <2>4, <2>5
<1>3. s.done \in BOOLEAN
  BY DEF Climbing
<1> QED BY <1>1, <1>2, <1>3

\* The whole climb.
LEMMA ClimbIs ==
  ASSUME NEW p, NEW s, NEW G, NEW U, NEW n, NEW k \in Orders, Climbing(p, s, G, U, n, k)
  PROVE  Climbing(p, FoldLeft(Merge, s, Climb(k)), G, U, n, NumSizes - 1)
<1> DEFINE m == NumSizes - 1 - k
<1>1. k \in Nat /\ m \in Nat /\ k + m = NumSizes - 1 /\ NumSizes \in Nat
  BY SizeAssumption DEF Orders
<1>2. DOMAIN Climb(k) = 1..m /\ \A i \in 1..m : Climb(k)[i] = k + i - 1
  BY DEF Climb
<1> HIDE DEF m
<1>3. PICK r : MergeRun(s, Climb(k), m, r) /\ r[m] = FoldLeft(Merge, s, Climb(k))
  BY <1>1, <1>2, FoldMerges
<1>4. r[0] = s /\ \A i \in 1..m : r[i] = Merge(r[i - 1], k + i - 1)
  BY <1>2, <1>3 DEF MergeRun
<1> DEFINE B == {i \in 0..m : ~Climbing(p, r[i], G, U, n, k + i)}
<1>5. ASSUME B # {} PROVE FALSE
  <2>1. PICK i \in B : \A j \in B : i <= j
    <3>1. B \subseteq Nat
      BY <1>1
    <3> HIDE DEF B
    <3> QED BY <1>5, <3>1, LeastOf
  <2>2. i \in 0..m /\ ~Climbing(p, r[i], G, U, n, k + i)
    OBVIOUS
  <2>3. i # 0
    BY <1>1, <1>4, <2>2
  <2>4. i - 1 \in 0..m /\ i \in 1..m /\ k + (i - 1) \in Nat /\ k + (i - 1) + 1 = k + i /\ k + i - 1 = k + (i - 1)
        /\ k + (i - 1) + 1 \in Orders
    BY <1>1, <2>2, <2>3 DEF Orders
  <2>5. i - 1 \notin B
    BY <2>1, <2>4
  <2>6. Climbing(p, r[i - 1], G, U, n, k + (i - 1))
    BY <2>4, <2>5
  <2>7. Climbing(p, Merge(r[i - 1], k + (i - 1)), G, U, n, k + (i - 1) + 1)
    BY <2>4, <2>6, MergeTurn
  <2>8. r[i] = Merge(r[i - 1], k + (i - 1))
    BY <1>4, <2>4
  <2> QED BY <2>2, <2>4, <2>7, <2>8
<1>6. Climbing(p, r[m], G, U, n, k + m)
  <2>1. m \in 0..m
    BY <1>1
  <2> QED BY <1>5, <2>1
<1> QED BY <1>1, <1>3, <1>6

-----------------------------------------------------------------------------
(* Free.                                                                   *)

\* What Free leaves.
FreeGives(p, r, G, g, U) ==
  /\ r.ret = "success" /\ Quiet(p, r.pool, Cover(G \ {g}))
  /\ \E M : Sound(r.pool, M, G \ {g}, U)

\* A busy range is in hand: its bit is cleared.
LEMMA InHand ==
  ASSUME NEW p, NEW L, NEW G, NEW U, Sound(p, L, G, U), NEW g \in G
  PROVE  LET q == [p EXCEPT !.map = @ \ {g.first + Span(g.order) - 1}]
         IN  /\ Kept(q, L, G \ {g}, {g}, U) /\ q.freeBytes = p.freeBytes
             /\ Quiet(p, q, Cover(G \ {g})) /\ g \in Sites
             /\ Cardinality(Cover(Listed(L) \cup {g})) = p.freeBytes + Span(g.order)
<1> DEFINE e == g.first + Span(g.order) - 1
           q == [p EXCEPT !.map = p.map \ {e}]
           H == G \ {g}
<1>1. /\ Kept(p, L, G, {}, U) /\ Merged(Listed(L)) /\ Counts(p, L)
  BY DEF Sound
<1>2. /\ Listing(p, L) /\ Marks(p, G, U) /\ Listed(L) \cap G = {} /\ Tiling(Listed(L) \cup G \cup {}, U)
      /\ PoolShape(p)
  BY <1>1 DEF Kept, Listing
<1>3. /\ G \subseteq Sites /\ Listed(L) \subseteq Sites /\ U \subseteq Blocks /\ g \in Sites
      /\ \A r, s \in Listed(L) \cup G \cup {} : Meet(r, s) => r = s
  BY <1>1, KeptSites
<1>4. e = End(g.first, g.order) /\ e \in Body(g) /\ e \in U
  <2>1. e = End(g.first, g.order)
    BY DEF End
  <2>2. e \in Body(g)
    BY <1>3, <2>1, SiteIs
  <2>3. g \in Listed(L) \cup G \cup {}
    OBVIOUS
  <2>4. Body(g) \subseteq U
    BY <1>2, <2>3, TilingGives
  <2> QED BY <2>1, <2>2, <2>4
<1>5. /\ PoolShape(q) /\ q.map = p.map \ {e} /\ q.freeList = p.freeList /\ q.freeBytes = p.freeBytes
      /\ q.head = p.head /\ q.tail = p.tail
  <2> DEFINE m == p.map \ {e}
  <2> HIDE DEF m
  <2>1. LET r == [p EXCEPT !.map = m]
        IN  /\ PoolShape(r) /\ r.map = m /\ r.freeList = p.freeList /\ r.freeBytes = p.freeBytes
            /\ r.head = p.head /\ r.tail = p.tail
    BY <1>2, SetMap
  <2> QED BY <2>1 DEF m
<1> HIDE DEF q, e, H
<1>6. Marks(q, H, U)
  <2>1. ASSUME NEW b \in Blocks
        PROVE  b \in q.map <=> b \notin U \/ \E h \in H : b = End(h.first, h.order)
    <3>1. b \in p.map <=> b \notin U \/ \E h \in G : b = End(h.first, h.order)
      BY <1>2 DEF Marks
    <3>2. CASE b = e
      <4>1. ASSUME NEW h \in H, b = End(h.first, h.order) PROVE FALSE
        <5>1. h \in G /\ h # g /\ h \in Sites
          BY <1>3 DEF H
        <5>2. b \in Body(h) /\ b \in Body(g)
          BY <1>4, <3>2, <4>1, <5>1, SiteIs
        <5>3. Meet(h, g)
          BY <5>2 DEF Meet
        <5> QED BY <1>3, <5>1, <5>3
      <4> QED BY <1>4, <1>5, <3>2, <4>1
    <3>3. CASE b # e
      BY <1>4, <1>5, <3>1, <3>3 DEF H
    <3> QED BY <3>2, <3>3
  <2> QED BY <2>1 DEF Marks
<1>7. Kept(q, L, H, {g}, U)
  <2>1. Listed(L) \cup H \cup {g} = Listed(L) \cup G \cup {}
    BY DEF H
  <2>2. Tiling(Listed(L) \cup H \cup {g}, U)
    BY <1>2, <2>1
  <2>3. Listed(L) \cap H = {} /\ Listed(L) \cap {g} = {} /\ H \cap {g} = {}
    BY <1>2 DEF H
  <2> QED BY <1>2, <1>5, <1>6, <2>2, <2>3, Regroup
<1>8. Quiet(p, q, Cover(H))
  BY <1>5 DEF Quiet
<1>9. Cardinality(Cover(Listed(L) \cup {g})) = p.freeBytes + Span(g.order)
  <2>1. \A r \in Listed(L) : ~Meet(r, g)
    BY <1>2, <1>3
  <2>2. Cardinality(Cover(Listed(L) \cup {g})) = Cardinality(Cover(Listed(L))) + Span(g.order)
    BY <1>3, <2>1, CoverGrows
  <2> QED BY <1>1, <2>2 DEF Counts
<1> QED BY <1>3, <1>5, <1>7, <1>8, <1>9 DEF q, e, H

\* Where the loop of Free begins.
FreeState(p, g) ==
  [pool |-> [p EXCEPT !.map = @ \ {g.first + Span(g.order) - 1}], first |-> g.first,
   order |-> g.order, done |-> FALSE, bad |-> FALSE]

\* The invariant of the loop holds when Free enters it.
LEMMA ClimbBegins ==
  ASSUME NEW p, NEW L, NEW G, NEW U, Sound(p, L, G, U), NEW g \in G
  PROVE  Climbing(p, FreeState(p, g), G \ {g}, U, p.freeBytes + Span(g.order), g.order)
<1> DEFINE q == [p EXCEPT !.map = @ \ {g.first + Span(g.order) - 1}]
           H == G \ {g}
           n == p.freeBytes + Span(g.order)
           s == FreeState(p, g)
<1>1. /\ Kept(q, L, H, {g}, U) /\ q.freeBytes = p.freeBytes
      /\ Quiet(p, q, Cover(H)) /\ g \in Sites
      /\ Cardinality(Cover(Listed(L) \cup {g})) = n
  BY InHand, ZenonT(60)
<1>2. Merged(Listed(L))
  BY DEF Sound
<1> HIDE DEF q
<1>3. s = [pool |-> q, first |-> g.first, order |-> g.order, done |-> FALSE, bad |-> FALSE]
  BY DEF FreeState, q
<1> HIDE DEF s, H, n
<1>4. /\ s = [pool |-> s.pool, first |-> s.first, order |-> s.order, done |-> s.done, bad |-> s.bad]
      /\ s.pool = q /\ s.first = g.first /\ s.order = g.order /\ s.done = FALSE /\ s.bad = FALSE
  BY <1>3
<1>5. RangeAt(s.first, s.order) = g
  BY <1>1, <1>4, SiteIs
<1>6. Climbing(p, s, H, U, n, g.order)
  BY <1>1, <1>2, <1>4, <1>5 DEF Climbing
<1> QED BY <1>6 DEF s, H, n

\* The end of Free: what was merged enters its list.
LEMMA FreeEnds ==
  ASSUME NEW p, NEW s, NEW H, NEW U, NEW k, Climbing(p, s, H, U, p.freeBytes + Span(k), NumSizes - 1)
  PROVE  LET next == s.pool.freeList[s.order]
             q == [Push(s.pool, s.first, s.order) EXCEPT !.freeBytes = @ + Span(k)]
         IN  /\ ~(s.bad \/ (next # Null /\ (~IsFree(s.pool, next) \/ s.pool.head[next].prev # Null)))
             /\ Quiet(p, q, Cover(H)) /\ \E M : Sound(q, M, H, U)
<1> DEFINE x == RangeAt(s.first, s.order)
           o == Push(s.pool, s.first, s.order)
           q == [o EXCEPT !.freeBytes = o.freeBytes + Span(k)]
           n == p.freeBytes + Span(k)
           next == s.pool.freeList[s.order]
<1>1. /\ s.bad = FALSE /\ s.done \in BOOLEAN /\ x \in Sites
      /\ s.done = FALSE => s.order = NumSizes - 1
      /\ s.pool.freeBytes = p.freeBytes /\ Quiet(p, s.pool, Cover(H))
  BY DEF Climbing
<1>2. PICK L : /\ Kept(s.pool, L, H, {x}, U) /\ Merged(Listed(L))
               /\ s.done = TRUE => Merged(Listed(L) \cup {x})
               /\ Cardinality(Cover(Listed(L) \cup {x})) = n
  BY DEF Climbing
<1>3. x.first = s.first /\ x.order = s.order
  BY DEF RangeAt
<1> HIDE DEF x, o, n, next
<1>4. Merged(Listed(L) \cup {x})
  <2>1. CASE s.done = TRUE
    BY <1>2, <2>1
  <2>2. CASE s.done = FALSE
    <3>1. x.order + 1 \notin Orders
      <4>1. NumSizes - 1 + 1 \notin 0..(NumSizes - 1)
        BY SizeAssumption
      <4> QED BY <1>1, <1>3, <2>2, <4>1 DEF Orders
    <3>2. Listed(L) \in SUBSET Sites
      BY <1>2, KeptSites
    <3> QED BY <1>1, <1>2, <3>1, <3>2, NoTwin
  <2> QED BY <1>1, <2>1, <2>2
<1>5. next = Null \/ (IsFree(s.pool, next) /\ s.pool.head[next].prev = Null)
  <2>1. Listing(s.pool, L) /\ s.order \in Orders
    BY <1>1, <1>2, <1>3, SiteIs DEF Kept
  <2> QED BY <2>1, HeadListed DEF next
<1>6. /\ \E M : Kept(o, M, H, {}, U) /\ Listed(M) = Listed(L) \cup {x}
      /\ o.map = s.pool.map /\ o.freeBytes = s.pool.freeBytes /\ Quiet(s.pool, o, Cover(H))
  <2>1. LET r == Push(s.pool, x.first, x.order)
        IN  /\ \E M : Kept(r, M, H, {x} \ {x}, U) /\ Listed(M) = Listed(L) \cup {x}
            /\ r.map = s.pool.map /\ r.freeBytes = s.pool.freeBytes /\ Quiet(s.pool, r, Cover(H))
    <3>1. x \in {x}
      OBVIOUS
    <3> QED BY <1>2, <3>1, KeepPush
  <2>2. {x} \ {x} = {}
    OBVIOUS
  <2> QED BY <1>3, <2>1, <2>2 DEF o
<1>7. PICK M : Kept(o, M, H, {}, U) /\ Listed(M) = Listed(L) \cup {x}
  BY <1>6
<1>8. /\ PoolShape(q) /\ q.map = o.map /\ q.freeList = o.freeList /\ q.freeBytes = o.freeBytes + Span(k)
      /\ q.head = o.head /\ q.tail = o.tail
  <2> DEFINE f == o.freeBytes + Span(k)
  <2>1. PoolShape(o)
    BY <1>7 DEF Kept, Listing
  <2> HIDE DEF f
  <2>2. LET r == [o EXCEPT !.freeBytes = f]
        IN  /\ PoolShape(r) /\ r.map = o.map /\ r.freeList = o.freeList /\ r.freeBytes = f
            /\ r.head = o.head /\ r.tail = o.tail
    BY <2>1, SetBytes
  <2> QED BY <2>2 DEF f
<1> HIDE DEF q
<1>9. Kept(q, M, H, {}, U)
  <2>1. Quiet(o, q, Cover(Listed(M)))
    BY <1>8 DEF Quiet
  <2> QED BY <1>7, <1>8, <2>1, KeepWrite
<1>10. Counts(q, M)
  <2>1. q.freeBytes = n
    BY <1>1, <1>6, <1>8 DEF n
  <2> QED BY <1>2, <1>7, <2>1 DEF Counts
<1>11. Sound(q, M, H, U)
  BY <1>4, <1>7, <1>9, <1>10 DEF Sound
<1>12. Quiet(p, q, Cover(H))
  BY <1>1, <1>6, <1>8 DEF Quiet
<1>13. q = [Push(s.pool, s.first, s.order) EXCEPT !.freeBytes = @ + Span(k)]
  BY DEF q, o
<1>14. ~(s.bad \/ (next # Null /\ (~IsFree(s.pool, next) \/ s.pool.head[next].prev # Null)))
  BY <1>1, <1>5
<1> QED BY <1>11, <1>12, <1>13, <1>14 DEF next

(* Free succeeds on every busy range, makes it free, merges it, and leaves *)
(* the contents of the others.                                             *)
LEMMA FreeIs ==
  ASSUME NEW p, NEW L, NEW G, NEW U, Sound(p, L, G, U), NEW g \in G
  PROVE  FreeGives(p, Free(p, g.first), G, g, U)
<1> DEFINE k == g.order
           s == FoldLeft(Merge, FreeState(p, g), Climb(k))
           H == G \ {g}
           next == s.pool.freeList[s.order]
           q == [Push(s.pool, s.first, s.order) EXCEPT !.freeBytes = @ + Span(k)]
<1>1. Ends(p, g.first) # {} /\ SizeOf(p, g.first) = k
  BY SizeIs DEF Sound
<1>2. k \in Orders
  <2>1. g \in Sites
    BY KeptSites DEF Sound
  <2> QED BY <2>1, SiteIs
<1>3. Climbing(p, s, H, U, p.freeBytes + Span(k), NumSizes - 1)
  <2>1. Climbing(p, FreeState(p, g), H, U, p.freeBytes + Span(k), k)
    BY ClimbBegins
  <2> QED BY <1>2, <2>1, ClimbIs
<1>4. /\ ~(s.bad \/ (next # Null /\ (~IsFree(s.pool, next) \/ s.pool.head[next].prev # Null)))
      /\ Quiet(p, q, Cover(H)) /\ \E M : Sound(q, M, H, U)
  <2> HIDE DEF s
  <2> QED BY <1>3, FreeEnds
<1>5. Free(p, g.first) = Success(q, Null)
  <2>1. Free(p, g.first) =
          IF Ends(p, g.first) = {} THEN Failure("badpointer", p)
          ELSE IF s.bad \/ (next # Null /\ (~IsFree(s.pool, next) \/ s.pool.head[next].prev # Null))
                 THEN Failure("corrupt", s.pool)
          ELSE Success(q, Null)
    BY <1>1 DEF Free, FreeState
  <2> HIDE DEF s, q, next
  <2> QED BY <1>1, <1>4, <2>1
<1> HIDE DEF q, s
<1> QED BY <1>4, <1>5 DEF FreeGives, Success

-----------------------------------------------------------------------------
(* Shrink: the first part of a busy range stays, the rest is freed.        *)

\* What Shrink leaves: x is the part that stays.
ShrinkGives(p, q, G, g, x, U) ==
  /\ x \in Sites /\ x.first = g.first /\ x.order < g.order /\ x \notin G \ {g}
  /\ Quiet(p, q, Cover((G \ {g}) \cup {x}))
  /\ \E M : Sound(q, M, (G \ {g}) \cup {x}, U)

(* Realloc to a smaller order keeps the first part of the range and frees  *)
(* the rest.                                                               *)
LEMMA ShrinkIs ==
  ASSUME NEW p, NEW L, NEW G, NEW U, Sound(p, L, G, U), NEW g \in G, NEW n \in Nat, n < g.order
  PROVE  ShrinkGives(p, Shrink(p, g.first, g.order, n), G, g, RangeAt(g.first, n), U)
<1> DEFINE k == g.order
           at == g.first
           x == RangeAt(at, n)
           X == Rest(g, n)
           e == at + Span(n) - 1
           d == at + Span(k) - 1
           H == G \ {g}
           m == (p.map \cup {e}) \ {d}
           f == [p EXCEPT !.map = m]
           q == toFree(f, at + Span(n), at + Span(k))
           S == Listed(L) \cup H
<1>1. Kept(p, L, G, {}, U) /\ Merged(Listed(L)) /\ Counts(p, L) /\ Listing(p, L) /\ PoolShape(p)
      /\ Marks(p, G, U) /\ Tiling(Listed(L) \cup G \cup {}, U) /\ Listed(L) \cap G = {}
  BY DEF Sound, Kept, Listing
<1>2. /\ Listed(L) \subseteq Sites /\ G \subseteq Sites /\ g \in Sites /\ U \subseteq Blocks
      /\ \A r, s \in Listed(L) \cup G \cup {} : Meet(r, s) => r = s
  BY <1>1, KeptSites
<1>3. /\ at \in Nat /\ k \in Nat /\ k \in Orders /\ Past(g) = at + Span(k) /\ n \in Orders
      /\ d = End(at, k) /\ d \in Body(g)
  <2>1. at \in Nat /\ k \in Nat /\ k \in Orders /\ Past(g) = at + Span(k) /\ End(at, k) \in Body(g)
    BY <1>2, SiteIs
  <2>2. n \in Orders
    BY <2>1, SizeAssumption DEF Orders
  <2> QED BY <2>1, <2>2 DEF End
<1>4. /\ PoolShape(f) /\ f.map = m /\ f.freeList = p.freeList /\ f.freeBytes = p.freeBytes
      /\ f.head = p.head /\ f.tail = p.tail
  <2> HIDE DEF m
  <2> QED BY <1>1, SetMap
<1>5. q = Shrink(p, at, k, n)
  BY DEF Shrink
<1> HIDE DEF q, f
<1>6. /\ x \in Sites /\ x.first = at /\ x.order = n /\ Body(x) \subseteq Body(g)
      /\ at + Span(n) <= Past(g) /\ Past(g) <= PoolBlocks
      /\ at + Span(n) \in Nat /\ Past(g) \in Nat
      /\ Tiling(S \cup ({x} \cup X), U)
      /\ x \notin S /\ x \notin X /\ S \cap X = {}
      /\ \A s \in S : ~Meet(s, g)
      /\ \A T \in SUBSET S : Merged(T) => Merged(T \cup X)
  <2>1. Tiling(S \cup {g}, U) /\ g \notin S
    <3>1. S \cup {g} = Listed(L) \cup G \cup {}
      OBVIOUS
    <3> QED BY <1>1, <3>1
  <2> HIDE DEF S, x, X
  <2>2. Split(S, U, g, n, x, X)
    BY <1>3, <2>1, SplitIs DEF x, X
  <2> QED BY <2>2 DEF Split
<1> HIDE DEF x
<1>7. X = Items(Pieces(at + Span(n), Past(g)), 1, Len(Pieces(at + Span(n), Past(g))))
  BY DEF Rest
<1> HIDE DEF X
<1>8. e = End(x.first, x.order) /\ e # d
  <2>1. Span(n) < Span(k) /\ Span(n) \in Nat /\ Span(k) \in Nat
    BY <1>3, SpanGrows, SpanPositive
  <2> QED BY <1>3, <1>6, <2>1 DEF End
<1>9. Marks(f, H \cup {x}, U)
  <2>1. ASSUME NEW b \in Blocks
        PROVE  b \in f.map <=> b \notin U \/ \E h \in H \cup {x} : b = End(h.first, h.order)
    <3>1. b \in p.map <=> b \notin U \/ \E h \in G : b = End(h.first, h.order)
      BY <1>1 DEF Marks
    <3>2. CASE b = d
      <4>1. ASSUME NEW h \in H, b = End(h.first, h.order) PROVE FALSE
        <5>1. h \in G /\ h # g /\ h \in Sites
          BY <1>2
        <5>2. b \in Body(h) /\ b \in Body(g)
          BY <1>3, <3>2, <4>1, <5>1, SiteIs
        <5>3. Meet(h, g)
          BY <5>2 DEF Meet
        <5> QED BY <1>2, <5>1, <5>3
      <4>2. b \in U
        <5>1. g \in Listed(L) \cup G \cup {}
          OBVIOUS
        <5>2. Body(g) \subseteq U
          BY <1>1, <5>1, TilingGives
        <5> QED BY <1>3, <3>2, <5>2
      <4>3. b # End(x.first, x.order)
        BY <1>8, <3>2
      <4>4. b \notin f.map
        BY <1>4, <3>2
      <4> HIDE DEF d, e, H
      <4> QED BY <4>1, <4>2, <4>3, <4>4
    <3>3. CASE b # d
      <4>1. b \in f.map <=> b \in p.map \/ b = e
        BY <1>4, <3>3
      <4>2. \A h \in G : b = End(h.first, h.order) => h \in H
        BY <1>3, <3>3
      <4> HIDE DEF d, e
      <4> QED BY <1>8, <3>1, <4>1, <4>2
    <3> QED BY <3>2, <3>3
  <2> QED BY <2>1 DEF Marks
<1>10. Kept(f, L, H \cup {x}, X, U)
  <2>1. Listed(L) \cup (H \cup {x}) \cup X = S \cup ({x} \cup X)
    OBVIOUS
  <2>2. Tiling(Listed(L) \cup (H \cup {x}) \cup X, U)
    BY <1>6, <2>1
  <2>3. Listed(L) \cap (H \cup {x}) = {} /\ Listed(L) \cap X = {} /\ (H \cup {x}) \cap X = {}
    BY <1>1, <1>6
  <2> HIDE DEF S, H
  <2> QED BY <1>1, <1>4, <1>9, <2>2, <2>3, Regroup
<1>11. Counts(f, L)
  BY <1>1, <1>4 DEF Counts
<1>12. Freed(f, q, L, H \cup {x}, X, {}, U)
  <2>1. q = toFree(f, at + Span(n), Past(g))
    BY <1>3 DEF q
  <2> HIDE DEF H, at
  <2> QED BY <1>6, <1>7, <1>10, <1>11, <2>1, ToFreeIs
<1>13. PICK N : Kept(q, N, H \cup {x}, {}, U) /\ Listed(N) = Listed(L) \cup X /\ Counts(q, N)
  BY <1>12 DEF Freed
<1>14. Merged(Listed(N))
  <2>1. Listed(L) \in SUBSET S
    OBVIOUS
  <2> HIDE DEF S
  <2>2. Merged(Listed(L) \cup X)
    BY <1>1, <1>6, <2>1
  <2> QED BY <1>13, <2>2
<1>15. Sound(q, N, H \cup {x}, U)
  BY <1>13, <1>14 DEF Sound
<1>16. Quiet(p, q, Cover(H \cup {x}))
  <2>1. Quiet(f, q, Cover(H \cup {x}))
    BY <1>12 DEF Freed
  <2> QED BY <1>4, <2>1 DEF Quiet
<1>17. x \notin H
  BY <1>6
<1>18. ShrinkGives(p, q, G, g, x, U)
  BY <1>6, <1>15, <1>16, <1>17 DEF ShrinkGives
<1> QED BY <1>5, <1>18 DEF x

-----------------------------------------------------------------------------
(* Realloc to a larger size: a new range, a copy, and the old one is freed. *)

\* What CopyTo leaves.
Copied(p, q, from, to, n) ==
  /\ PoolShape(q) /\ q.map = p.map /\ q.freeList = p.freeList /\ q.freeBytes = p.freeBytes
  /\ \A b \in Blocks \ (to..(to + n - 1)) : q.head[b] = p.head[b] /\ q.tail[b] = p.tail[b]
  /\ \A i \in 0..(n - 1) : q.head[to + i] = p.head[from + i] /\ q.tail[to + i] = p.tail[from + i]

\* One of the fields it copies.
MovedIn(f, from, to, n) == [b \in Blocks |-> IF b \in to..(to + n - 1) THEN f[b - to + from] ELSE f[b]]

\* What such a copy leaves: g is f, but for the n places at to.
Moves(f, g, from, to, n) ==
  /\ g = [b \in Blocks |-> g[b]]
  /\ \A b \in Blocks \ (to..(to + n - 1)) : g[b] = f[b]
  /\ \A i \in 0..(n - 1) : g[to + i] = f[from + i]

\* memcpy between ranges that do not overlap.
LEMMA MovedIs ==
  ASSUME NEW f, NEW from \in Nat, NEW to \in Nat, NEW n \in Nat, to + n <= PoolBlocks
  PROVE  Moves(f, MovedIn(f, from, to, n), from, to, n)
<1> DEFINE g == [b \in Blocks |-> IF b \in to..(to + n - 1) THEN f[b - to + from] ELSE f[b]]
<1>1. ASSUME NEW i \in 0..(n - 1) PROVE g[to + i] = f[from + i]
  <2>1. to + i \in Blocks /\ to + i \in to..(to + n - 1)
    BY BlocksAre
  <2>2. to + i - to + from = from + i
    OBVIOUS
  <2>3. g[to + i] = f[to + i - to + from]
    BY <2>1
  <2> QED BY <2>2, <2>3
<1>2. g = MovedIn(f, from, to, n)
  BY DEF MovedIn
<1>3. g = [b \in Blocks |-> g[b]] /\ \A b \in Blocks \ (to..(to + n - 1)) : g[b] = f[b]
  OBVIOUS
<1> HIDE DEF g
<1> QED BY <1>1, <1>2, <1>3 DEF Moves

\* CopyTo moves the records of both kinds.
LEMMA CopyIs ==
  ASSUME NEW p, PoolShape(p), NEW from \in Nat, NEW to \in Nat, NEW n \in Nat, to + n <= PoolBlocks
  PROVE  Copied(p, CopyTo(p, from, to, n), from, to, n)
<1> DEFINE h == MovedIn(p.head, from, to, n)
           t == MovedIn(p.tail, from, to, n)
           q == [p EXCEPT !.head = h, !.tail = t]
<1>1. q = CopyTo(p, from, to, n)
  BY DEF CopyTo, MovedIn
<1>2. /\ h = [b \in Blocks |-> h[b]]
      /\ \A b \in Blocks \ (to..(to + n - 1)) : h[b] = p.head[b]
      /\ \A i \in 0..(n - 1) : h[to + i] = p.head[from + i]
  <2>1. Moves(p.head, h, from, to, n)
    BY MovedIs
  <2> HIDE DEF h, t
  <2> QED BY <2>1 DEF Moves
<1>3. /\ t = [b \in Blocks |-> t[b]]
      /\ \A b \in Blocks \ (to..(to + n - 1)) : t[b] = p.tail[b]
      /\ \A i \in 0..(n - 1) : t[to + i] = p.tail[from + i]
  <2>1. Moves(p.tail, t, from, to, n)
    BY MovedIs
  <2> HIDE DEF h, t
  <2> QED BY <2>1 DEF Moves
<1> HIDE DEF h, t
<1>4. q = [map |-> p.map, freeList |-> p.freeList, freeBytes |-> p.freeBytes, head |-> h, tail |-> t]
  <2>1. p = [map |-> p.map, freeList |-> p.freeList, freeBytes |-> p.freeBytes,
             head |-> p.head, tail |-> p.tail]
    BY DEF PoolShape
  <2> DEFINE o == [p EXCEPT !.head = h]
  <2>2. o = [map |-> p.map, freeList |-> p.freeList, freeBytes |-> p.freeBytes, head |-> h, tail |-> p.tail]
    BY <2>1
  <2>3. q = [o EXCEPT !.tail = t]
    OBVIOUS
  <2> HIDE DEF o
  <2> QED BY <2>2, <2>3
<1> HIDE DEF q
<1>5. /\ q.map = p.map /\ q.freeList = p.freeList /\ q.freeBytes = p.freeBytes /\ q.head = h /\ q.tail = t
      /\ q = [map |-> q.map, freeList |-> q.freeList, freeBytes |-> q.freeBytes,
              head |-> q.head, tail |-> q.tail]
  BY <1>4
<1>6. PoolShape(q)
  BY <1>2, <1>3, <1>5 DEF PoolShape
<1>7. Copied(p, q, from, to, n)
  BY <1>2, <1>3, <1>5, <1>6 DEF Copied
<1> QED BY <1>1, <1>7

\* What g held is in the new range y, and the rest of what callers hold stays.
GrowGives(p, r, G, g, y, U) ==
  /\ r.ret = "success" /\ r.at = y.first /\ y \in Sites /\ y \notin G /\ g.order < y.order
  /\ Quiet(p, r.pool, Cover(G \ {g}))
  /\ \A i \in 0..(Span(g.order) - 1) :
       /\ r.pool.head[y.first + i] = p.head[g.first + i]
       /\ r.pool.tail[y.first + i] = p.tail[g.first + i]
  /\ \E M : Sound(r.pool, M, (G \ {g}) \cup {y}, U)

\* More blocks than a range has need a larger order.
LEMMA OrderAbove ==
  ASSUME NEW n \in Nat, NEW k \in Nat, Span(k) < n
  PROVE  OrderOf(n) \in Nat /\ k < OrderOf(n) /\ Span(k) < Span(OrderOf(n))
<1>1. OrderOf(n) \in Nat /\ n <= Span(OrderOf(n))
  BY OrderOfFits
<1>2. Span(OrderOf(n)) \in Nat /\ Span(k) \in Nat
  BY <1>1, SpanPositive
<1>3. Span(k) < Span(OrderOf(n))
  BY <1>1, <1>2
<1>4. OrderOf(n) <= k => Span(OrderOf(n)) <= Span(k)
  BY <1>1, SpanGrows
<1> QED BY <1>1, <1>2, <1>3, <1>4

\* The copy touches nothing but the new range.
LEMMA KeepCopy ==
  ASSUME NEW p, NEW L, NEW G, NEW U, Sound(p, L, G, U), NEW g \in G, NEW y \in G, g.order < y.order
  PROVE  LET c == CopyTo(p, g.first, y.first, Span(g.order))
         IN  /\ Sound(c, L, G, U) /\ Quiet(p, c, Cover(G \ {y}))
             /\ \A i \in 0..(Span(g.order) - 1) :
                  /\ c.head[y.first + i] = p.head[g.first + i]
                  /\ c.tail[y.first + i] = p.tail[g.first + i]
<1> DEFINE n == Span(g.order)
           c == CopyTo(p, g.first, y.first, n)
<1>1. /\ Kept(p, L, G, {}, U) /\ Merged(Listed(L)) /\ Counts(p, L) /\ PoolShape(p)
      /\ Tiling(Listed(L) \cup G \cup {}, U)
  BY DEF Sound, Kept, Listing
<1>2. /\ G \subseteq Sites /\ Listed(L) \subseteq Sites /\ U \subseteq Blocks
      /\ \A r, s \in Listed(L) \cup G \cup {} : Meet(r, s) => r = s
  BY <1>1, KeptSites
<1>3. /\ g.first \in Nat /\ y.first \in Nat /\ n \in Nat /\ y.first + n <= Past(y) /\ y \in Sites
      /\ Past(y) \in Nat /\ Past(y) <= PoolBlocks
  <2>1. /\ g.first \in Nat /\ y.first \in Nat /\ n \in Nat /\ y \in Sites /\ Past(y) \in Nat
        /\ Past(y) <= PoolBlocks /\ Past(y) = y.first + Span(y.order) /\ y.order \in Nat /\ g.order \in Nat
        /\ Span(y.order) \in Nat
    BY <1>2, SiteIs
  <2>2. n < Span(y.order)
    BY <2>1, SpanGrows
  <2> QED BY <2>1, <2>2
<1>4. y.first..(y.first + n - 1) \subseteq Body(y)
  BY <1>3 DEF Body
<1>5. Copied(p, c, g.first, y.first, n)
  <2>1. y.first + n <= PoolBlocks
    BY <1>3, BlocksAre
  <2> HIDE DEF n
  <2> QED BY <1>1, <1>3, <2>1, CopyIs
<1> HIDE DEF c, n
<1>6. ASSUME NEW T, T \subseteq Listed(L) \cup G, y \notin T PROVE Quiet(p, c, Cover(T))
  <2>1. ASSUME NEW b \in Cover(T) PROVE b \in Blocks \ (y.first..(y.first + n - 1))
    <3>1. PICK r \in T : b \in Body(r)
      BY InCover
    <3>2. r \in Listed(L) \cup G \cup {} /\ y \in Listed(L) \cup G \cup {} /\ r # y /\ r \in Sites
      BY <1>2, <1>6, <3>1
    <3>3. ~Meet(r, y)
      BY <1>2, <3>2
    <3>4. b \notin Body(y) /\ b \in Blocks
      BY <3>1, <3>2, <3>3, SiteIs DEF Meet
    <3> QED BY <1>4, <3>4
  <2> QED BY <1>5, <2>1 DEF Quiet, Copied
<1>7. Kept(c, L, G, {}, U)
  <2>1. y \notin Listed(L)
    BY <1>1 DEF Kept
  <2>2. Quiet(p, c, Cover(Listed(L)))
    BY <1>6, <2>1
  <2>3. PoolShape(c) /\ c.freeList = p.freeList /\ c.map = p.map
    BY <1>5 DEF Copied
  <2> QED BY <1>1, <2>2, <2>3, KeepWrite
<1>8. Sound(c, L, G, U)
  BY <1>1, <1>5, <1>7 DEF Sound, Counts, Copied
<1>9. Quiet(p, c, Cover(G \ {y}))
  BY <1>6
<1>10. \A i \in 0..(n - 1) : c.head[y.first + i] = p.head[g.first + i] /\ c.tail[y.first + i] = p.tail[g.first + i]
  BY <1>5 DEF Copied
<1> QED BY <1>8, <1>9, <1>10 DEF c, n

(* Realloc to a larger order fails for want of memory and changes nothing, *)
(* or moves the range with its contents.                                   *)
LEMMA GrowIs ==
  ASSUME NEW p, NEW L, NEW G, NEW U, Sound(p, L, G, U), NEW g \in G, NEW n \in Nat, Span(g.order) < n
  PROVE  LET r == Grow(p, g.first, g.order, n)
         IN  \/ r = Failure("nomemory", p)
             \/ GrowGives(p, r, G, g, RangeAt(r.at, OrderOf(n)), U)
<1> DEFINE k == g.order
           j == OrderOf(n)
           new == Malloc(p, n)
           y == RangeAt(new.at, j)
           c == CopyTo(new.pool, g.first, new.at, Span(k))
           f == Free(c, g.first)
           H == G \ {g}
<1>1. g \in Sites /\ k \in Nat /\ j \in Nat /\ k < j
  <2>1. g \in Sites
    BY KeptSites DEF Sound
  <2>2. k \in Nat
    BY <2>1, SiteIs
  <2> QED BY <2>1, <2>2, OrderAbove
<1>2. \/ new = Failure("nomemory", p)
      \/ Allotted(p, G, U, j, new)
  <2>1. new = BuddyMalloc(p, j)
    BY DEF Malloc
  <2> HIDE DEF new, j
  <2>2. IF p.freeBytes < Span(j) \/ Larger(p, j) = {}
          THEN BuddyMalloc(p, j) = Failure("nomemory", p)
          ELSE Allotted(p, G, U, j, BuddyMalloc(p, j))
    BY <1>1, MallocIs
  <2> QED BY <2>1, <2>2
<1>3. CASE new = Failure("nomemory", p)
  <2>1. new.ret = "nomemory"
    BY <1>3 DEF Failure
  <2>2. Grow(p, g.first, g.order, n) = new
    BY <2>1 DEF Grow
  <2> QED BY <1>3, <2>2
<1>4. CASE Allotted(p, G, U, j, new)
  <2> HIDE DEF j, new
  <2>1. /\ new.ret = "success" /\ new.at \in Nat /\ y \in Sites /\ y \notin G
        /\ Quiet(p, new.pool, Cover(G)) /\ y.first = new.at /\ y.order = j
    BY <1>4 DEF Allotted, RangeAt
  <2>2. PICK M : Sound(new.pool, M, G \cup {y}, U)
    BY <1>4 DEF Allotted
  <2>3. /\ Sound(c, M, G \cup {y}, U) /\ Quiet(new.pool, c, Cover((G \cup {y}) \ {y}))
        /\ \A i \in 0..(Span(k) - 1) :
             /\ c.head[y.first + i] = new.pool.head[g.first + i]
             /\ c.tail[y.first + i] = new.pool.tail[g.first + i]
    <3>1. g \in G \cup {y} /\ y \in G \cup {y} /\ g.order < y.order
      BY <1>1, <2>1
    <3> HIDE DEF y
    <3>2. LET d == CopyTo(new.pool, g.first, y.first, Span(g.order))
          IN  /\ Sound(d, M, G \cup {y}, U) /\ Quiet(new.pool, d, Cover((G \cup {y}) \ {y}))
              /\ \A i \in 0..(Span(g.order) - 1) :
                   /\ d.head[y.first + i] = new.pool.head[g.first + i]
                   /\ d.tail[y.first + i] = new.pool.tail[g.first + i]
      BY <2>2, <3>1, KeepCopy
    <3> QED BY <2>1, <3>2
  <2> HIDE DEF c
  <2>4. FreeGives(c, f, G \cup {y}, g, U)
    <3>1. g \in G \cup {y}
      OBVIOUS
    <3> HIDE DEF y
    <3> QED BY <2>3, <3>1, FreeIs
  <2> HIDE DEF f, y
  <2>5. (G \cup {y}) \ {g} = H \cup {y} /\ (G \cup {y}) \ {y} = G
    BY <2>1
  <2>6. f.ret = "success" /\ Quiet(c, f.pool, Cover(H \cup {y})) /\ \E N : Sound(f.pool, N, H \cup {y}, U)
    BY <2>4, <2>5 DEF FreeGives
  <2> HIDE DEF H
  <2>7. Cover(H) \subseteq Cover(G) /\ Cover(H) \subseteq Cover(H \cup {y})
        /\ Body(y) \subseteq Cover(H \cup {y}) /\ Body(g) \subseteq Cover(G)
    BY InCover DEF H
  <2>8. Quiet(p, f.pool, Cover(H))
    <3>1. ASSUME NEW b \in Cover(H) PROVE f.pool.head[b] = p.head[b] /\ f.pool.tail[b] = p.tail[b]
      <4>1. b \in Cover(G) /\ b \in Cover(H \cup {y})
        BY <2>7
      <4>2. new.pool.head[b] = p.head[b] /\ new.pool.tail[b] = p.tail[b]
        BY <2>1, <4>1 DEF Quiet
      <4>3. c.head[b] = new.pool.head[b] /\ c.tail[b] = new.pool.tail[b]
        BY <2>3, <2>5, <4>1 DEF Quiet
      <4>4. f.pool.head[b] = c.head[b] /\ f.pool.tail[b] = c.tail[b]
        BY <2>6, <4>1 DEF Quiet
      <4> QED BY <4>2, <4>3, <4>4
    <3> QED BY <3>1 DEF Quiet
  <2>9. ASSUME NEW i \in 0..(Span(k) - 1)
        PROVE  f.pool.head[y.first + i] = p.head[g.first + i] /\ f.pool.tail[y.first + i] = p.tail[g.first + i]
    <3>1. g.first + i \in Body(g) /\ y.first + i \in Body(y)
      <4>1. /\ g.first \in Nat /\ y.first \in Nat /\ Past(g) = g.first + Span(k) /\ Past(y) = y.first + Span(j)
            /\ Span(k) \in Nat /\ Span(j) \in Nat
        BY <1>1, <2>1, SiteIs
      <4>2. Span(k) < Span(j)
        BY <1>1, SpanGrows
      <4> QED BY <4>1, <4>2 DEF Body
    <3>2. g.first + i \in Cover(G) /\ y.first + i \in Cover(H \cup {y})
      BY <2>7, <3>1
    <3>3. new.pool.head[g.first + i] = p.head[g.first + i] /\ new.pool.tail[g.first + i] = p.tail[g.first + i]
      BY <2>1, <3>2 DEF Quiet
    <3>4. f.pool.head[y.first + i] = c.head[y.first + i] /\ f.pool.tail[y.first + i] = c.tail[y.first + i]
      BY <2>6, <3>2 DEF Quiet
    <3> QED BY <2>3, <3>3, <3>4
  <2> DEFINE r == Grow(p, g.first, g.order, n)
  <2>10. r = Success(f.pool, new.at)
    BY <2>1, <2>6 DEF Grow, f, c, new
  <2> HIDE DEF r
  <2>11. r.ret = "success" /\ r.at = new.at /\ r.pool = f.pool
    BY <2>10 DEF Success
  <2>12. GrowGives(p, r, G, g, y, U)
    BY <1>1, <2>1, <2>6, <2>8, <2>9, <2>11 DEF GrowGives, H
  <2>13. y = RangeAt(r.at, j)
    BY <2>11 DEF y
  <2>14. GrowGives(p, r, G, g, RangeAt(r.at, j), U)
    BY <2>12, <2>13
  <2> QED BY <2>14 DEF r, j
<1> QED BY <1>2, <1>3, <1>4

-----------------------------------------------------------------------------
(* setupAllocator.                                                         *)

\* The pieces of a part of the pool.
Part(first, past) == Items(Pieces(first, past), 1, Len(Pieces(first, past)))

\* The pieces of a part of the pool tile it.
LEMMA PartIs ==
  ASSUME NEW first \in Nat, NEW past \in Nat, first <= past, past <= PoolBlocks
  PROVE  /\ Tiling(Part(first, past), first..(past - 1)) /\ Merged(Part(first, past))
         /\ \A x \in Part(first, past) : x \in Sites /\ first <= x.first /\ Past(x) <= past
<1> DEFINE X == Part(first, past)
<1>1. X = Items(Pieces(first, past), 1, Len(Pieces(first, past)))
  BY DEF Part
<1> HIDE DEF X
<1>2. /\ Tiling(X, first..(past - 1)) /\ Merged(X)
      /\ \A x \in X : x \in Sites /\ Largest(x, past) /\ first <= x.first /\ Past(x) <= past
  BY <1>1, PiecesAre
<1> QED BY <1>2 DEF X

\* What Release leaves.
ReleaseGives(p, r, L, G, U, first, past) ==
  /\ r.ret = "success" /\ Quiet(p, r.pool, Cover(G))
  /\ \E M : /\ Kept(r.pool, M, G, {}, U \cup (first..(past - 1)))
            /\ Listed(M) = Listed(L) \cup Part(first, past) /\ Counts(r.pool, M)

\* Release finds the bits set, and the part it is given becomes free.
LEMMA ReleaseIs ==
  ASSUME NEW p, NEW L, NEW G, NEW U, Kept(p, L, G, {}, U), Counts(p, L),
         NEW first \in Nat, NEW past \in Nat, first <= past, past <= PoolBlocks,
         U \cap (first..(past - 1)) = {}
  PROVE  ReleaseGives(p, Release(p, first, past), L, G, U, first, past)
<1> DEFINE I == first..(past - 1)
           X == Part(first, past)
           m == clearAll(p.map, first, past)
           f == [p EXCEPT !.map = m]
           q == toFree(f, first, past)
<1>1. /\ Listing(p, L) /\ PoolShape(p) /\ Marks(p, G, U) /\ Listed(L) \cap G = {}
      /\ Tiling(Listed(L) \cup G \cup {}, U)
  BY DEF Kept, Listing
<1>2. /\ G \subseteq Sites /\ Listed(L) \subseteq Sites /\ U \subseteq Blocks
  BY KeptSites
<1>3. I \subseteq Blocks /\ I \subseteq p.map
  <2>1. I \subseteq Blocks
    BY BlocksAre
  <2>2. ASSUME NEW b \in I PROVE b \in p.map
    BY <1>1, <2>1 DEF Marks
  <2> QED BY <2>1, <2>2
<1>4. testAll(p.map, first, past) /\ m = p.map \ I
  BY <1>3, RangeOps DEF Interval
<1>5. /\ PoolShape(f) /\ f.map = m /\ f.freeList = p.freeList /\ f.freeBytes = p.freeBytes
      /\ f.head = p.head /\ f.tail = p.tail
  <2> HIDE DEF m
  <2> QED BY <1>1, SetMap
<1>6. Release(p, first, past) = Success(q, Null)
  BY <1>4 DEF Release
<1> HIDE DEF q, f, m
<1>7. Tiling(X, I) /\ Merged(X) /\ \A x \in X : x \in Sites
  BY PartIs
<1>8. X = Items(Pieces(first, past), 1, Len(Pieces(first, past)))
  BY DEF Part
<1> HIDE DEF X
<1>9. \A g \in G : End(g.first, g.order) \in U
  <2>1. ASSUME NEW g \in G PROVE End(g.first, g.order) \in U
    <3>1. g \in Listed(L) \cup G \cup {} /\ g \in Sites
      BY <1>2
    <3> QED BY <1>1, <3>1, TilingGives, SiteIs
  <2> QED BY <2>1
<1>10. Marks(f, G, U \cup I)
  <2>1. ASSUME NEW b \in Blocks
        PROVE  b \in f.map <=> b \notin U \cup I \/ \E g \in G : b = End(g.first, g.order)
    <3>1. b \in p.map <=> b \notin U \/ \E g \in G : b = End(g.first, g.order)
      BY <1>1 DEF Marks
    <3> QED BY <1>4, <1>5, <1>9, <3>1
  <2> QED BY <2>1 DEF Marks
<1>11. Kept(f, L, G, X, U \cup I)
  <2>1. Tiling((Listed(L) \cup G \cup {}) \cup X, U \cup I) /\ (Listed(L) \cup G \cup {}) \cap X = {}
    <3> DEFINE T == Listed(L) \cup G \cup {}
    <3> HIDE DEF T, I
    <3>1. Tiling(T, U) /\ U \cap I = {}
      BY <1>1 DEF T, I
    <3>2. Tiling(T \cup X, U \cup I) /\ T \cap X = {}
      BY <1>7, <3>1, TilingBoth, TilingApart
    <3> QED BY <3>2 DEF T
  <2>2. (Listed(L) \cup G \cup {}) \cup X = Listed(L) \cup G \cup X
    OBVIOUS
  <2>3. Tiling(Listed(L) \cup G \cup X, U \cup I)
    BY <2>1, <2>2
  <2>4. Listed(L) \cap X = {} /\ G \cap X = {}
    BY <2>1
  <2> HIDE DEF I
  <2> QED BY <1>1, <1>5, <1>10, <2>3, <2>4, Regroup
<1>12. Counts(f, L)
  BY <1>5 DEF Counts
<1>13. Freed(f, q, L, G, X, {}, U \cup I)
  <2>1. q = toFree(f, first, past)
    BY DEF q
  <2> HIDE DEF I
  <2> QED BY <1>8, <1>11, <1>12, <2>1, ToFreeIs
<1>14. PICK M : Kept(q, M, G, {}, U \cup I) /\ Listed(M) = Listed(L) \cup X /\ Counts(q, M)
  BY <1>13 DEF Freed
<1>15. Quiet(p, q, Cover(G))
  <2>1. Quiet(f, q, Cover(G))
    BY <1>13 DEF Freed
  <2> QED BY <1>5, <2>1 DEF Quiet
<1>16. Success(q, Null).ret = "success" /\ Success(q, Null).pool = q
  BY DEF Success
<1> HIDE DEF q
<1>17. ReleaseGives(p, Success(q, Null), L, G, U, first, past)
  BY <1>14, <1>15, <1>16 DEF ReleaseGives, X
<1> QED BY <1>6, <1>17

\* Before anything is released there is neither a free nor a busy range.
LEMMA NothingYet ==
  ASSUME NEW p, NEW L, NEW G, NEW X, Kept(p, L, G, X, {})
  PROVE  Listed(L) = {} /\ G = {}
<1>1. ASSUME NEW r \in Listed(L) \cup G PROVE FALSE
  <2>1. r \in Sites /\ Tiling(Listed(L) \cup G \cup X, {}) /\ r \in Listed(L) \cup G \cup X
    BY KeptSites DEF Kept
  <2>2. Body(r) \subseteq {}
    BY <2>1, TilingGives
  <2> QED BY <2>1, <2>2, SiteIs
<1> QED BY <1>1

\* The pieces on both sides of the end of the framebuffer are no twins.
LEMMA BothSides ==
  ASSUME NEW X \in SUBSET Sites, NEW Y \in SUBSET Sites, Merged(X), Merged(Y), Reserved <= PoolBlocks,
         \A x \in X : Past(x) <= Reserved, \A y \in Y : Reserved <= y.first
  PROVE  Merged(Y \cup X)
<1> DEFINE z == RangeAt(0, NumSizes - 1)
<1>1. NumSizes - 1 \in Orders /\ NumSizes - 1 \in Nat /\ Reserved = Span(NumSizes - 1)
  BY SizeAssumption, ReservedAssumption DEF Orders
<1>2. Reserved \in Nat
  BY <1>1, SpanPositive
<1>3. z \in Sites /\ z.first = 0 /\ z.order = NumSizes - 1 /\ Past(z) = Reserved
  <2>1. Aligned(0, NumSizes - 1)
    <3>1. 0 = 0 * Span(NumSizes - 1)
      BY <1>1, <1>2
    <3> QED BY <1>1, <3>1, AlignedIs
  <2>2. 0 + Span(NumSizes - 1) <= PoolBlocks
    BY <1>1, <1>2
  <2>3. z \in Sites /\ z.first = 0 /\ z.order = NumSizes - 1
    BY <1>1, <2>1, <2>2, SiteOf
  <2>4. Past(z) = z.first + Span(z.order)
    BY DEF Past
  <2> QED BY <1>1, <1>2, <2>3, <2>4
<1> HIDE DEF z
<1>4. ASSUME NEW r \in Y \cup X, NEW s \in Y \cup X, Twins(r, s), r.order + 1 \in Orders PROVE FALSE
  <2>1. /\ r \in Sites /\ s \in Sites /\ s.first = Past(r) /\ r.first \in Nat /\ Past(r) \in Nat
        /\ r.first < Past(r) /\ s.first \in Nat /\ s.first < Past(s) /\ Past(s) \in Nat
    <3>1. r \in Sites /\ s \in Sites
      OBVIOUS
    <3> QED BY <1>4, <3>1, SiteIs DEF Twins
  <2>2. CASE r \in Y /\ s \in Y
    BY <1>4, <2>2 DEF Merged
  <2>3. CASE r \in X /\ s \in X
    BY <1>4, <2>3 DEF Merged
  <2>4. CASE r \in Y /\ s \in X
    <3>1. Reserved <= r.first /\ Past(s) <= Reserved
      BY <2>4
    <3> QED BY <1>2, <2>1, <3>1
  <2>5. CASE r \in X /\ s \in Y
    <3>1. Past(r) <= Reserved /\ Reserved <= s.first
      BY <2>5
    <3> DEFINE q == RangeAt(r.first, r.order + 1)
    <3>2. /\ q \in Sites /\ q.first = r.first /\ q.order = r.order + 1 /\ Body(q) = Body(r) \cup Body(s)
      BY <1>4, <2>1, TwinsMake
    <3> HIDE DEF q
    <3>3. Past(q) \in Nat /\ q.first < Past(q) /\ s.first \in Body(q)
      BY <2>1, <3>2, SiteIs
    <3>4. Meet(q, z)
      <4>1. q.first < Past(z) /\ z.first < Past(q)
        BY <1>2, <1>3, <2>1, <3>1, <3>2, <3>3
      <4> QED BY <1>3, <3>2, <4>1, MeetIs
    <3>5. q.order <= z.order
      BY <1>1, <1>3, <1>4, <3>2, SizeAssumption DEF Orders
    <3>6. s.first \in Body(z)
      BY <1>3, <3>2, <3>3, <3>4, <3>5, MeetNested
    <3>7. s.first < Past(z)
      BY <1>3, <3>6, InBody
    <3> QED BY <1>2, <1>3, <2>1, <3>1, <3>7
  <2> QED BY <2>2, <2>3, <2>4, <2>5
<1> QED BY <1>4 DEF Merged

\* What setupAllocator leaves.
SetupGives(first, second, U) ==
  /\ first.ret = "success" /\ second.ret = "success"
  /\ \E M : Sound(second.pool, M, {}, U)

(* setupAllocator finds the pool untouched and releases one part of it or  *)
(* both.                                                                   *)
LEMMA SetupIs ==
  ASSUME NEW p, NEW L, NEW G, Sound(p, L, G, {}), NEW haveFrontBuffer \in BOOLEAN
  PROVE  LET upper == IF Reserved < PoolBlocks THEN Reserved..(PoolBlocks - 1) ELSE {}
             lower == IF haveFrontBuffer THEN Blocks \ upper ELSE {}
             first == IF upper = {} THEN Success(p, Null) ELSE Release(p, Reserved, PoolBlocks)
             second == IF lower = {} THEN first ELSE Release(first.pool, 0, Least(Reserved, PoolBlocks))
         IN  G = {} /\ SetupGives(first, second, upper \cup lower)
<1> DEFINE upper == IF Reserved < PoolBlocks THEN Reserved..(PoolBlocks - 1) ELSE {}
           lower == IF haveFrontBuffer THEN Blocks \ upper ELSE {}
           first == IF upper = {} THEN Success(p, Null) ELSE Release(p, Reserved, PoolBlocks)
           second == IF lower = {} THEN first ELSE Release(first.pool, 0, Least(Reserved, PoolBlocks))
<1>1. /\ Kept(p, L, G, {}, {}) /\ Counts(p, L)
  BY DEF Sound
<1>2. Listed(L) = {} /\ G = {}
  BY <1>1, NothingYet
<1>3. Reserved \in Nat /\ PoolBlocks \in Nat /\ Reserved > 0 /\ Blocks = 0..(PoolBlocks - 1)
  <2>1. NumSizes - 1 \in Nat
    BY SizeAssumption
  <2> QED BY <2>1, BlocksAre, ReservedAssumption, SpanPositive
<1>4. /\ Success(p, Null).ret = "success" /\ Success(p, Null).pool = p
  BY DEF Success
<1>5. Merged({})
  BY DEF Merged
<1>6. CASE ~(Reserved < PoolBlocks)
  <2>1. upper = {} /\ first = Success(p, Null) /\ first.pool = p /\ first.ret = "success"
    BY <1>4, <1>6
  <2>2. Least(Reserved, PoolBlocks) = PoolBlocks
    BY <1>3, <1>6 DEF Least
  <2> HIDE DEF upper, first
  <2>3. CASE lower = {}
    <3>1. second = first
      BY <2>3
    <3> QED BY <1>2, <2>1, <2>3, <3>1 DEF SetupGives, upper, first
  <2>4. CASE lower # {}
    <3>1. lower = Blocks
      BY <2>1, <2>4
    <3>2. second = Release(p, 0, PoolBlocks)
      BY <2>1, <2>2, <2>4
    <3>3. ReleaseGives(p, Release(p, 0, PoolBlocks), L, G, {}, 0, PoolBlocks)
      <4>1. 0 \in Nat /\ 0 <= PoolBlocks /\ PoolBlocks <= PoolBlocks /\ {} \cap (0..(PoolBlocks - 1)) = {}
        BY <1>3
      <4> QED BY <1>1, <1>3, <4>1, ReleaseIs
    <3> HIDE DEF second
    <3>4. second.ret = "success"
      BY <3>2, <3>3 DEF ReleaseGives
    <3>5. PICK M : /\ Kept(second.pool, M, G, {}, {} \cup (0..(PoolBlocks - 1)))
                   /\ Listed(M) = Listed(L) \cup Part(0, PoolBlocks) /\ Counts(second.pool, M)
      BY <3>2, <3>3 DEF ReleaseGives
    <3>6. Merged(Part(0, PoolBlocks))
      BY <1>3, PartIs
    <3>7. {} \cup (0..(PoolBlocks - 1)) = upper \cup lower
      BY <1>3, <2>1, <3>1
    <3>8. Sound(second.pool, M, {}, upper \cup lower)
      <4>1. Listed(M) = Part(0, PoolBlocks)
        BY <1>2, <3>5
      <4>2. Kept(second.pool, M, {}, {}, upper \cup lower)
        BY <1>2, <3>5, <3>7
      <4> QED BY <3>5, <3>6, <4>1, <4>2 DEF Sound
    <3> HIDE DEF lower
    <3>9. SetupGives(first, second, upper \cup lower)
      BY <2>1, <3>4, <3>8 DEF SetupGives
    <3> QED BY <1>2, <3>9 DEF upper, lower, first, second
  <2> QED BY <2>3, <2>4
<1>7. CASE Reserved < PoolBlocks
  <2> DEFINE up == Release(p, Reserved, PoolBlocks)
  <2>1. upper = Reserved..(PoolBlocks - 1) /\ upper # {} /\ first = up
    <3>1. PoolBlocks - 1 \in Reserved..(PoolBlocks - 1)
      BY <1>3, <1>7
    <3> QED BY <1>7, <3>1
  <2>2. Least(Reserved, PoolBlocks) = Reserved
    BY <1>3, <1>7 DEF Least
  <2>3. ReleaseGives(p, up, L, G, {}, Reserved, PoolBlocks)
    <3>1. Reserved <= PoolBlocks /\ PoolBlocks <= PoolBlocks /\ {} \cap (Reserved..(PoolBlocks - 1)) = {}
      BY <1>3, <1>7
    <3> QED BY <1>1, <1>3, <3>1, ReleaseIs
  <2> HIDE DEF upper, first, up
  <2>4. up.ret = "success"
    BY <2>3 DEF ReleaseGives
  <2>5. PICK M : /\ Kept(up.pool, M, {}, {}, upper)
                 /\ Listed(M) = Part(Reserved, PoolBlocks) /\ Counts(up.pool, M)
    <3>1. \E M : /\ Kept(up.pool, M, G, {}, {} \cup (Reserved..(PoolBlocks - 1)))
                 /\ Listed(M) = Listed(L) \cup Part(Reserved, PoolBlocks) /\ Counts(up.pool, M)
      BY <2>3 DEF ReleaseGives
    <3>2. {} \cup (Reserved..(PoolBlocks - 1)) = upper
      BY <2>1
    <3> QED BY <1>2, <3>1, <3>2
  <2>6. /\ Merged(Part(Reserved, PoolBlocks))
        /\ \A y \in Part(Reserved, PoolBlocks) : y \in Sites /\ Reserved <= y.first
    BY <1>3, <1>7, PartIs
  <2>7. CASE lower = {}
    <3>1. second = first /\ upper \cup lower = upper
      BY <2>7
    <3>2. Sound(up.pool, M, {}, upper)
      BY <2>5, <2>6 DEF Sound
    <3> HIDE DEF lower, second
    <3>3. SetupGives(first, second, upper \cup lower)
      BY <2>1, <2>4, <3>1, <3>2 DEF SetupGives
    <3> QED BY <1>2, <3>3 DEF upper, lower, first, second
  <2>8. CASE lower # {}
    <3> DEFINE down == Release(up.pool, 0, Reserved)
               I == 0..(Reserved - 1)
    <3>1. second = down
      BY <2>1, <2>2, <2>8
    <3>2. lower = I
      <4>1. \A b : b \in Blocks \ upper <=> b \in I
        BY <1>3, <1>7, <2>1
      <4>2. Blocks \ upper = I
        BY <4>1, Zenon
      <4> HIDE DEF I
      <4> QED BY <2>8, <4>2
    <3> HIDE DEF second, lower
    <3>3. ReleaseGives(up.pool, down, M, {}, upper, 0, Reserved)
      <4>1. 0 \in Nat /\ 0 <= Reserved /\ Reserved <= PoolBlocks /\ upper \cap (0..(Reserved - 1)) = {}
        BY <1>3, <1>7, <2>1
      <4> QED BY <1>3, <2>5, <4>1, ReleaseIs
    <3> HIDE DEF down
    <3>4. down.ret = "success"
      BY <3>3 DEF ReleaseGives
    <3>5. PICK N : /\ Kept(down.pool, N, {}, {}, upper \cup I)
                   /\ Listed(N) = Listed(M) \cup Part(0, Reserved) /\ Counts(down.pool, N)
      BY <3>3 DEF ReleaseGives
    <3>6. /\ Merged(Part(0, Reserved))
          /\ \A x \in Part(0, Reserved) : x \in Sites /\ Past(x) <= Reserved
      BY <1>3, <1>7, PartIs
    <3>7. Merged(Listed(N))
      <4> DEFINE X == Part(0, Reserved)
                 Y == Part(Reserved, PoolBlocks)
      <4>1. X \in SUBSET Sites /\ Y \in SUBSET Sites /\ Reserved <= PoolBlocks
        BY <1>3, <1>7, <2>6, <3>6
      <4>2. Merged(X) /\ Merged(Y) /\ (\A x \in X : Past(x) <= Reserved) /\ (\A y \in Y : Reserved <= y.first)
        BY <2>6, <3>6
      <4> HIDE DEF X, Y
      <4>3. Merged(Y \cup X)
        BY <4>1, <4>2, BothSides
      <4> QED BY <2>5, <3>5, <4>3 DEF X, Y
    <3>8. Sound(down.pool, N, {}, upper \cup lower)
      BY <3>2, <3>5, <3>7 DEF Sound
    <3>9. SetupGives(first, second, upper \cup lower)
      BY <2>1, <2>4, <3>1, <3>4, <3>8 DEF SetupGives
    <3> QED BY <1>2, <3>9 DEF upper, lower, first, second
  <2> QED BY <2>7, <2>8
<1> QED BY <1>6, <1>7

-----------------------------------------------------------------------------
(* Check, and what the free lists read as.                                 *)

\* ListOf reads a list that is linked soundly, and no more.
LEMMA ReadsAsListed ==
  ASSUME NEW p, NEW L, Listing(p, L), NEW k \in Orders
  PROVE  /\ Len(ListOf(p, k)) = Len(L[k]) + 1 /\ Len(L[k]) \in Nat
         /\ \A i \in 1..Len(L[k]) : ListOf(p, k)[i] = L[k][i]
         /\ ListOf(p, k)[Len(L[k]) + 1] = Null
         /\ Chain(p, k, L[k])
<1>1. Chain(p, k, L[k])
  BY DEF Listing
<1>2. Len(L[k]) <= PoolBlocks
  BY ListsAreShort
<1>3. L[k] \in Seq(Blocks)
  BY <1>1 DEF Chain
<1>4. Len(L[k]) \in Nat
  BY <1>3
<1> QED BY <1>1, <1>2, <1>4, ListIsRead

\* The blocks of the first n ranges of order k.
Prefix(L, k, n) == {RangeAt(L[k][i], k) : i \in 1..n}

\* The blocks in the list of one order.
LEMMA PrefixSize ==
  ASSUME NEW p, NEW L, Listing(p, L), NEW k \in Orders, Listed(L) \subseteq Sites,
         \A r, s \in Listed(L) : Meet(r, s) => r = s
  PROVE  Cardinality(Cover(Prefix(L, k, Len(L[k])))) = Len(L[k]) * Span(k)
<1> DEFINE m == Len(L[k])
           B == {n \in 0..m : Cardinality(Cover(Prefix(L, k, n))) # n * Span(k)}
<1>1. m \in Nat /\ k \in Nat /\ Span(k) \in Nat
  BY ReadsAsListed, BlocksAre, SpanPositive
<1> HIDE DEF m
<1>2. \A i \in 1..m : /\ RangeAt(L[k][i], k) \in Listed(L) /\ RangeAt(L[k][i], k).first = L[k][i]
                      /\ RangeAt(L[k][i], k).order = k
  BY ListedPlace DEF m
<1>3. ASSUME B # {} PROVE FALSE
  <2>1. PICK n \in B : \A j \in B : n <= j
    <3>1. B \subseteq Nat
      BY <1>1
    <3> HIDE DEF B
    <3> QED BY <1>3, <3>1, LeastOf
  <2>2. n \in 0..m /\ Cardinality(Cover(Prefix(L, k, n))) # n * Span(k)
    OBVIOUS
  <2>3. n # 0
    <3>1. ASSUME n = 0 PROVE FALSE
      <4>1. Prefix(L, k, n) = {}
        BY <3>1 DEF Prefix
      <4>2. Cover({}) = {}
        BY DEF Cover
      <4>3. Cardinality({}) = 0
        BY FS_EmptySet
      <4>4. 0 * Span(k) = 0
        BY <1>1
      <4> QED BY <2>2, <3>1, <4>1, <4>2, <4>3, <4>4
    <3> QED BY <3>1
  <2> DEFINE j == n - 1
             S == Prefix(L, k, j)
             x == RangeAt(L[k][n], k)
  <2>4. j \in Nat /\ j \in 0..m /\ n = j + 1 /\ n \in 1..m /\ j < n
    BY <1>1, <2>2, <2>3
  <2>5. j \notin B
    BY <2>1, <2>4
  <2>6. Cardinality(Cover(S)) = j * Span(k)
    BY <2>4, <2>5
  <2>7. Prefix(L, k, n) = S \cup {x}
    <3>1. 1..n = (1..j) \cup {n}
      BY <2>4
    <3> QED BY <3>1 DEF Prefix
  <2>8. x \in Sites /\ x.order = k /\ S \in SUBSET Sites
    <3>1. x \in Listed(L) /\ x.order = k
      BY <1>2, <2>4
    <3> HIDE DEF B
    <3>2. \A i \in 1..j : RangeAt(L[k][i], k) \in Listed(L)
      <4>1. 1..j \subseteq 1..m
        BY <1>1, <2>4
      <4> HIDE DEF j
      <4> QED BY <1>2, <4>1
    <3>3. ASSUME NEW r \in S PROVE r \in Listed(L)
      <4> HIDE DEF j
      <4>1. PICK i \in 1..j : r = RangeAt(L[k][i], k)
        BY DEF Prefix
      <4> QED BY <3>2, <4>1
    <3> QED BY <3>1, <3>3
  <2>9. \A r \in S : ~Meet(r, x)
    <3>1. ASSUME NEW i \in 1..j PROVE ~Meet(RangeAt(L[k][i], k), x)
      <4>1. i \in 1..m /\ i # n /\ i \in 1..Len(L[k]) /\ n \in 1..Len(L[k])
        BY <2>4 DEF m
      <4>2. L[k][i] # L[k][n]
        BY <4>1 DEF Listing, Apart
      <4>3. RangeAt(L[k][i], k) # x
        BY <1>2, <2>4, <4>1, <4>2
      <4>4. RangeAt(L[k][i], k) \in Listed(L) /\ x \in Listed(L)
        BY <1>2, <2>4, <4>1
      <4> QED BY <4>3, <4>4
    <3> QED BY <3>1 DEF Prefix
  <2> HIDE DEF S, x
  <2>10. Cardinality(Cover(S \cup {x})) = Cardinality(Cover(S)) + Span(k)
    <3>1. Cardinality(Cover(S \cup {x})) = Cardinality(Cover(S)) + Span(x.order)
      BY <2>8, <2>9, CoverGrows
    <3> QED BY <2>8, <3>1
  <2>11. n * Span(k) = j * Span(k) + Span(k)
    BY <1>1, <2>4
  <2> HIDE DEF j
  <2> QED BY <2>2, <2>6, <2>7, <2>10, <2>11
<1>4. m \in 0..m
  BY <1>1
<1>5. Cardinality(Cover(Prefix(L, k, m))) = m * Span(k)
  BY <1>3, <1>4
<1> QED BY <1>5 DEF m

\* The free ranges of the orders below n.
Below(L, n) == {r \in Listed(L) : r.order < n}

\* The free blocks order by order.
LEMMA BelowGrows ==
  ASSUME NEW p, NEW L, Listing(p, L), NEW k \in Orders, Listed(L) \subseteq Sites,
         \A r, s \in Listed(L) : Meet(r, s) => r = s
  PROVE  Cardinality(Cover(Below(L, k + 1))) = Cardinality(Cover(Below(L, k))) + Len(L[k]) * Span(k)
<1> DEFINE S == Below(L, k)
           T == Prefix(L, k, Len(L[k]))
<1>1. k \in Nat /\ \A r \in Sites : r.order \in Nat
  BY BlocksAre, SiteIs
<1>2. ASSUME NEW r PROVE r \in T <=> r \in Listed(L) /\ r.order = k
  <2>1. ASSUME r \in T PROVE r \in Listed(L) /\ r.order = k
    BY <2>1, ListedPlace DEF Prefix
  <2>2. ASSUME r \in Listed(L), r.order = k PROVE r \in T
    <3>1. PICK j \in Orders : \E i \in 1..Len(L[j]) : r = RangeAt(L[j][i], j)
      BY <2>2, InListed
    <3>2. PICK i \in 1..Len(L[j]) : r = RangeAt(L[j][i], j)
      BY <3>1
    <3>3. j = k
      BY <2>2, <3>2 DEF RangeAt
    <3> QED BY <3>2, <3>3 DEF Prefix
  <2> QED BY <2>1, <2>2
<1>3. Below(L, k + 1) = S \cup T
  <2>1. ASSUME NEW r \in Listed(L) PROVE r.order < k + 1 <=> r.order < k \/ r.order = k
    <3>1. r.order \in Nat
      BY <1>1
    <3> QED BY <1>1, <3>1
  <2> HIDE DEF T
  <2> QED BY <1>2, <2>1 DEF Below
<1>4. S \subseteq Sites /\ T \subseteq Sites
  BY <1>2 DEF Below
<1>5. Cover(S) \cap Cover(T) = {}
  <2>1. ASSUME NEW b \in Cover(S), b \in Cover(T) PROVE FALSE
    <3>1. PICK r \in S : b \in Body(r)
      BY InCover
    <3>2. PICK s \in T : b \in Body(s)
      BY <2>1, InCover
    <3>3. r \in Listed(L) /\ s \in Listed(L) /\ r.order < k /\ s.order = k
      BY <1>2 DEF Below
    <3>4. Meet(r, s)
      BY <3>1, <3>2 DEF Meet
    <3>5. r = s
      BY <3>3, <3>4
    <3> QED BY <1>1, <3>3, <3>5
  <2> HIDE DEF S, T
  <2> QED BY <2>1
<1>6. Cardinality(Cover(T)) = Len(L[k]) * Span(k)
  BY PrefixSize
<1> HIDE DEF S, T
<1>7. Cover(S \cup T) = Cover(S) \cup Cover(T)
  BY DEF Cover
<1>8. Cover(S) \in SUBSET Blocks /\ Cover(T) \in SUBSET Blocks
  BY <1>4, CoverInBlocks
<1>9. Cardinality(Cover(S) \cup Cover(T)) = Cardinality(Cover(S)) + Cardinality(Cover(T))
  BY <1>5, <1>8, SizeOfBoth
<1>10. Cardinality(Cover(Below(L, k + 1))) = Cardinality(Cover(S)) + Len(L[k]) * Span(k)
  BY <1>3, <1>6, <1>7, <1>9
<1> QED BY <1>10 DEF S

\* The sum Check makes is the number of free blocks.
LEMMA SumIs ==
  ASSUME NEW p, NEW L, Listing(p, L), Listed(L) \subseteq Sites,
         \A r, s \in Listed(L) : Meet(r, s) => r = s
  PROVE  Total(p, 0, [i \in 1..NumSizes |-> i - 1]) = Cardinality(Cover(Listed(L)))
<1> DEFINE seq == [i \in 1..NumSizes |-> i - 1]
           total == Total(p, 0, seq)
<1>1. NumSizes \in Nat /\ Orders = 0..(NumSizes - 1) /\ DOMAIN seq = 1..NumSizes
      /\ \A i \in 1..NumSizes : seq[i] = i - 1
  BY SizeAssumption DEF Orders
<1>2. PICK r : SumRun(p, 0, seq, NumSizes, r) /\ r[NumSizes] = total
  <2> HIDE DEF seq
  <2> QED BY <1>1, FoldSums
<1> HIDE DEF total
<1>3. r[0] = 0 /\ \A i \in 1..NumSizes : r[i] = r[i - 1] + (Len(ListOf(p, seq[i])) - 1) * Span(seq[i])
  BY <1>2 DEF SumRun
<1> HIDE DEF seq
<1> DEFINE B == {i \in 0..NumSizes : r[i] # Cardinality(Cover(Below(L, i)))}
<1>4. ASSUME B # {} PROVE FALSE
  <2>1. PICK i \in B : \A j \in B : i <= j
    <3>1. B \subseteq Nat
      BY <1>1
    <3> HIDE DEF B
    <3> QED BY <1>4, <3>1, LeastOf
  <2>2. i \in 0..NumSizes /\ r[i] # Cardinality(Cover(Below(L, i)))
    OBVIOUS
  <2>3. ASSUME i = 0 PROVE FALSE
    <3>1. \A x \in Listed(L) : ~(x.order < 0)
      <4>1. ASSUME NEW x \in Listed(L) PROVE ~(x.order < 0)
        <5>1. x \in Sites
          OBVIOUS
        <5>2. x.order \in Nat
          BY <5>1, SiteIs
        <5> QED BY <5>2
      <4> QED BY <4>1
    <3>2. Below(L, 0) = {}
      BY <3>1 DEF Below
    <3>3. Cover({}) = {}
      BY DEF Cover
    <3>4. Cardinality({}) = 0
      BY FS_EmptySet
    <3> QED BY <1>3, <2>2, <2>3, <3>2, <3>3, <3>4
  <2> DEFINE k == i - 1
  <2>4. k \in Orders /\ k \in 0..NumSizes /\ i \in 1..NumSizes /\ i = k + 1 /\ seq[i] = k /\ k \in Nat /\ k < i
    BY <1>1, <2>2, <2>3
  <2>5. k \notin B
    BY <2>1, <2>4
  <2>6. r[k] = Cardinality(Cover(Below(L, k)))
    BY <2>4, <2>5
  <2>7. r[i] = r[k] + (Len(ListOf(p, k)) - 1) * Span(k)
    BY <1>3, <2>4
  <2>8. Len(ListOf(p, k)) - 1 = Len(L[k])
    BY <2>4, ReadsAsListed
  <2> HIDE DEF k
  <2>9. Cardinality(Cover(Below(L, k + 1))) = Cardinality(Cover(Below(L, k))) + Len(L[k]) * Span(k)
    BY <2>4, BelowGrows
  <2> QED BY <2>2, <2>4, <2>6, <2>7, <2>8, <2>9
<1>5. NumSizes \in 0..NumSizes
  BY <1>1
<1>6. r[NumSizes] = Cardinality(Cover(Below(L, NumSizes)))
  BY <1>4, <1>5
<1>7. Below(L, NumSizes) = Listed(L)
  <2>1. ASSUME NEW x \in Listed(L) PROVE x.order < NumSizes
    <3>1. x \in Sites
      OBVIOUS
    <3>2. x.order \in Orders
      BY <3>1, SiteIs
    <3> QED BY <1>1, <3>2
  <2> QED BY <2>1 DEF Below
<1> QED BY <1>2, <1>6, <1>7 DEF total, seq

\* Check succeeds on a pool whose records are sound.
LEMMA CheckIs ==
  ASSUME NEW p, NEW L, NEW G, NEW U, Sound(p, L, G, U)
  PROVE  Check(p)
<1>1. /\ Kept(p, L, G, {}, U) /\ Counts(p, L) /\ Listing(p, L) /\ Tiling(Listed(L) \cup G \cup {}, U)
      /\ Listed(L) \cap G = {}
  BY DEF Sound, Kept
<1>2. /\ Listed(L) \subseteq Sites /\ G \subseteq Sites /\ U \subseteq Blocks
      /\ \A r, s \in Listed(L) \cup G \cup {} : Meet(r, s) => r = s
  BY <1>1, KeptSites
<1>3. ASSUME NEW k \in Orders
      PROVE  LET l == ListOf(p, k)
                 len == Len(l) - 1
             IN  /\ l[len + 1] = Null
                 /\ \A i \in 1..len :
                      /\ ~testAny(p.map, l[i], l[i] + Span(k))
                      /\ p.head[l[i]].prev = IF i = 1 THEN Null ELSE l[i - 1]
                      /\ p.tail[l[i] + Span(k) - 1] = k
  <2> DEFINE l == ListOf(p, k)
             len == Len(l) - 1
  <2>1. /\ Len(l) = Len(L[k]) + 1 /\ Len(L[k]) \in Nat
        /\ \A i \in 1..Len(L[k]) : l[i] = L[k][i]
        /\ l[Len(L[k]) + 1] = Null /\ Chain(p, k, L[k])
    BY <1>1, ReadsAsListed
  <2> HIDE DEF l
  <2>2. len = Len(L[k])
    BY <2>1
  <2>3. ASSUME NEW i \in 1..len
        PROVE  /\ ~testAny(p.map, l[i], l[i] + Span(k))
               /\ p.head[l[i]].prev = IF i = 1 THEN Null ELSE l[i - 1]
               /\ p.tail[l[i] + Span(k) - 1] = k
    <3> DEFINE b == L[k][i]
               x == RangeAt(b, k)
    <3>1. i \in 1..Len(L[k]) /\ l[i] = b
      BY <2>1, <2>2
    <3>2. x \in Listed(L) /\ x.first = b /\ x.order = k
      BY <1>1, <3>1, ListedPlace
    <3>3. x \in Sites /\ Body(x) \subseteq U
      <4>1. x \in Listed(L) \cup G \cup {}
        BY <3>2
      <4> QED BY <1>1, <4>1, TilingGives
    <3> HIDE DEF x, b
    <3>4. /\ b \in Nat /\ Span(k) \in Nat /\ Span(k) > 0 /\ Past(x) = b + Span(k)
      BY <3>2, <3>3, SiteIs
    <3>5. Interval(b, b + Span(k)) \cap p.map = {}
      <4>1. ASSUME NEW c \in Body(x) PROVE c \notin p.map
        <5>1. ASSUME NEW g \in G, c = End(g.first, g.order) PROVE FALSE
          <6>1. g \in Sites /\ c \in Body(g)
            BY <1>2, <5>1, SiteIs
          <6>2. Meet(g, x)
            BY <6>1 DEF Meet
          <6>3. g \in Listed(L) \cup G \cup {} /\ x \in Listed(L) \cup G \cup {} /\ g # x
            BY <1>1, <3>2
          <6> QED BY <1>2, <6>2, <6>3
        <5>2. c \in U
          BY <3>3
        <5> QED BY <1>1, <5>1, <5>2, MarkOf
      <4>2. Interval(b, b + Span(k)) = Body(x)
        BY <3>2, <3>4 DEF Interval, Body
      <4> QED BY <4>1, <4>2
    <3>6. ~testAny(p.map, b, b + Span(k))
      <4>1. b \in Nat /\ b + Span(k) \in Nat /\ b <= b + Span(k)
        BY <3>4
      <4> QED BY <3>5, <4>1, RangeOps
    <3>7. p.head[b] = Link(Before(L[k], i), After(L[k], i)) /\ p.tail[End(b, k)] = k
      BY <2>1, <3>1 DEF Chain, b
    <3>8. p.head[b].prev = IF i = 1 THEN Null ELSE l[i - 1]
      <4>1. p.head[b].prev = Before(L[k], i)
        BY <3>7 DEF Link
      <4>2. i # 1 => l[i - 1] = L[k][i - 1]
        <5>1. i # 1 => i - 1 \in 1..Len(L[k])
          BY <2>1, <3>1
        <5> QED BY <2>1, <5>1
      <4> QED BY <4>1, <4>2 DEF Before
    <3>9. p.tail[b + Span(k) - 1] = k
      BY <3>7 DEF End
    <3> QED BY <3>1, <3>6, <3>8, <3>9
  <2>4. l[len + 1] = Null
    BY <2>1, <2>2
  <2> HIDE DEF len
  <2> QED BY <2>3, <2>4 DEF l, len
<1>4. p.freeBytes = FoldLeft(LAMBDA n, k : n + (Len(ListOf(p, k)) - 1) * Span(k), 0,
                             [i \in 1..NumSizes |-> i - 1])
  <2>1. \A r, s \in Listed(L) : Meet(r, s) => r = s
    BY <1>2
  <2>2. Total(p, 0, [i \in 1..NumSizes |-> i - 1]) = Cardinality(Cover(Listed(L)))
    BY <1>1, <1>2, <2>1, SumIs
  <2>3. p.freeBytes = Cardinality(Cover(Listed(L)))
    BY <1>1 DEF Counts
  <2>4. p.freeBytes = Total(p, 0, [i \in 1..NumSizes |-> i - 1])
    BY <2>2, <2>3
  <2> QED BY <2>4, Zenon DEF Total
<1> QED BY <1>3, <1>4, Zenon DEF Check

-----------------------------------------------------------------------------
\* The busy ranges as callers hold them.
HeldOf(G) == {HeldRange(g.first, g.order) : g \in G}

(* The free lists hold the free ranges, callers the busy ones, and the two *)
(* tile the blocks released.                                               *)
Inv ==
  /\ corrupt = FALSE
  /\ \E L, G : held = HeldOf(G) /\ Sound(pool, L, G, usable)

\* What soundness says, part by part.
LEMMA SoundGives ==
  ASSUME NEW p, NEW L, NEW G, NEW U, Sound(p, L, G, U)
  PROVE  /\ Kept(p, L, G, {}, U) /\ Merged(Listed(L)) /\ Counts(p, L) /\ Listing(p, L) /\ PoolShape(p)
         /\ Tiling(Listed(L) \cup G, U) /\ Listed(L) \cap G = {}
         /\ G \subseteq Sites /\ Listed(L) \subseteq Sites /\ U \subseteq Blocks
         /\ \A r, s \in Listed(L) \cup G : Meet(r, s) => r = s
         /\ \A r, s \in G : r.first = s.first => r = s
<1>1. /\ Kept(p, L, G, {}, U) /\ Merged(Listed(L)) /\ Counts(p, L) /\ Listing(p, L) /\ PoolShape(p)
      /\ Listed(L) \cap G = {} /\ Tiling(Listed(L) \cup G \cup {}, U)
  BY DEF Sound, Kept, Listing
<1>2. Listed(L) \cup G \cup {} = Listed(L) \cup G
  OBVIOUS
<1>3. Tiling(Listed(L) \cup G, U)
  BY <1>1, <1>2
<1>4. /\ G \subseteq Sites /\ Listed(L) \subseteq Sites /\ U \subseteq Blocks
  BY <1>1, KeptSites
<1>5. \A r, s \in Listed(L) \cup G : Meet(r, s) => r = s
  BY <1>3 DEF Tiling
<1>6. ASSUME NEW r \in G, NEW s \in G, r.first = s.first PROVE r = s
  <2>1. r \in Sites /\ s \in Sites
    BY <1>4
  <2>2. Meet(r, s)
    BY <1>6, <2>1, SiteIs DEF Meet
  <2> QED BY <1>5, <2>2
<1> QED BY <1>1, <1>3, <1>4, <1>5, <1>6

\* What a caller sees of a busy range.
LEMMA HeldRangeIs ==
  ASSUME NEW g \in Sites
  PROVE  LET h == HeldRange(g.first, g.order)
         IN  /\ h.first = g.first /\ h.length = Span(g.order) /\ h.length \in Nat /\ h.length > 0
             /\ h.first..(h.first + h.length - 1) = Body(g)
<1> DEFINE h == HeldRange(g.first, g.order)
<1>1. h.first = g.first /\ h.length = Span(g.order)
  BY DEF HeldRange
<1> HIDE DEF h
<1>2. Span(g.order) \in Nat /\ Span(g.order) > 0 /\ Past(g) = g.first + Span(g.order) /\ g.first \in Nat
  BY SiteIs
<1>3. h.first..(h.first + h.length - 1) = Body(g)
  BY <1>1, <1>2 DEF Body
<1> QED BY <1>1, <1>2, <1>3 DEF h

\* One busy range less is one held range less.
LEMMA HeldWithout ==
  ASSUME NEW G \in SUBSET Sites, \A r, s \in G : r.first = s.first => r = s, NEW g \in G
  PROVE  HeldOf(G \ {g}) = HeldOf(G) \ {HeldRange(g.first, g.order)}
<1>1. \A r \in G : HeldRange(r.first, r.order).first = r.first
  BY DEF HeldRange
<1>2. \A r \in G : HeldRange(r.first, r.order) = HeldRange(g.first, g.order) => r = g
  BY <1>1
<1> QED BY <1>2 DEF HeldOf

\* One busy range more is one held range more.
LEMMA HeldWith ==
  ASSUME NEW G, NEW x
  PROVE  HeldOf(G \cup {x}) = HeldOf(G) \cup {HeldRange(x.first, x.order)}
BY DEF HeldOf

\* The blocks of a set of ranges callers hold.
LEMMA CoveredIs ==
  ASSUME NEW G \in SUBSET Sites
  PROVE  Storage!Covered(HeldOf(G)) = Cover(G)
<1>1. \A g \in G : Storage!Cells(HeldRange(g.first, g.order)) = Body(g)
  BY HeldRangeIs DEF Storage!Cells
<1>2. ASSUME NEW b PROVE b \in Storage!Covered(HeldOf(G)) <=> b \in Cover(G)
  <2>1. b \in Storage!Covered(HeldOf(G)) <=> \E h \in HeldOf(G) : b \in Storage!Cells(h)
    BY DEF Storage!Covered
  <2>2. (\E h \in HeldOf(G) : b \in Storage!Cells(h)) <=> \E g \in G : b \in Storage!Cells(HeldRange(g.first, g.order))
    BY DEF HeldOf
  <2>3. b \in Cover(G) <=> \E g \in G : b \in Body(g)
    BY InCover
  <2> QED BY <1>1, <2>1, <2>2, <2>3
<1> QED BY <1>2, Zenon

\* The blocks callers hold, as the abstract pool sees them.
LEMMA HeldBlocksAre == HeldBlocks = Storage!Covered(held)
BY DEF HeldBlocks, Storage!Covered, Storage!Cells

(* The free blocks, read from the lists, are the blocks of the free        *)
(* ranges.                                                                 *)
LEMMA FreeBlocksAre ==
  ASSUME NEW L, Listing(pool, L)
  PROVE  FreeBlocks = Cover(Listed(L))
<1>1. ASSUME NEW r \in [first : Blocks, order : Orders]
      PROVE  (\E i \in 1..(Len(ListOf(pool, r.order)) - 1) : ListOf(pool, r.order)[i] = r.first)
               <=> \E i \in 1..Len(L[r.order]) : L[r.order][i] = r.first
  <2>1. /\ Len(ListOf(pool, r.order)) - 1 = Len(L[r.order])
        /\ \A i \in 1..Len(L[r.order]) : ListOf(pool, r.order)[i] = L[r.order][i]
    <3>1. r.order \in Orders
      OBVIOUS
    <3>2. /\ Len(ListOf(pool, r.order)) = Len(L[r.order]) + 1 /\ Len(L[r.order]) \in Nat
          /\ \A i \in 1..Len(L[r.order]) : ListOf(pool, r.order)[i] = L[r.order][i]
      <4> HIDE DEF pool
      <4> QED BY <3>1, ReadsAsListed
    <3> QED BY <3>2
  <2> QED BY <2>1
<1>2. FreeRanges = Listed(L)
  BY <1>1 DEF FreeRanges, Listed
<1>3. \A r \in Listed(L) : Body(r) = r.first..(r.first + Span(r.order) - 1)
  <2>1. ASSUME NEW r \in Listed(L) PROVE Body(r) = r.first..(r.first + Span(r.order) - 1)
    <3>1. r.first \in Nat /\ r.order \in Nat
      <4>1. r.first \in Blocks /\ r.order \in Orders
        BY DEF Listed
      <4>2. Blocks \subseteq Nat /\ Orders \subseteq Nat
        BY BlocksAre
      <4> QED BY <4>1, <4>2
    <3>2. Span(r.order) \in Nat
      BY <3>1, SpanPositive
    <3> QED BY <3>1, <3>2 DEF Body, Past
  <2> QED BY <2>1
<1> QED BY <1>2, <1>3 DEF FreeBlocks, Cover

\* Init: all bits are set, all lists empty, and nothing is held.
LEMMA InitInv == Init => Inv /\ Storage!Init
<1> SUFFICES ASSUME Init PROVE Inv /\ Storage!Init
  OBVIOUS
<1> DEFINE L == [k \in Orders |-> <<>>]
<1>1. /\ map = Blocks /\ freeList = [k \in Orders |-> Null] /\ freeBytes = 0
      /\ head = [b \in Blocks |-> Zero] /\ tail = [b \in Blocks |-> Zero]
      /\ usable = {} /\ corrupt = FALSE /\ held = {}
  BY DEF Init
<1> DEFINE p == pool
<1>2. /\ p = [map |-> p.map, freeList |-> p.freeList, freeBytes |-> p.freeBytes,
              head |-> p.head, tail |-> p.tail]
      /\ p.map = map /\ p.freeList = freeList /\ p.freeBytes = freeBytes /\ p.head = head /\ p.tail = tail
  BY DEF pool
<1> HIDE DEF p
<1>3. PoolShape(p)
  <2>1. DOMAIN p.freeList = Orders /\ p.freeList = [k \in Orders |-> p.freeList[k]]
    BY <1>1, <1>2
  <2>2. p.head = [b \in Blocks |-> p.head[b]]
    BY <1>1, <1>2
  <2>3. p.tail = [b \in Blocks |-> p.tail[b]]
    BY <1>1, <1>2
  <2> QED BY <1>2, <2>1, <2>2, <2>3 DEF PoolShape
<1>4. \A k \in Orders : Len(L[k]) = 0 /\ L[k] \in Seq(Blocks) /\ p.freeList[k] = Null
  BY <1>1, <1>2
<1>5. L = [k \in Orders |-> L[k]]
  OBVIOUS
<1> HIDE DEF L
<1>6. Listing(p, L)
  <2>1. \A k \in Orders : 1..Len(L[k]) = {}
    BY <1>4
  <2>2. \A k \in Orders : Chain(p, k, L[k])
    BY <1>4, <2>1 DEF Chain, Leader
  <2>3. Apart(L)
    BY <2>1 DEF Apart
  <2> QED BY <1>3, <1>5, <2>2, <2>3 DEF Listing
<1>7. Listed(L) = {}
  <2>1. \A k \in Orders : 1..Len(L[k]) = {}
    BY <1>4
  <2> QED BY <2>1 DEF Listed
<1>8. Kept(p, L, {}, {}, {})
  <2>1. Tiling({}, {})
    BY DEF Tiling, Cover
  <2>2. Tiling(Listed(L) \cup {} \cup {}, {})
    BY <1>7, <2>1
  <2>3. Marks(p, {}, {})
    BY <1>1, <1>2 DEF Marks
  <2> QED BY <1>6, <1>7, <2>2, <2>3 DEF Kept
<1>9. Sound(p, L, {}, {})
  <2>1. Merged({})
    BY DEF Merged
  <2>2. Cover({}) = {}
    BY DEF Cover
  <2>3. Cardinality({}) = 0
    BY FS_EmptySet
  <2>4. Counts(p, L)
    BY <1>1, <1>2, <1>7, <2>2, <2>3 DEF Counts
  <2> QED BY <1>7, <1>8, <2>1, <2>4 DEF Sound
<1>10. held = HeldOf({})
  BY <1>1 DEF HeldOf
<1>11. Inv
  BY <1>1, <1>9, <1>10 DEF Inv, p
<1>12. content = <<>>
  <2>1. HeldBlocks = {}
    BY <1>1 DEF HeldBlocks
  <2> QED BY <2>1 DEF content
<1>13. Storage!Init
  BY <1>1, <1>12 DEF Storage!Init
<1> QED BY <1>11, <1>13

-----------------------------------------------------------------------------
(* The steps.                                                              *)

\* What a step leaves, and what the callers see of it.
Lands == \E L, G : held' = HeldOf(G) /\ Sound(pool', L, G, usable')
Seen == Storage!Next \/ UNCHANGED Storage!vars

\* A step that lands soundly keeps the invariant.
LEMMA LandsIs == ASSUME corrupt' = FALSE, Lands PROVE Inv'
BY DEF Lands, Inv

\* SetPool assigns the pool.
LEMMA PoolIs ==
  ASSUME NEW q, PoolShape(q), SetPool(q)
  PROVE  pool' = q /\ head' = q.head /\ tail' = q.tail
BY DEF PoolShape, SetPool, pool

(* Apply assigns the pool a call leaves and records no error on success or *)
(* want of memory.                                                         *)
LEMMA ApplyIs ==
  ASSUME NEW r, PoolShape(r.pool), Apply(r), r.ret = "success" \/ r.ret = "nomemory", corrupt = FALSE
  PROVE  /\ pool' = r.pool /\ head' = r.pool.head /\ tail' = r.pool.tail
         /\ usable' = usable /\ corrupt' = FALSE
<1>1. SetPool(r.pool) /\ corrupt' = (corrupt \/ r.ret \in {"corrupt", "badpointer"}) /\ usable' = usable
  BY DEF Apply
<1>2. r.ret \notin {"corrupt", "badpointer"}
  OBVIOUS
<1>3. corrupt' = FALSE
  BY <1>1, <1>2
<1>4. pool' = r.pool /\ head' = r.pool.head /\ tail' = r.pool.tail
  BY <1>1, PoolIs
<1> QED BY <1>1, <1>3, <1>4

\* Callers keep their contents where heads and tails stay.
LEMMA KeepsIs ==
  ASSUME NEW T, T \subseteq held, T \subseteq held',
         \A b \in Storage!Covered(T) : head'[b] = head[b] /\ tail'[b] = tail[b]
  PROVE  Storage!Keeps(T)
<1>1. HeldBlocks = Storage!Covered(held)
  BY HeldBlocksAre
<1>2. HeldBlocks' = Storage!Covered(held')
  BY DEF HeldBlocks, Storage!Covered, Storage!Cells
<1>3. DOMAIN content' = Storage!Covered(held')
  BY <1>2 DEF content
<1>4. Storage!Covered(T) \subseteq HeldBlocks /\ Storage!Covered(T) \subseteq HeldBlocks'
  BY <1>1, <1>2 DEF Storage!Covered
<1>5. ASSUME NEW b \in Storage!Covered(T) PROVE content'[b] = content[b]
  <2>1. b \in HeldBlocks /\ b \in HeldBlocks'
    BY <1>4
  <2>2. content[b] = <<head[b], tail[b]>> /\ content'[b] = <<head'[b], tail'[b]>>
    BY <2>1 DEF content
  <2> QED BY <2>2
<1> QED BY <1>3, <1>5 DEF Storage!Keeps

\* A busy range fits between the others.
LEMMA FitsIs ==
  ASSUME NEW p, NEW L, NEW G, Sound(p, L, G, usable), NEW x \in G
  PROVE  Storage!Fits(HeldRange(x.first, x.order), HeldOf(G \ {x}))
<1>1. /\ G \subseteq Sites /\ \A r, s \in Listed(L) \cup G : Meet(r, s) => r = s
      /\ Tiling(Listed(L) \cup G, usable)
  BY SoundGives
<1>2. x \in Listed(L) \cup G /\ x \in Sites
  BY <1>1
<1>3. LET h == HeldRange(x.first, x.order)
      IN  h.length > 0 /\ Storage!Cells(h) = Body(x)
  BY <1>2, HeldRangeIs DEF Storage!Cells
<1>4. Body(x) \subseteq usable
  BY <1>1, <1>2, TilingGives
<1>5. Storage!Covered(HeldOf(G \ {x})) = Cover(G \ {x})
  BY <1>1, CoveredIs
<1>6. Body(x) \cap Cover(G \ {x}) = {}
  <2>1. ASSUME NEW b \in Body(x), b \in Cover(G \ {x}) PROVE FALSE
    <3>1. PICK r \in G \ {x} : b \in Body(r)
      BY <2>1, InCover
    <3>2. Meet(x, r)
      BY <3>1 DEF Meet
    <3> QED BY <1>1, <3>1, <3>2
  <2> QED BY <2>1
<1> QED BY <1>3, <1>4, <1>5, <1>6 DEF Storage!Fits

\* Callers see the contents the pool leaves quiet.
LEMMA KeepsQuiet ==
  ASSUME NEW G \in SUBSET Sites, HeldOf(G) \subseteq held, HeldOf(G) \subseteq held',
         \A b \in Cover(G) : head'[b] = head[b] /\ tail'[b] = tail[b]
  PROVE  Storage!Keeps(HeldOf(G))
<1>1. Storage!Covered(HeldOf(G)) = Cover(G)
  BY CoveredIs
<1> QED BY <1>1, KeepsIs

\* Callers see nothing of a step that leaves contents and held ranges.
LEMMA StaysPut ==
  ASSUME UNCHANGED <<head, tail, held, usable>>
  PROVE  UNCHANGED Storage!vars
<1>1. HeldBlocks' = HeldBlocks
  BY DEF HeldBlocks
<1>2. content' = content
  BY <1>1 DEF content
<1> QED BY <1>2 DEF Storage!vars

\* VRAMMalloc is a Take of the abstract pool, or leaves all as it is.
LEMMA MallocStep ==
  ASSUME Inv, NEW n \in Requests, VRAMMalloc(n)
  PROVE  Inv' /\ Seen
<1> DEFINE r == Malloc(pool, n)
           k == OrderOf(n)
<1>1. PICK L, G : held = HeldOf(G) /\ Sound(pool, L, G, usable)
  BY DEF Inv
<1>2. corrupt = FALSE
  BY DEF Inv
<1>3. n \in Nat /\ k \in Nat
  BY SizeAssumption, OrderOfFits
<1>4. Apply(r) /\ held' = IF r.ret = "success" THEN held \cup {HeldRange(r.at, k)} ELSE held
  BY DEF VRAMMalloc
<1>5. r = Failure("nomemory", pool) \/ Allotted(pool, G, usable, k, r)
  <2>1. r = BuddyMalloc(pool, k)
    BY DEF Malloc
  <2> HIDE DEF r, k
  <2>2. IF pool.freeBytes < Span(k) \/ Larger(pool, k) = {}
          THEN BuddyMalloc(pool, k) = Failure("nomemory", pool)
          ELSE Allotted(pool, G, usable, k, BuddyMalloc(pool, k))
    BY <1>1, <1>3, MallocIs
  <2> QED BY <2>1, <2>2
<1>6. PoolShape(pool) /\ G \subseteq Sites /\ pool.head = head /\ pool.tail = tail
  <2>1. pool.head = head /\ pool.tail = tail
    BY DEF pool
  <2> QED BY <1>1, <2>1, SoundGives
<1> HIDE DEF r, k
<1>7. CASE r = Failure("nomemory", pool)
  <2>1. r.ret = "nomemory" /\ r.pool = pool /\ r.ret # "success"
    BY <1>7 DEF Failure
  <2>2. /\ pool' = r.pool /\ head' = r.pool.head /\ tail' = r.pool.tail
        /\ usable' = usable /\ corrupt' = FALSE
    BY <1>2, <1>4, <1>6, <2>1, ApplyIs
  <2>3. held' = held
    BY <1>4, <2>1
  <2>4. pool' = pool /\ head' = head /\ tail' = tail
    BY <1>6, <2>1, <2>2
  <2>5. Lands
    BY <1>1, <2>2, <2>3, <2>4 DEF Lands
  <2>6. UNCHANGED Storage!vars
    BY <2>2, <2>3, <2>4, StaysPut
  <2> QED BY <2>2, <2>5, <2>6, LandsIs DEF Seen
<1>8. CASE Allotted(pool, G, usable, k, r)
  <2> DEFINE x == RangeAt(r.at, k)
             h == HeldRange(r.at, k)
  <2>1. r.ret = "success" /\ x \in Sites /\ x \notin G /\ Quiet(pool, r.pool, Cover(G))
    BY <1>8 DEF Allotted
  <2>2. PICK M : Sound(r.pool, M, G \cup {x}, usable)
    BY <1>8 DEF Allotted
  <2>3. x.first = r.at /\ x.order = k
    BY DEF RangeAt
  <2> HIDE DEF x
  <2> DEFINE K == G \cup {x}
  <2>4. PoolShape(r.pool) /\ K \subseteq Sites /\ \A s, t \in K : s.first = t.first => s = t
    <3>1. Sound(r.pool, M, K, usable)
      BY <2>2
    <3> HIDE DEF K
    <3> QED BY <3>1, SoundGives, ZenonT(60)
  <2>5. /\ pool' = r.pool /\ head' = r.pool.head /\ tail' = r.pool.tail
        /\ usable' = usable /\ corrupt' = FALSE
    BY <1>2, <1>4, <2>1, <2>4, ApplyIs
  <2>6. held' = held \cup {h}
    BY <1>4, <2>1
  <2>7. held' = HeldOf(G \cup {x})
    BY <1>1, <2>3, <2>6, HeldWith
  <2>8. Lands
    BY <2>2, <2>5, <2>7 DEF Lands
  <2>9. (G \cup {x}) \ {x} = G
    BY <2>1
  <2>10. h \in held' \ held
    <3>1. HeldOf((G \cup {x}) \ {x}) = HeldOf(G \cup {x}) \ {HeldRange(x.first, x.order)}
      <4>1. x \in G \cup {x} /\ G \cup {x} \in SUBSET Sites
        BY <2>4
      <4> QED BY <2>4, <4>1, HeldWithout
    <3>2. held = HeldOf(G \cup {x}) \ {h}
      BY <1>1, <2>3, <2>9, <3>1
    <3> QED BY <2>6, <3>2
  <2>11. Storage!Fits(h, held)
    <3>1. Storage!Fits(HeldRange(x.first, x.order), HeldOf((G \cup {x}) \ {x}))
      <4>1. x \in G \cup {x}
        OBVIOUS
      <4> QED BY <2>2, <4>1, FitsIs
    <3> QED BY <1>1, <2>3, <2>9, <3>1
  <2>12. Storage!Keeps(held)
    <3>1. \A b \in Cover(G) : head'[b] = head[b] /\ tail'[b] = tail[b]
      BY <1>6, <2>1, <2>5 DEF Quiet
    <3>2. held \subseteq held'
      BY <2>6
    <3>3. Storage!Keeps(HeldOf(G))
      BY <1>1, <1>6, <3>1, <3>2, KeepsQuiet
    <3> QED BY <1>1, <3>3
  <2> HIDE DEF h
  <2>13. Storage!Take
    BY <2>6, <2>10, <2>11, <2>12 DEF Storage!Take
  <2>14. Seen
    BY <2>5, <2>13 DEF Seen, Storage!Next
  <2> QED BY <2>5, <2>8, <2>14, LandsIs
<1> QED BY <1>5, <1>7, <1>8

-----------------------------------------------------------------------------
\* setupAllocator is the Open of the abstract pool.
LEMMA ReleaseStep ==
  ASSUME Inv, setupAllocator
  PROVE  Inv' /\ Seen
<1>1. PICK L, G : held = HeldOf(G) /\ Sound(pool, L, G, usable)
  BY DEF Inv
<1>2. PICK haveFrontBuffer \in BOOLEAN :
        LET upper == IF Reserved < PoolBlocks THEN Reserved..(PoolBlocks - 1) ELSE {}
            lower == IF haveFrontBuffer THEN Blocks \ upper ELSE {}
            first == IF upper = {} THEN Success(pool, Null) ELSE Release(pool, Reserved, PoolBlocks)
            second == IF lower = {} THEN first ELSE Release(first.pool, 0, Least(Reserved, PoolBlocks))
        IN  /\ usable = {} /\ usable' = upper \cup lower
            /\ SetPool(second.pool)
            /\ corrupt' = ("corrupt" \in {first.ret, second.ret})
            /\ UNCHANGED held
  BY DEF setupAllocator
<1> DEFINE upper == IF Reserved < PoolBlocks THEN Reserved..(PoolBlocks - 1) ELSE {}
           lower == IF haveFrontBuffer THEN Blocks \ upper ELSE {}
           first == IF upper = {} THEN Success(pool, Null) ELSE Release(pool, Reserved, PoolBlocks)
           second == IF lower = {} THEN first ELSE Release(first.pool, 0, Least(Reserved, PoolBlocks))
<1>3. /\ usable = {} /\ usable' = upper \cup lower
      /\ SetPool(second.pool)
      /\ corrupt' = ("corrupt" \in {first.ret, second.ret})
      /\ held' = held
  BY <1>2
<1>4. G = {} /\ SetupGives(first, second, upper \cup lower)
  <2>1. Sound(pool, L, G, {})
    BY <1>1, <1>3
  <2> QED BY <2>1, SetupIs
<1> HIDE DEF upper, lower, first, second
<1>5. first.ret = "success" /\ second.ret = "success"
  BY <1>4 DEF SetupGives
<1>6. PICK M : Sound(second.pool, M, {}, usable')
  BY <1>3, <1>4 DEF SetupGives
<1>7. pool' = second.pool
  <2>1. PoolShape(second.pool)
    BY <1>6, SoundGives
  <2> QED BY <1>3, <2>1, PoolIs
<1>8. corrupt' = FALSE
  <2>1. {first.ret, second.ret} = {"success"}
    BY <1>5
  <2>2. ("corrupt" \in {"success"}) = FALSE
    OBVIOUS
  <2>3. corrupt' = ("corrupt" \in {"success"})
    BY <1>3, <2>1, Zenon
  <2> QED BY <2>2, <2>3
<1>9. held = {} /\ held' = {} /\ held' = HeldOf({})
  BY <1>1, <1>3, <1>4 DEF HeldOf
<1>10. Lands
  BY <1>6, <1>7, <1>9 DEF Lands
<1>11. content' = content
  <2>1. HeldBlocks = {} /\ HeldBlocks' = {}
    BY <1>9 DEF HeldBlocks
  <2> QED BY <2>1 DEF content
<1>12. usable' \in SUBSET Blocks
  BY <1>6, SoundGives
<1>13. Storage!Open
  BY <1>3, <1>11, <1>12 DEF Storage!Open
<1> QED BY <1>8, <1>10, <1>13, LandsIs DEF Seen, Storage!Next

\* The busy range g a caller holds as h.
Holds(G, g, h) ==
  /\ h = HeldRange(g.first, g.order) /\ h.first = g.first /\ h.length = Span(g.order)
  /\ g \in Sites /\ h.first..(h.first + h.length - 1) = Body(g)
  /\ HeldOf(G) \ {h} = HeldOf(G \ {g})

\* Each held range is a busy range.
LEMMA HoldsOne ==
  ASSUME NEW p, NEW L, NEW G, NEW U, Sound(p, L, G, U), NEW h \in HeldOf(G)
  PROVE  \E g \in G : Holds(G, g, h)
<1>1. PICK g \in G : h = HeldRange(g.first, g.order)
  BY DEF HeldOf
<1>2. G \in SUBSET Sites /\ \A r, s \in G : r.first = s.first => r = s
  BY SoundGives
<1>3. /\ h.first = g.first /\ h.length = Span(g.order)
      /\ h.first..(h.first + h.length - 1) = Body(g)
  BY <1>1, <1>2, HeldRangeIs
<1>4. HeldOf(G) \ {h} = HeldOf(G \ {g})
  BY <1>1, <1>2, HeldWithout
<1>5. Holds(G, g, h)
  BY <1>1, <1>2, <1>3, <1>4 DEF Holds
<1> QED BY <1>5

\* A successful Free, whoever calls it.
LEMMA FreeStep ==
  ASSUME Inv, NEW h \in held, Apply(Free(pool, h.first)), held' = held \ {h}
  PROVE  Inv' /\ Seen /\ Free(pool, h.first).ret = "success"
<1> DEFINE r == Free(pool, h.first)
<1>1. PICK L, G : held = HeldOf(G) /\ Sound(pool, L, G, usable)
  BY DEF Inv
<1>2. corrupt = FALSE
  BY DEF Inv
<1>B. h \in HeldOf(G)
  BY <1>1
<1>C. PICK g \in G : Holds(G, g, h)
  BY <1>1, <1>B, HoldsOne
<1>3. h.first = g.first /\ held \ {h} = HeldOf(G \ {g})
  BY <1>1, <1>C DEF Holds
<1>4. FreeGives(pool, r, G, g, usable)
  BY <1>1, <1>3, FreeIs
<1>A. Apply(r)
  OBVIOUS
<1> HIDE DEF r
<1>5. r.ret = "success" /\ Quiet(pool, r.pool, Cover(G \ {g}))
  BY <1>4 DEF FreeGives
<1>6. PICK M : Sound(r.pool, M, G \ {g}, usable)
  BY <1>4 DEF FreeGives
<1>7. PoolShape(r.pool) /\ G \ {g} \in SUBSET Sites
  BY <1>6, SoundGives
<1>8. /\ pool' = r.pool /\ head' = r.pool.head /\ tail' = r.pool.tail
      /\ usable' = usable /\ corrupt' = FALSE
  BY <1>2, <1>5, <1>7, <1>A, ApplyIs
<1>9. held' = HeldOf(G \ {g})
  BY <1>3
<1>10. Lands
  BY <1>6, <1>8, <1>9 DEF Lands
<1>11. Storage!Keeps(held')
  <2>1. pool.head = head /\ pool.tail = tail
    BY DEF pool
  <2>2. \A b \in Cover(G \ {g}) : head'[b] = head[b] /\ tail'[b] = tail[b]
    BY <1>5, <1>8, <2>1 DEF Quiet
  <2>3. held' \subseteq held
    OBVIOUS
  <2>4. Storage!Keeps(HeldOf(G \ {g}))
    BY <1>7, <1>9, <2>2, <2>3, KeepsQuiet
  <2> QED BY <1>9, <2>4
<1>12. Storage!Give
  BY <1>11 DEF Storage!Give
<1>13. Seen
  BY <1>8, <1>12 DEF Seen, Storage!Next
<1> QED BY <1>5, <1>8, <1>10, <1>13, LandsIs DEF r

(* Write is a Use of the abstract pool: a caller's data never reach the    *)
(* allocator's records.                                                    *)
LEMMA WriteStep ==
  ASSUME Inv, NEW h \in held, Write(h)
  PROVE  Inv' /\ Seen
<1>1. PICK L, G : held = HeldOf(G) /\ Sound(pool, L, G, usable)
  BY DEF Inv
<1>B. h \in HeldOf(G)
  BY <1>1
<1>C. PICK g \in G : Holds(G, g, h)
  BY <1>1, <1>B, HoldsOne
<1>2. /\ h.first = g.first /\ g \in Sites /\ h.first..(h.first + h.length - 1) = Body(g)
      /\ held \ {h} = HeldOf(G \ {g})
  BY <1>1, <1>C DEF Holds
<1>3. PICK b \in h.first..(h.first + h.length - 1), d \in Data :
        /\ head' = [head EXCEPT ![b] = d] /\ tail' = [tail EXCEPT ![b] = d]
        /\ UNCHANGED <<map, freeList, freeBytes, usable, corrupt, held>>
  BY DEF Write
<1>4. b \in Body(g)
  BY <1>2
<1>5. /\ Kept(pool, L, G, {}, usable) /\ Merged(Listed(L)) /\ Counts(pool, L) /\ PoolShape(pool)
      /\ Listed(L) \cap G = {} /\ G \subseteq Sites
      /\ \A r, s \in Listed(L) \cup G : Meet(r, s) => r = s
  BY <1>1, SoundGives, ZenonT(60)
<1>6. /\ pool.map = map /\ pool.freeList = freeList /\ pool.freeBytes = freeBytes
      /\ pool.head = head /\ pool.tail = tail
  BY DEF pool
<1>7. /\ pool'.map = map' /\ pool'.freeList = freeList' /\ pool'.freeBytes = freeBytes'
      /\ pool'.head = head' /\ pool'.tail = tail'
      /\ pool' = [map |-> pool'.map, freeList |-> pool'.freeList, freeBytes |-> pool'.freeBytes,
                  head |-> pool'.head, tail |-> pool'.tail]
  BY DEF pool
<1>8. /\ head' = [y \in Blocks |-> head'[y]] /\ \A y \in Blocks : y # b => head'[y] = head[y]
      /\ tail' = [y \in Blocks |-> tail'[y]] /\ \A y \in Blocks : y # b => tail'[y] = tail[y]
  <2>1. head = [y \in Blocks |-> head[y]] /\ tail = [y \in Blocks |-> tail[y]]
    BY <1>5, <1>6 DEF PoolShape
  <2> QED BY <1>3, <2>1
<1>9. PoolShape(pool')
  BY <1>3, <1>5, <1>6, <1>7, <1>8 DEF PoolShape
<1>10. ASSUME NEW T, T \subseteq Listed(L) \cup G, g \notin T PROVE Quiet(pool, pool', Cover(T))
  <2>1. ASSUME NEW c \in Cover(T) PROVE c \in Blocks /\ c # b
    <3>1. PICK r \in T : c \in Body(r)
      BY InCover
    <3>2. r \in Listed(L) \cup G /\ g \in Listed(L) \cup G /\ r # g
      BY <1>10
    <3>3. r \in Sites /\ ~Meet(r, g)
      BY <1>1, <1>5, <3>2, SoundGives
    <3> QED BY <1>4, <3>1, <3>3, SiteIs DEF Meet
  <2> QED BY <1>6, <1>7, <1>8, <2>1 DEF Quiet
<1>11. Sound(pool', L, G, usable)
  <2>1. Quiet(pool, pool', Cover(Listed(L)))
    BY <1>5, <1>10
  <2>2. pool'.freeList = pool.freeList /\ pool'.map = pool.map /\ pool'.freeBytes = pool.freeBytes
    BY <1>3, <1>6, <1>7
  <2>3. Kept(pool', L, G, {}, usable)
    BY <1>5, <1>9, <2>1, <2>2, KeepWrite
  <2>4. Counts(pool', L)
    BY <1>5, <2>2 DEF Counts
  <2> QED BY <1>5, <2>3, <2>4 DEF Sound
<1>12. held' = HeldOf(G) /\ usable' = usable /\ corrupt' = FALSE
  BY <1>1, <1>3 DEF Inv
<1>13. Lands
  BY <1>11, <1>12 DEF Lands
<1>14. Storage!Keeps(held \ {h})
  <2>1. Quiet(pool, pool', Cover(G \ {g}))
    BY <1>10
  <2>2. \A c \in Cover(G \ {g}) : head'[c] = head[c] /\ tail'[c] = tail[c]
    BY <1>6, <1>7, <2>1 DEF Quiet
  <2>3. G \ {g} \in SUBSET Sites /\ HeldOf(G \ {g}) \subseteq held /\ HeldOf(G \ {g}) \subseteq held'
    BY <1>2, <1>3, <1>5
  <2>4. Storage!Keeps(HeldOf(G \ {g}))
    BY <2>2, <2>3, KeepsQuiet
  <2> QED BY <1>2, <2>4
<1>15. Storage!Use
  BY <1>3, <1>14 DEF Storage!Use
<1>16. Seen
  BY <1>12, <1>15 DEF Seen, Storage!Next
<1> QED BY <1>12, <1>13, <1>16, LandsIs

-----------------------------------------------------------------------------
\* A range that grew or shrank: what its holder and the others see.
LEMMA ResizeSeen ==
  ASSUME NEW G, NEW g \in G, NEW y \in Sites, NEW h, Holds(G, g, h), held = HeldOf(G), h \in held,
         y \notin G \ {g}, NEW L, NEW M, Sound(pool, L, G, usable),
         Sound(pool', M, (G \ {g}) \cup {y}, usable), usable' = usable,
         held' = (held \ {h}) \cup {HeldRange(y.first, y.order)},
         \A b \in Cover(G \ {g}) : head'[b] = head[b] /\ tail'[b] = tail[b],
         \A i \in 0..(Span(g.order) - 1) :
           i < Span(y.order) => head'[y.first + i] = head[g.first + i] /\ tail'[y.first + i] = tail[g.first + i]
  PROVE  Storage!Resize
<1> DEFINE H == G \ {g}
           K == H \cup {y}
           x == HeldRange(y.first, y.order)
           others == held \ {h}
<1>1. /\ h.first = g.first /\ h.length = Span(g.order) /\ g \in Sites
      /\ h.first..(h.first + h.length - 1) = Body(g) /\ others = HeldOf(H)
  BY DEF Holds
<1>2. /\ x.first = y.first /\ x.length = Span(y.order) /\ x.length \in Nat
      /\ x.first..(x.first + x.length - 1) = Body(y)
  BY HeldRangeIs
<1>3. H \in SUBSET Sites
  BY SoundGives
<1>4. held' = others \cup {x} /\ x \in held' /\ others \subseteq held /\ others \subseteq held'
  OBVIOUS
<1>5. Storage!Fits(x, others)
  <2>1. y \in K /\ K \ {y} = H
    OBVIOUS
  <2>2. Sound(pool', M, K, usable)
    OBVIOUS
  <2> HIDE DEF K, x, H, others
  <2>3. Storage!Fits(HeldRange(y.first, y.order), HeldOf(K \ {y}))
    BY <2>1, <2>2, FitsIs
  <2>4. x = HeldRange(y.first, y.order)
    BY DEF x
  <2> QED BY <1>1, <2>1, <2>3, <2>4
<1>6. Storage!Keeps(others)
  <2>1. HeldOf(H) \subseteq held /\ HeldOf(H) \subseteq held'
    BY <1>1, <1>4
  <2>2. \A b \in Cover(H) : head'[b] = head[b] /\ tail'[b] = tail[b]
    OBVIOUS
  <2> HIDE DEF K, x, H, others
  <2>3. Storage!Keeps(HeldOf(H))
    BY <1>3, <2>1, <2>2, KeepsQuiet
  <2> QED BY <1>1, <2>3
<1>7. ASSUME NEW i \in 0..(h.length - 1), i < x.length
      PROVE  content'[x.first + i] = content[h.first + i]
  <2>1. Span(g.order) \in Nat /\ Span(y.order) \in Nat /\ g.first \in Nat /\ y.first \in Nat
    BY <1>1, SiteIs
  <2>2. i \in 0..(Span(g.order) - 1) /\ i < Span(y.order)
    BY <1>1, <1>2, <1>7
  <2>3. head'[y.first + i] = head[g.first + i] /\ tail'[y.first + i] = tail[g.first + i]
    BY <2>2
  <2>4. g.first + i \in h.first..(h.first + h.length - 1)
    BY <1>1, <2>1, <2>2
  <2>5. y.first + i \in x.first..(x.first + x.length - 1)
    BY <1>2, <2>1, <2>2
  <2>6. g.first + i \in HeldBlocks
    BY <2>4 DEF HeldBlocks
  <2>7. y.first + i \in HeldBlocks'
    BY <1>4, <2>5 DEF HeldBlocks
  <2>8. content[g.first + i] = <<head[g.first + i], tail[g.first + i]>>
    BY <2>6 DEF content
  <2>9. content'[y.first + i] = <<head'[y.first + i], tail'[y.first + i]>>
    BY <2>7 DEF content
  <2> QED BY <1>1, <1>2, <2>3, <2>8, <2>9
<1> HIDE DEF x, others
<1> QED BY <1>4, <1>5, <1>6, <1>7 DEF Storage!Resize, others

-----------------------------------------------------------------------------
\* A range that moved is a Resize.
LEMMA GrowStep ==
  ASSUME Inv, NEW L, NEW G, held = HeldOf(G), Sound(pool, L, G, usable), NEW g \in G, NEW h \in held, Holds(G, g, h),
         NEW r, NEW y, GrowGives(pool, r, G, g, y, usable), Apply(r),
         held' = (held \ {h}) \cup {HeldRange(y.first, y.order)}
  PROVE  Inv' /\ Seen
<1> DEFINE K == (G \ {g}) \cup {y}
<1>1. /\ r.ret = "success" /\ y \in Sites /\ y \notin G /\ g.order < y.order
      /\ Quiet(pool, r.pool, Cover(G \ {g}))
      /\ \A i \in 0..(Span(g.order) - 1) :
           /\ r.pool.head[y.first + i] = pool.head[g.first + i]
           /\ r.pool.tail[y.first + i] = pool.tail[g.first + i]
  BY DEF GrowGives
<1>2. PICK M : Sound(r.pool, M, K, usable)
  BY DEF GrowGives
<1>3. PoolShape(r.pool)
  <2> HIDE DEF K
  <2> QED BY <1>2, SoundGives
<1>4. corrupt = FALSE
  BY DEF Inv
<1>5. pool.head = head /\ pool.tail = tail
  BY DEF pool
<1>6. /\ pool' = r.pool /\ head' = r.pool.head /\ tail' = r.pool.tail
      /\ usable' = usable /\ corrupt' = FALSE
  BY <1>1, <1>3, <1>4, ApplyIs
<1>7. held' = HeldOf(K)
  <2>1. held \ {h} = HeldOf(G \ {g})
    BY DEF Holds
  <2>2. HeldOf(K) = HeldOf(G \ {g}) \cup {HeldRange(y.first, y.order)}
    BY HeldWith
  <2> QED BY <2>1, <2>2
<1>8. Sound(pool', M, K, usable)
  BY <1>2, <1>6
<1>9. Lands
  BY <1>6, <1>7, <1>8 DEF Lands
<1>10. \A b \in Cover(G \ {g}) : head'[b] = head[b] /\ tail'[b] = tail[b]
  BY <1>1, <1>5, <1>6 DEF Quiet
<1>11. \A i \in 0..(Span(g.order) - 1) :
         i < Span(y.order) => head'[y.first + i] = head[g.first + i] /\ tail'[y.first + i] = tail[g.first + i]
  BY <1>1, <1>5, <1>6
<1>12. y \notin G \ {g}
  BY <1>1
<1>13. Storage!Resize
  BY <1>1, <1>6, <1>8, <1>10, <1>11, <1>12, ResizeSeen
<1>14. Seen
  BY <1>6, <1>13 DEF Seen, Storage!Next
<1> QED BY <1>6, <1>9, <1>14, LandsIs

\* A range that shrank is a Resize.
LEMMA ShrinkStep ==
  ASSUME Inv, NEW L, NEW G, held = HeldOf(G), Sound(pool, L, G, usable), NEW g \in G, NEW h \in held, Holds(G, g, h),
         NEW r, r.ret = "success", NEW x, ShrinkGives(pool, r.pool, G, g, x, usable), Apply(r),
         held' = (held \ {h}) \cup {HeldRange(x.first, x.order)}
  PROVE  Inv' /\ Seen
<1> DEFINE K == (G \ {g}) \cup {x}
<1>1. /\ x \in Sites /\ x.first = g.first /\ x.order < g.order /\ x \notin G \ {g}
      /\ Quiet(pool, r.pool, Cover(K))
  BY DEF ShrinkGives
<1>2. PICK M : Sound(r.pool, M, K, usable)
  BY DEF ShrinkGives
<1>3. PoolShape(r.pool)
  <2> HIDE DEF K
  <2> QED BY <1>2, SoundGives
<1>4. corrupt = FALSE
  BY DEF Inv
<1>5. pool.head = head /\ pool.tail = tail
  BY DEF pool
<1>6. /\ pool' = r.pool /\ head' = r.pool.head /\ tail' = r.pool.tail
      /\ usable' = usable /\ corrupt' = FALSE
  BY <1>3, <1>4, ApplyIs
<1>7. held' = HeldOf(K)
  <2>1. held \ {h} = HeldOf(G \ {g})
    BY DEF Holds
  <2>2. HeldOf(K) = HeldOf(G \ {g}) \cup {HeldRange(x.first, x.order)}
    BY HeldWith
  <2> QED BY <2>1, <2>2
<1>8. Sound(pool', M, K, usable)
  BY <1>2, <1>6
<1>9. Lands
  BY <1>6, <1>7, <1>8 DEF Lands
<1>10. \A b \in Cover(K) : head'[b] = head[b] /\ tail'[b] = tail[b]
  BY <1>1, <1>5, <1>6 DEF Quiet
<1>11. \A b \in Cover(G \ {g}) : head'[b] = head[b] /\ tail'[b] = tail[b]
  <2>1. Cover(G \ {g}) \subseteq Cover(K)
    BY DEF Cover
  <2> QED BY <1>10, <2>1
<1>12. ASSUME NEW i \in 0..(Span(g.order) - 1), i < Span(x.order)
       PROVE  head'[x.first + i] = head[g.first + i] /\ tail'[x.first + i] = tail[g.first + i]
  <2>1. x.first \in Nat /\ Span(x.order) \in Nat /\ Past(x) = x.first + Span(x.order)
    BY <1>1, SiteIs
  <2>2. g \in Sites
    BY DEF Holds
  <2>3. Span(g.order) \in Nat
    BY <2>2, SiteIs
  <2>4. x.first + i \in Body(x)
    BY <1>12, <2>1, <2>3 DEF Body
  <2>5. x.first + i \in Cover(K)
    BY <2>4, InCover
  <2> QED BY <1>1, <1>10, <2>5
<1>13. Storage!Resize
  BY <1>1, <1>6, <1>8, <1>11, <1>12, ResizeSeen
<1>14. Seen
  BY <1>6, <1>13 DEF Seen, Storage!Next
<1> QED BY <1>6, <1>9, <1>14, LandsIs

\* A call that leaves the pool and what is held as they are.
LEMMA IdleStep ==
  ASSUME Inv, NEW r, r.ret = "success" \/ r.ret = "nomemory", r.pool = pool, Apply(r), held' = held
  PROVE  Inv' /\ Seen
<1>1. PICK L, G : held = HeldOf(G) /\ Sound(pool, L, G, usable)
  BY DEF Inv
<1>2. corrupt = FALSE
  BY DEF Inv
<1>3. PoolShape(pool) /\ pool.head = head /\ pool.tail = tail
  <2>1. PoolShape(pool)
    BY <1>1, SoundGives
  <2> QED BY <2>1 DEF pool
<1>4. /\ pool' = r.pool /\ head' = r.pool.head /\ tail' = r.pool.tail
      /\ usable' = usable /\ corrupt' = FALSE
  BY <1>2, <1>3, ApplyIs
<1>5. pool' = pool /\ head' = head /\ tail' = tail
  BY <1>3, <1>4
<1>6. Lands
  BY <1>1, <1>4, <1>5 DEF Lands
<1>7. UNCHANGED Storage!vars
  BY <1>4, <1>5, StaysPut
<1> QED BY <1>4, <1>6, <1>7, LandsIs DEF Seen

\* VRAMRealloc is a Give, a Resize or nothing.
LEMMA ReallocStep ==
  ASSUME Inv, NEW h \in held, NEW n \in Requests, VRAMRealloc(h, n)
  PROVE  Inv' /\ Seen
<1> DEFINE r == Realloc(pool, h.first, n)
           at == h.first
           j == OrderOf(n)
<1>1. PICK L, G : held = HeldOf(G) /\ Sound(pool, L, G, usable)
  BY DEF Inv
<1>2. h \in HeldOf(G)
  BY <1>1
<1>3. PICK g \in G : Holds(G, g, h)
  BY <1>1, <1>2, HoldsOne
<1>4. h.first = g.first /\ g \in Sites
  BY <1>3 DEF Holds
<1>5. n \in Nat
  BY SizeAssumption
<1>6. Ends(pool, at) # {} /\ SizeOf(pool, at) = g.order
  <2>1. Kept(pool, L, G, {}, usable)
    BY <1>1, SoundGives
  <2>2. Ends(pool, g.first) # {} /\ SizeOf(pool, g.first) = g.order
    BY <2>1, SizeIs
  <2> QED BY <1>4, <2>2
<1>7. Apply(r)
  BY DEF VRAMRealloc
<1>8. held' = IF r.ret # "success" THEN held
              ELSE IF n = 0 THEN held \ {h}
              ELSE (held \ {h}) \cup {HeldRange(r.at, SizeOf(r.pool, r.at))}
  BY DEF VRAMRealloc
<1>9. r = IF n = 0 THEN Free(pool, at)
          ELSE IF Span(g.order) < n THEN Grow(pool, at, g.order, n)
          ELSE IF j >= g.order THEN Success(pool, at)
          ELSE Success(Shrink(pool, at, g.order, j), at)
  BY <1>6 DEF Realloc
<1>10. CASE n = 0
  <2>1. r = Free(pool, h.first)
    BY <1>9, <1>10
  <2>2. FreeGives(pool, Free(pool, g.first), G, g, usable)
    BY <1>1, FreeIs
  <2>3. Free(pool, g.first).ret = "success"
    BY <2>2 DEF FreeGives
  <2>4. r.ret = "success"
    BY <1>4, <2>1, <2>3
  <2> HIDE DEF r
  <2>5. held' = held \ {h}
    BY <1>8, <1>10, <2>4
  <2>6. Apply(Free(pool, h.first))
    BY <1>7, <2>1
  <2> QED BY <2>5, <2>6, FreeStep
<1>11. ASSUME n # 0, Span(g.order) < n PROVE Inv' /\ Seen
  <2> DEFINE y == RangeAt(r.at, j)
  <2>1. r = Grow(pool, g.first, g.order, n)
    BY <1>4, <1>9, <1>11
  <2>2. LET f == Grow(pool, g.first, g.order, n)
        IN  \/ f = Failure("nomemory", pool)
            \/ GrowGives(pool, f, G, g, RangeAt(f.at, OrderOf(n)), usable)
    BY <1>1, <1>5, <1>11, GrowIs
  <2>3. r = Failure("nomemory", pool) \/ GrowGives(pool, r, G, g, y, usable)
    BY <2>1, <2>2
  <2> HIDE DEF r
  <2>4. CASE r = Failure("nomemory", pool)
    <3>1. r.ret = "nomemory" /\ r.pool = pool
      BY <2>4 DEF Failure
    <3>2. held' = held
      BY <1>8, <3>1
    <3> QED BY <1>7, <3>1, <3>2, IdleStep
  <2>5. CASE GrowGives(pool, r, G, g, y, usable)
    <3>1. r.ret = "success" /\ y.first = r.at /\ y.order = j
      BY <2>5 DEF GrowGives, RangeAt
    <3> HIDE DEF y
    <3>2. PICK M : Sound(r.pool, M, (G \ {g}) \cup {y}, usable)
      BY <2>5 DEF GrowGives
    <3>3. SizeOf(r.pool, y.first) = y.order
      <4>1. Kept(r.pool, M, (G \ {g}) \cup {y}, {}, usable)
        BY <3>2 DEF Sound
      <4>2. y \in (G \ {g}) \cup {y}
        OBVIOUS
      <4> QED BY <4>1, <4>2, SizeIs
    <3>4. held' = (held \ {h}) \cup {HeldRange(y.first, y.order)}
      BY <1>8, <1>11, <3>1, <3>3
    <3> QED BY <1>1, <1>3, <1>7, <2>5, <3>4, GrowStep
  <2> QED BY <2>3, <2>4, <2>5
<1>12. ASSUME n # 0, ~(Span(g.order) < n), j >= g.order PROVE Inv' /\ Seen
  <2>1. r = Success(pool, at)
    BY <1>9, <1>12
  <2>2. r.ret = "success" /\ r.pool = pool /\ r.at = at
    BY <2>1 DEF Success
  <2> HIDE DEF r, at
  <2>3. SizeOf(r.pool, r.at) = g.order
    BY <1>6, <2>2
  <2>4. h = HeldRange(g.first, g.order) /\ at = g.first
    BY <1>3, <1>4 DEF Holds, at
  <2>5. held' = (held \ {h}) \cup {h}
    BY <1>8, <1>12, <2>2, <2>3, <2>4
  <2>6. held' = held
    BY <2>5
  <2> QED BY <1>7, <2>2, <2>6, IdleStep
<1>13. ASSUME n # 0, ~(Span(g.order) < n), ~(j >= g.order) PROVE Inv' /\ Seen
  <2> DEFINE x == RangeAt(g.first, j)
  <2>1. j \in Nat /\ g.order \in Nat
    BY <1>4, <1>5, OrderOfFits, SiteIs
  <2>2. j < g.order
    BY <1>13, <2>1
  <2>3. r = Success(Shrink(pool, g.first, g.order, j), g.first)
    BY <1>4, <1>9, <1>13
  <2>4. r.ret = "success" /\ r.pool = Shrink(pool, g.first, g.order, j) /\ r.at = g.first
    BY <2>3 DEF Success
  <2> HIDE DEF r, j
  <2>5. ShrinkGives(pool, Shrink(pool, g.first, g.order, j), G, g, RangeAt(g.first, j), usable)
    BY <1>1, <2>1, <2>2, ShrinkIs
  <2>6. ShrinkGives(pool, r.pool, G, g, x, usable)
    BY <2>4, <2>5
  <2>7. x.first = r.at /\ x.order = j
    BY <2>4 DEF RangeAt
  <2> HIDE DEF x
  <2>8. PICK M : Sound(r.pool, M, (G \ {g}) \cup {x}, usable)
    BY <2>6 DEF ShrinkGives
  <2>9. SizeOf(r.pool, x.first) = x.order
    <3>1. Kept(r.pool, M, (G \ {g}) \cup {x}, {}, usable)
      BY <2>8 DEF Sound
    <3>2. x \in (G \ {g}) \cup {x}
      OBVIOUS
    <3> QED BY <3>1, <3>2, SizeIs
  <2>10. held' = (held \ {h}) \cup {HeldRange(x.first, x.order)}
    BY <1>8, <1>13, <2>4, <2>7, <2>9
  <2> QED BY <1>1, <1>3, <1>7, <2>4, <2>6, <2>10, ShrinkStep
<1> QED BY <1>10, <1>11, <1>12, <1>13

(* Every step keeps the invariant and is a step of the abstract pool or    *)
(* unseen.                                                                 *)
LEMMA NextInv == ASSUME Inv, [Next]_vars PROVE Inv' /\ Seen
<1>1. CASE setupAllocator
  BY <1>1, ReleaseStep
<1>2. ASSUME NEW n \in Requests, VRAMMalloc(n) PROVE Inv' /\ Seen
  BY <1>2, MallocStep
<1>3. ASSUME NEW h \in held, VRAMFree(h) PROVE Inv' /\ Seen
  <2>1. Apply(Free(pool, h.first)) /\ held' = held \ {h}
    BY <1>3 DEF VRAMFree
  <2> QED BY <2>1, FreeStep
<1>4. ASSUME NEW h \in held, Write(h) PROVE Inv' /\ Seen
  BY <1>4, WriteStep
<1>5. ASSUME NEW h \in held, NEW n \in Requests, VRAMRealloc(h, n) PROVE Inv' /\ Seen
  BY <1>5, ReallocStep
<1>6. CASE UNCHANGED vars
  <2>1. UNCHANGED <<map, freeList, freeBytes, head, tail, usable, corrupt, held>>
    BY <1>6 DEF vars
  <2>2. UNCHANGED Storage!vars
    BY <2>1, StaysPut
  <2>3. pool' = pool
    BY <2>1 DEF pool
  <2>4. PICK L, G : held = HeldOf(G) /\ Sound(pool, L, G, usable)
    BY DEF Inv
  <2>5. Lands
    BY <2>1, <2>3, <2>4 DEF Lands
  <2>6. corrupt' = FALSE
    BY <2>1 DEF Inv
  <2> QED BY <2>2, <2>5, <2>6, LandsIs DEF Seen
<1> QED BY <1>1, <1>2, <1>3, <1>4, <1>5, <1>6 DEF Next

-----------------------------------------------------------------------------
\* The halves of a range are ranges, and buddies.
LEMMA HalvesAre ==
  ASSUME NEW r \in Sites, NEW j \in Orders, r.order = j + 1
  PROVE  LET a == RangeAt(r.first, j)
             z == RangeAt(r.first + Span(j), j)
         IN  /\ a \in Sites /\ z \in Sites /\ a.order = j /\ z.order = j /\ Twins(a, z)
             /\ Body(a) \subseteq Body(r) /\ Body(z) \subseteq Body(r)
<1> DEFINE n == Span(j)
           a == RangeAt(r.first, j)
           z == RangeAt(r.first + n, j)
<1>1. /\ r.first \in Nat /\ Aligned(r.first, j + 1) /\ Past(r) = r.first + Span(j + 1)
      /\ Past(r) <= PoolBlocks /\ r.order \in Orders
  BY SiteIs DEF Sited
<1>2. j \in Nat /\ n \in Nat /\ n > 0 /\ Span(j + 1) = 2 * n
  BY BlocksAre, SpanPositive, SpanStep
<1>3. Aligned(r.first, j) /\ Aligned(r.first + n, j)
  <2>1. PICK q \in Nat : r.first = q * Span(j + 1)
    BY <1>1, <1>2, AlignedIs
  <2>2. q * (2 * n) = (2 * q) * n /\ (2 * q) * n + n = (2 * q + 1) * n
    BY <1>2, <2>1
  <2>3. r.first = (2 * q) * n /\ r.first + n = (2 * q + 1) * n
    BY <1>2, <2>1, <2>2
  <2>4. 2 * q \in Nat /\ 2 * q + 1 \in Nat /\ r.first + n \in Nat
    BY <1>1, <1>2, <2>1
  <2>5. Aligned(r.first, j)
    BY <1>1, <1>2, <2>3, <2>4, AlignedIs
  <2>6. Aligned(r.first + n, j)
    BY <1>1, <1>2, <2>3, <2>4, AlignedIs
  <2> QED BY <2>5, <2>6
<1>4. a \in Sites /\ a.first = r.first /\ a.order = j
  <2> HIDE DEF n, a
  <2>1. r.first + n <= PoolBlocks
    BY <1>1, <1>2, SizeAssumption
  <2>2. RangeAt(r.first, j) \in Sites /\ RangeAt(r.first, j).first = r.first /\ RangeAt(r.first, j).order = j
    BY <1>1, <1>3, <2>1, SiteOf DEF n
  <2> QED BY <2>2 DEF a
<1>5. z \in Sites /\ z.first = r.first + n /\ z.order = j
  <2>1. r.first + n \in Nat /\ (r.first + n) + n <= PoolBlocks
    BY <1>1, <1>2
  <2> QED BY <1>3, <2>1, SiteOf
<1>6. Past(a) = r.first + n /\ Past(z) = Past(r)
  BY <1>1, <1>2, <1>4, <1>5 DEF Past
<1> HIDE DEF a, z, n
<1>7. Twins(a, z)
  BY <1>1, <1>4, <1>5, <1>6 DEF Twins
<1>8. Body(a) \subseteq Body(r)
  BY <1>1, <1>2, <1>4, <1>6, InBody
<1>9. Body(z) \subseteq Body(r)
  BY <1>1, <1>2, <1>5, <1>6, InBody
<1> QED BY <1>4, <1>5, <1>7, <1>8, <1>9 DEF a, z, n

(* When no two buddies are free apart, a range whose blocks are all free   *)
(* meets a free range that is no smaller.                                  *)
LEMMA OneHoldsAll ==
  ASSUME NEW S \in SUBSET Sites, Merged(S), NEW r \in Sites, Body(r) \subseteq Cover(S)
  PROVE  \E s \in S : r.order <= s.order
<1> DEFINE Inside(x) == x \in Sites /\ Body(x) \subseteq Cover(S)
           Short(x) == \A s \in S : Meet(x, s) => s.order < x.order
           Bad == {k \in Nat : \E x \in Sites : x.order = k /\ Inside(x) /\ Short(x)}
<1>1. Bad = {}
  <2> SUFFICES ASSUME Bad # {} PROVE FALSE
    OBVIOUS
  <2>1. PICK k \in Bad : \A i \in Bad : k <= i
    <3>1. Bad \subseteq Nat
      OBVIOUS
    <3> HIDE DEF Bad
    <3> QED BY <3>1, LeastOf
  <2>2. PICK x \in Sites : x.order = k /\ Inside(x) /\ Short(x)
    OBVIOUS
  <2>3. k \in Nat /\ k \in Orders
    BY <2>2, SiteIs
  <2>4. k # 0
    <3>1. x.first \in Body(x)
      BY SiteIs
    <3>2. PICK s \in S : x.first \in Body(s)
      BY <2>2, <3>1, InCover
    <3>3. Meet(x, s)
      BY <3>1, <3>2 DEF Meet
    <3>4. s.order < k
      BY <2>2, <3>3
    <3>5. s.order \in Nat
      BY SiteIs
    <3> QED BY <3>4, <3>5
  <2> DEFINE j == k - 1
             a == RangeAt(x.first, j)
             z == RangeAt(x.first + Span(j), j)
  <2>5. j \in Nat /\ j \in Orders /\ x.order = j + 1 /\ j \notin Bad
    <3>1. j \in Nat /\ x.order = j + 1 /\ ~(k <= j)
      BY <2>2, <2>3, <2>4
    <3>2. j \in Orders
      BY <2>3, <3>1, SizeAssumption DEF Orders
    <3> QED BY <2>1, <3>1, <3>2
  <2> HIDE DEF j
  <2>6. /\ a \in Sites /\ z \in Sites /\ a.order = j /\ z.order = j /\ Twins(a, z)
        /\ Body(a) \subseteq Body(x) /\ Body(z) \subseteq Body(x)
    BY <2>5, HalvesAre
  <2> HIDE DEF a, z
  <2>7. ASSUME NEW y \in Sites, y.order = j, Body(y) \subseteq Body(x) PROVE y \in S
    <3>1. Inside(y)
      BY <2>2, <2>7
    <3>2. ~Short(y)
      BY <2>5, <2>7, <3>1
    <3>3. PICK s \in S : Meet(y, s) /\ ~(s.order < j)
      BY <2>7, <3>2
    <3>4. Meet(x, s)
      BY <2>7, <3>3 DEF Meet
    <3>5. s.order < k /\ s.order \in Nat
      BY <2>2, <3>4, SiteIs
    <3>6. s.order = j
      BY <2>3, <2>5, <3>3, <3>5 DEF j
    <3>7. s = y
      BY <2>7, <3>3, <3>6, MeetSame
    <3> QED BY <3>7
  <2>8. a \in S /\ z \in S
    BY <2>6, <2>7
  <2>9. j + 1 \notin Orders
    BY <2>6, <2>8 DEF Merged
  <2> QED BY <2>2, <2>3, <2>5, <2>9
<1>2. r.order \in Nat /\ r.order \notin Bad
  BY <1>1, SiteIs
<1>3. ~Short(r)
  BY <1>2
<1>4. PICK s \in S : ~(s.order < r.order)
  BY <1>3
<1>5. s.order \in Nat
  BY SiteIs
<1> QED BY <1>2, <1>4, <1>5

(* BuddyMalloc succeeds when an aligned run of free blocks is large        *)
(* enough.                                                                 *)
LEMMA CompleteIs ==
  ASSUME NEW p, NEW L, NEW G, NEW U, Sound(p, L, G, U), NEW k \in Orders, NEW b \in Blocks,
         Aligned(b, k), b..(b + Span(k) - 1) \subseteq Cover(Listed(L))
  PROVE  BuddyMalloc(p, k).ret = "success"
<1> DEFINE r == RangeAt(b, k)
           S == Listed(L)
<1>1. b \in Nat /\ k \in Nat /\ PoolBlocks \in Nat /\ Span(k) \in Nat /\ Span(k) > 0
  BY BlocksAre, SpanPositive
<1>2. S \subseteq Sites /\ Merged(S) /\ Listing(p, L) /\ Counts(p, L) /\ U \subseteq Blocks
  BY SoundGives
<1>3. Cover(S) \in SUBSET Blocks
  <2>1. \A s \in S : Body(s) \subseteq Blocks
    BY <1>2, SiteIs
  <2> QED BY <2>1 DEF Cover
<1>4. b + Span(k) <= PoolBlocks
  <2>1. b + Span(k) - 1 \in b..(b + Span(k) - 1)
    BY <1>1
  <2>2. b + Span(k) - 1 \in 0..(PoolBlocks - 1)
    BY <1>3, <2>1, BlocksAre
  <2> QED BY <1>1, <2>2
<1>5. r \in Sites /\ r.first = b /\ r.order = k
  BY <1>1, <1>4, SiteOf
<1>6. Body(r) = b..(b + Span(k) - 1)
  BY <1>1, <1>5 DEF Body, Past
<1> HIDE DEF r, S
<1>7. Body(r) \subseteq Cover(S)
  BY <1>6 DEF S
<1>8. PICK s \in S : k <= s.order
  BY <1>2, <1>5, <1>7, OneHoldsAll
<1>9. s.order \in Larger(p, k)
  <2>1. /\ s.first \in Blocks /\ s.order \in Orders
        /\ \E i \in 1..Len(L[s.order]) : L[s.order][i] = s.first
    BY <1>8 DEF S, Listed
  <2>2. L[s.order] \in Seq(Blocks) /\ p.freeList[s.order] = Leader(L[s.order])
    BY <1>2, <2>1 DEF Listing, Chain
  <2>3. Len(L[s.order]) \in Nat /\ Len(L[s.order]) # 0 /\ 1 \in 1..Len(L[s.order])
    BY <2>1, <2>2
  <2>4. p.freeList[s.order] = L[s.order][1] /\ L[s.order][1] \in Blocks
    BY <2>2, <2>3 DEF Leader
  <2>5. s.order \in Nat
    BY <2>1, BlocksAre
  <2> QED BY <1>1, <1>8, <2>1, <2>4, <2>5, NullAssumption DEF Larger
<1>10. ~(p.freeBytes < Span(k))
  <2>1. p.freeBytes = Cardinality(Cover(S))
    BY <1>2 DEF Counts, S
  <2>2. IsFiniteSet(Cover(S)) /\ Cardinality(Cover(S)) \in Nat
    BY <1>3, BlocksFinite
  <2>3. Cardinality(Body(r)) <= Cardinality(Cover(S))
    BY <1>7, <2>2, FS_Subset
  <2>4. Cardinality(Body(r)) = Span(k)
    BY <1>5, BodySize
  <2> QED BY <1>1, <2>1, <2>2, <2>3, <2>4
<1>11. Allotted(p, G, U, k, BuddyMalloc(p, k))
  <2>1. IF p.freeBytes < Span(k) \/ Larger(p, k) = {}
           THEN BuddyMalloc(p, k) = Failure("nomemory", p)
           ELSE Allotted(p, G, U, k, BuddyMalloc(p, k))
    BY <1>1, MallocIs
  <2> QED BY <1>9, <1>10, <2>1
<1> QED BY <1>11 DEF Allotted

\* The invariant gives the three properties.
LEMMA InvGives == Inv => NeverCorrupt /\ NothingLost /\ MallocComplete
<1> SUFFICES ASSUME Inv PROVE NeverCorrupt /\ NothingLost /\ MallocComplete
  OBVIOUS
<1>1. PICK L, G : held = HeldOf(G) /\ Sound(pool, L, G, usable)
  BY DEF Inv
<1>2. NeverCorrupt
  <2>1. Check(pool)
    BY <1>1, CheckIs
  <2>2. ~corrupt
    BY DEF Inv
  <2> QED BY <2>1, <2>2 DEF NeverCorrupt
<1>3. /\ Listing(pool, L) /\ Counts(pool, L) /\ G \in SUBSET Sites
      /\ Tiling(Listed(L) \cup G, usable) /\ Listed(L) \cap G = {}
  BY <1>1, SoundGives
<1>4. FreeBlocks = Cover(Listed(L))
  BY <1>3, FreeBlocksAre
<1>5. HeldBlocks = Cover(G)
  <2>1. Storage!Covered(HeldOf(G)) = Cover(G)
    BY <1>3, CoveredIs
  <2> QED BY <1>1, <2>1, HeldBlocksAre
<1>6. NothingLost
  <2>1. Cover(Listed(L) \cup G) = usable
    BY <1>3 DEF Tiling
  <2>2. Cover(Listed(L) \cup G) = Cover(Listed(L)) \cup Cover(G)
    BY CoverOfTwo
  <2>3. ASSUME NEW b \in Cover(G), b \in Cover(Listed(L)) PROVE FALSE
    <3>1. PICK r \in G : b \in Body(r)
      BY InCover
    <3>2. PICK s \in Listed(L) : b \in Body(s)
      BY <2>3, InCover
    <3>3. Meet(r, s)
      BY <3>1, <3>2 DEF Meet
    <3>4. r = s
      BY <1>3, <3>3 DEF Tiling
    <3> QED BY <1>3, <3>1, <3>2, <3>4
  <2>4. freeBytes = Cardinality(Cover(Listed(L)))
    <3>1. pool.freeBytes = freeBytes
      BY DEF pool
    <3> QED BY <1>3, <3>1 DEF Counts
  <2> QED BY <1>4, <1>5, <2>1, <2>2, <2>3, <2>4 DEF NothingLost
<1>7. MallocComplete
  <2>1. ASSUME NEW k \in Orders, NEW b \in Blocks, Aligned(b, k), b..(b + Span(k) - 1) \subseteq FreeBlocks
        PROVE  BuddyMalloc(pool, k).ret = "success"
    <3>1. b..(b + Span(k) - 1) \subseteq Cover(Listed(L))
      BY <1>4, <2>1
    <3> QED BY <1>1, <2>1, <3>1, CompleteIs
  <2> QED BY <2>1 DEF MallocComplete
<1> QED BY <1>2, <1>6, <1>7

(* The allocator's records are sound between any two calls: the free lists *)
(* hold ranges that, with the busy ones, tile the released blocks; the     *)
(* bitmap marks the ends of busy ranges only; twins are merged; freeBytes  *)
(* counts the free blocks.                                                 *)
THEOREM InvHolds == Spec => []Inv
<1>1. Init => Inv
  BY InitInv
<1>2. Inv /\ [Next]_vars => Inv'
  BY NextInv
<1> QED BY <1>1, <1>2, PTL DEF Spec

(* No sequence of legal calls, whatever callers write into what they hold, *)
(* makes Malloc, Realloc or Free report corruption or a bad pointer, and   *)
(* the allocator's own Check succeeds between any two calls.               *)
THEOREM NeverCorruptHolds == Spec => []NeverCorrupt
<1>1. Inv => NeverCorrupt
  BY InvGives
<1> QED BY <1>1, InvHolds, PTL

(* Malloc, Realloc, Free and setupAllocator neither lose a block nor give  *)
(* it out twice, and freeBytes counts the free ones.                       *)
THEOREM NothingLostHolds == Spec => []NothingLost
<1>1. Inv => NothingLost
  BY InvGives
<1> QED BY <1>1, InvHolds, PTL

(* BuddyMalloc fails only when no aligned run of free blocks is as large   *)
(* as the request: Free merges buddies as far as they go.                  *)
THEOREM MallocCompleteHolds == Spec => []MallocComplete
<1>1. Inv => MallocComplete
  BY InvGives
<1> QED BY <1>1, InvHolds, PTL

(* The buddy system implements the pool of storage its callers see: ranges *)
(* apart, each with its contents until its holder writes, resizes or frees *)
(* it.                                                                     *)
THEOREM ImplementsStorage == Spec => StorageRefinement
<1>1. Init => Storage!Init
  BY InitInv
<1>2. Inv /\ [Next]_vars => [Storage!Next]_(Storage!vars)
  BY NextInv DEF Seen
<1> QED BY <1>1, <1>2, InvHolds, PTL DEF Spec, Storage!Spec, StorageRefinement

(* Between any two calls the bitmap operations are exact: clearAll clears  *)
(* the bits of its range and no bit of a neighbour in the same byte, and   *)
(* testAll and testAny raise no false alarm.                               *)
THEOREM BitmapStaysExact == Spec => []BitmapExact
<1>1. BitmapExact
  BY RangeOps, SizeAssumption DEF BitmapExact, Ranges
<1> QED
  BY <1>1, PTL
=============================================================================
