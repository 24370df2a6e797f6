------------------------------ MODULE BitRange ------------------------------
(***************************************************************************)
(* The bitmap operations of VMsvga2Allocator.cpp, as operators on the set  *)
(* of the bits that are 1.  A range of bits is handled as single bits up   *)
(* to a byte boundary, whole bytes, and single bits again.  The byte scans *)
(* are a "repe scasb", which stops after the first byte that differs and   *)
(* tells by what is left of the count whether there was one.               *)
(***************************************************************************)
EXTENDS Naturals

CONSTANT ByteBits   \* 8 in the code

ASSUME ByteAssumption == ByteBits \in Nat \ {0}

(* (bit + 7) & ~7, bit & ~7 *)
FirstFull(firstBit) == ((firstBit + ByteBits - 1) \div ByteBits) * ByteBits
PastFull(pastBit) == (pastBit \div ByteBits) * ByteBits

Least(a, b) == IF a < b THEN a ELSE b
Most(a, b) == IF a > b THEN a ELSE b

(* The single bits before and after the whole bytes, and those bytes. *)
BitsBefore(first, past) == first .. (Least(past, FirstFull(first)) - 1)
WholeBytes(first, past) == (FirstFull(first) \div ByteBits) .. ((PastFull(past) \div ByteBits) - 1)

\* Faulty variant: the bits after the last whole byte start at that byte's end
\* even when the range lies within one byte.
BitsAfterUnclipped(first, past) == PastFull(past) .. (past - 1)

BitsAfter(first, past) == Most(PastFull(past), Least(past, FirstFull(first))) .. (past - 1)

BitsOf(byte) == (byte * ByteBits) .. (byte * ByteBits + ByteBits - 1)

(* "repe scasb" leaves a count of 0 when all bytes are equal, and also     *)
(* when the last one is the first that differs: what it can tell apart.    *)
Scanned(bytes) == {i \in bytes : i + 1 \in bytes}

memAll(bits, bytes) == \A i \in Scanned(bytes) : BitsOf(i) \subseteq bits
memAny(bits, bytes) == \E i \in Scanned(bytes) : BitsOf(i) \cap bits # {}

testAll(bits, first, past) ==
  /\ BitsBefore(first, past) \subseteq bits
  /\ memAll(bits, WholeBytes(first, past))
  /\ BitsAfter(first, past) \subseteq bits

testAny(bits, first, past) ==
  \/ BitsBefore(first, past) \cap bits # {}
  \/ memAny(bits, WholeBytes(first, past))
  \/ BitsAfter(first, past) \cap bits # {}

(* The map clearAll leaves. *)
clearAll(bits, first, past) ==
  bits \ (BitsBefore(first, past) \cup (UNION {BitsOf(i) : i \in WholeBytes(first, past)})
            \cup BitsAfter(first, past))
=============================================================================
