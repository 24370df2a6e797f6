--------------------------- MODULE SVGAFifoProofs ---------------------------
(***************************************************************************)
(* For every ring, bounce buffer, set of threads and set of commands that  *)
(* the assumptions of SVGAFifo allow: reservations fit (FifoInv), a write  *)
(* to SYNC is skipped only where it is not needed (BellInv), fences pass   *)
(* in their order (FenceInv), and the FIFO is a queue (QueueInv).          *)
(***************************************************************************)
EXTENDS SVGAFifo, SequenceTheorems, TLAPS

USE RingAssumption DEF RingSize

-----------------------------------------------------------------------------
(* Facts about commands and slots. *)

(* A command has at least one dword, and is not the mark for "none". *)
LEMMA CommandLength == \A c \in Command : c.n \in Nat \ {0} /\ c # Nothing
<1>1. ASSUME NEW c \in Command PROVE c.n \in Nat \ {0}
  <2>1. CASE c \in [op : {"cmd"}, val : Payloads, n : Sizes]
    BY <2>1, CommandAssumption
  <2>2. CASE c \in [op : {"fence"}, val : Fences, n : {2}]
    BY <2>2
  <2> QED
    BY <2>1, <2>2 DEF Command
<1>2. \A c \in Command : c # Nothing
  BY NothingAssumption
<1> QED
  BY <1>1, <1>2

(* The commands FIFOReserve and InsertFence build are commands. *)
LEMMA BuiltCommands ==
  /\ \A n \in Sizes, p \in Payloads : [op |-> "cmd", val |-> p, n |-> n] \in Command
  /\ \A f \in Fences : [op |-> "fence", val |-> f, n |-> 2] \in Command
BY DEF Command

(* The number of a fence command is a fence number. *)
LEMMA FenceValue == \A c \in Command : c.op = "fence" => c.val \in Fences
BY DEF Command

(* InsertFence hands out fence numbers, and advances to another one. *)
LEMMA NextFenceType ==
  ASSUME m_next_fence \in Fences
  PROVE  NextFence \in Fences /\ (NextFence + 1) % FenceMod \in Fences
<1>1. FenceMod \in Nat /\ FenceMod > 2
  BY CommandAssumption
<1>2. NextFence \in Fences
  BY <1>1 DEF NextFence, Fences
<1>3. \A x \in Nat : x % FenceMod \in 0..(FenceMod - 1)
  BY <1>1, SMT
<1>4. NextFence + 1 \in Nat
  BY <1>1, <1>2 DEF Fences
<1>5. QED
  BY <1>2, <1>3, <1>4 DEF Fences

(* Wrapping a position keeps it in the ring. *)
LEMMA SlotInRing ==
  ASSUME NEW a \in Min..(Max - 1), NEW i \in Nat, i <= RingSize
  PROVE  Slot(a, i) \in Min..(Max - 1)
BY DEF Slot

(* The dwords of a command are dwords. *)
LEMMA DwordType == \A c \in Command, k \in Nat \ {0} : Dword(c, k) \in Dwords
BY DEF Dword, Dwords

(* A command laid out in the bounce buffer is a sequence of dwords. *)
LEMMA BounceType == \A c \in Command : [k \in 1..c.n |-> Dword(c, k)] \in Seq(Dwords)
<1> SUFFICES ASSUME NEW c \in Command
             PROVE  [k \in 1..c.n |-> Dword(c, k)] \in Seq(Dwords)
  OBVIOUS
<1>1. c.n \in Nat
  BY CommandLength
<1>2. ASSUME NEW k \in 1..c.n PROVE Dword(c, k) \in Dwords
  BY <1>1, DwordType
<1>3. [k \in 1..c.n |-> Dword(c, k)] \in [1..c.n -> Dwords]
  BY <1>2
<1>4. Seq(Dwords) = UNION {[1..n -> Dwords] : n \in Nat}
  BY SeqDef, Zenon
<1> QED
  BY <1>1, <1>3, <1>4

(* Storing a command keeps the ring a ring. *)
LEMMA StoredType ==
  ASSUME mem \in [Min..(Max - 1) -> Dwords \cup {Free}],
         NEW a \in Min..(Max - 1), NEW c \in Command, NEW k \in Nat
  PROVE  Stored(a, c, k) \in [Min..(Max - 1) -> Dwords \cup {Free}]
<1>1. ASSUME NEW s \in Min..(Max - 1)
      PROVE  (LET d == IF s >= a THEN s - a ELSE s + RingSize - a
              IN  IF d < k THEN Dword(c, d + 1) ELSE mem[s]) \in Dwords \cup {Free}
  <2> DEFINE d == IF s >= a THEN s - a ELSE s + RingSize - a
  <2>1. d + 1 \in Nat \ {0}
    OBVIOUS
  <2>2. Dword(c, d + 1) \in Dwords
    BY <2>1, DwordType
  <2>3. mem[s] \in Dwords \cup {Free}
    OBVIOUS
  <2> QED
    BY <2>2, <2>3
<1> QED
  BY <1>1 DEF Stored

(* The dwords in the ring: at most all but one. *)
LEMMA UsedRange ==
  ASSUME next_cmd \in Min..(Max - 1), stop \in Min..(Max - 1)
  PROVE  Used \in 0..(RingSize - 1)
BY DEF Used

(* Moving NEXT_CMD over n dwords that fit adds n dwords to the ring. *)
LEMMA UsedAfterPublish ==
  ASSUME next_cmd \in Min..(Max - 1), stop \in Min..(Max - 1),
         NEW n \in Nat, Used + n < RingSize,
         next_cmd' = Slot(next_cmd, n), stop' = stop
  PROVE  Used' = Used + n
BY DEF Used, Slot

(* Reading the dword at STOP takes one from the ring. *)
LEMMA UsedAfterRead ==
  ASSUME next_cmd \in Min..(Max - 1), stop \in Min..(Max - 1), stop # next_cmd,
         next_cmd' = next_cmd, stop' = Slot(stop, 1)
  PROVE  Used' = Used - 1
BY DEF Used, Slot

(* The two ways FIFOReserve finds room leave a dword free. *)
LEMMA RoomFound ==
  ASSUME next_cmd \in Min..(Max - 1), stop \in Min..(Max - 1), NEW n \in Nat
  PROVE  /\ FitsInPlace(n) => Used + n < RingSize /\ next_cmd + n <= Max
         /\ ~FitsInPlace(n) /\ ~NoRoom(n) => Used + n < RingSize
BY DEF Used, FitsInPlace, NoRoom

(* What Finish leaves in the callers' fences. *)
LEMMA FenceFinished ==
  ASSUME NEW t \in Threads, NEW u \in Nat, Finish(t, u), cmd \in Command,
         held_fence \in [Threads -> Fences], behind \in [Threads -> Nat]
  PROVE  held_fence' \in [Threads -> Fences] /\ behind' \in [Threads -> Nat]
<1>1. CASE cmd.op = "fence"
  <2>1. cmd.val \in Fences
    BY <1>1, FenceValue
  <2> QED
    BY <1>1, <2>1 DEF Finish
<1>2. CASE cmd.op # "fence"
  BY <1>2 DEF Finish, fences
<1> QED
  BY <1>1, <1>2

-----------------------------------------------------------------------------
LEMMA InitInv == Init => FifoInv
<1> SUFFICES ASSUME Init PROVE FifoInv
  OBVIOUS
<1> USE DEF Init
<1>1. TypeOK
  <2>1. 0 \in Fences /\ 1 \in Fences
    BY CommandAssumption DEF Fences
  <2>2. <<>> \in Seq(Dwords)
    OBVIOUS
  <2>3. mem \in [Min..(Max - 1) -> Dwords \cup {Free}] /\ Min \in Min..(Max - 1)
    OBVIOUS
  <2>4. pc \in [Threads -> Steps]
    BY DEF Steps
  <2>5. held_fence \in [Threads -> Fences] /\ behind \in [Threads -> Nat]
    BY <2>1
  <2> QED
    BY <2>1, <2>2, <2>3, <2>4, <2>5 DEF TypeOK
<1>2. NoStrayReservation
  BY CommandAssumption DEF NoStrayReservation
<1>3. RoomReserved /\ BuildingOK
  BY CommandAssumption DEF RoomReserved, BuildingOK
<1> QED
  BY <1>1, <1>2, <1>3 DEF FifoInv

(* Every step keeps the type invariant. *)
LEMMA NextType == FifoInv /\ [Next]_vars => TypeOK'
<1> SUFFICES ASSUME FifoInv, [Next]_vars PROVE TypeOK'
  OBVIOUS
<1> USE DEF FifoInv, TypeOK, Steps, Transition, regs, driver, fences, CapBusy
<1>0. Used \in 0..(RingSize - 1)
  BY UsedRange
<1>1. ASSUME NEW t \in Threads, FIFOReserve(t) PROVE TypeOK'
  <2>1. PICK n \in Sizes, p \in Payloads :
          m_reserved_size' = n /\ cmd' = [op |-> "cmd", val |-> p, n |-> n]
    BY <1>1 DEF FIFOReserve
  <2>2. cmd' \in Command /\ n \in Nat
    BY <2>1, BuiltCommands, CommandAssumption
  <2> QED
    BY <1>1, <2>1, <2>2 DEF FIFOReserve
<1>2. ASSUME NEW t \in Threads, InsertFence(t) PROVE TypeOK'
  <2>1. cmd' \in Command /\ m_next_fence' \in Fences
    BY <1>2, NextFenceType, BuiltCommands DEF InsertFence
  <2> QED
    BY <1>2, <2>1 DEF InsertFence
<1>3. ASSUME NEW t \in Threads, InsertFenceNoCap(t) PROVE TypeOK'
  <2>1. 1 \in Fences
    BY CommandAssumption DEF Fences
  <2> QED
    BY <1>0, <1>3, <2>1 DEF InsertFenceNoCap
<1>4. ASSUME NEW t \in Threads, ReserveInPlace(t) PROVE TypeOK'
  BY <1>4 DEF ReserveInPlace
<1>5. ASSUME NEW t \in Threads,
             ReserveBounce(t) \/ FIFOFull(t) \/ ReserveAgain(t)
      PROVE  TypeOK'
  BY <1>5 DEF ReserveBounce, FIFOFull, ReserveAgain
<1>6. ASSUME NEW t \in Threads, Fill(t) PROVE TypeOK'
  <2>1. cmd \in Command /\ cmd.n \in Nat
    BY <1>6, CommandLength DEF Fill, BuildingOK
  <2>2. [k \in 1..cmd.n |-> Dword(cmd, k)] \in Seq(Dwords)
    BY <2>1, BounceType
  <2>3. Stored(next_cmd, cmd, cmd.n) \in [Min..(Max - 1) -> Dwords \cup {Free}]
    BY <2>1, StoredType
  <2> QED
    BY <1>6, <2>2, <2>3 DEF Fill
<1>7. ASSUME NEW t \in Threads, FIFOCommitNothing(t) PROVE TypeOK'
  BY <1>7 DEF FIFOCommitNothing
<1>8. ASSUME NEW t \in Threads, CopyChunks(t) PROVE TypeOK'
  <2>1. cmd \in Command /\ cmd.n \in Nat
    BY <1>8, CommandLength DEF CopyChunks, BuildingOK
  <2>2. Stored(next_cmd, cmd, cmd.n) \in [Min..(Max - 1) -> Dwords \cup {Free}]
    BY <2>1, StoredType
  <2> QED
    BY <1>8, <2>1, <2>2 DEF CopyChunks
<1>9. ASSUME NEW t \in Threads, CommitInPlace(t) \/ CommitDwords(t) PROVE TypeOK'
  <2>1. /\ UNCHANGED <<regs, busy, m_using_bounce_buffer, m_next_fence, bounce, cmd, copied,
                       m_iolock, fences>>
        /\ m_reserved_size' = 0
        /\ pc' \in [Threads -> Steps]
    BY <1>9 DEF CommitInPlace, CommitDwords
  <2> QED
    BY <2>1
<1>10. ASSUME NEW t \in Threads, Publish(t) PROVE TypeOK'
  <2>1. cmd \in Command /\ cmd.n \in Nat /\ cmd.n <= RingSize
    BY <1>10, CommandLength DEF Publish, BuildingOK
  <2>2. next_cmd' \in Min..(Max - 1)
    BY <1>10, <2>1, SlotInRing DEF Publish
  <2>3. held_fence' \in [Threads -> Fences] /\ behind' \in [Threads -> Nat]
    BY <1>0, <1>10, <2>1, FenceFinished, SMTT(60) DEF Publish
  <2> QED
    BY <1>10, <2>2, <2>3 DEF Publish, Finish
<1>11. ASSUME NEW t \in Threads, CopyDword(t) PROVE TypeOK'
  <2>1. cmd \in Command /\ copied \in Nat /\ copied < cmd.n /\ cmd.n \in Nat
        /\ bounce = [k \in 1..cmd.n |-> Dword(cmd, k)]
    BY <1>11, CommandLength DEF CopyDword, BuildingOK
  <2>2. bounce[copied + 1] \in Dwords
    BY <2>1, DwordType
  <2>3. mem' \in [Min..(Max - 1) -> Dwords \cup {Free}]
    BY <1>11, <2>2 DEF CopyDword
  <2>4. next_cmd' \in Min..(Max - 1)
    BY <1>11, SlotInRing DEF CopyDword
  <2>6. CASE copied + 1 = cmd.n
    <3>1. bounce' = <<>> /\ copied' = 0 /\ cmd' = Nothing /\ pc' \in [Threads -> Steps]
      BY <1>11, <2>6 DEF CopyDword, Finish
    <3>2. held_fence' \in [Threads -> Fences] /\ behind' \in [Threads -> Nat]
      <4>1. Finish(t, Used + 1)
        BY <1>11, <2>6 DEF CopyDword
      <4>2. Used + 1 \in Nat
        BY <1>0
      <4> QED
        BY <2>1, <4>1, <4>2, FenceFinished
    <3> QED
      BY <1>11, <2>3, <2>4, <3>1, <3>2, SMTT(60) DEF CopyDword
  <2>7. CASE copied + 1 # cmd.n
    <3>1. copied' \in Nat /\ UNCHANGED <<bounce, cmd, pc, held_fence, behind>>
      BY <1>11, <2>1, <2>7 DEF CopyDword
    <3>2. fifo_busy' \in BOOLEAN /\ busy' \in BOOLEAN /\ m_using_bounce_buffer' \in BOOLEAN
      BY <1>11 DEF CopyDword
    <3>3. UNCHANGED <<caps, stop, reserved, fence, m_reserved_size, m_next_fence, m_iolock>>
      BY <1>11 DEF CopyDword
    <3> QED
      <4>1. bounce' \in Seq(Dwords) /\ cmd' \in Command \cup {Nothing}
        BY <3>1
      <4> QED
        BY <2>3, <2>4, <3>1, <3>2, <3>3, <4>1
  <2> QED
    BY <2>6, <2>7
<1>12. ASSUME NEW t \in Threads, ForgetFence(t) PROVE TypeOK'
  <2>1. 0 \in Fences
    BY CommandAssumption DEF Fences
  <2> QED
    BY <1>12, <2>1 DEF ForgetFence
<1>13. CASE DeviceRead
  <2>1. fence' \in Fences
    <3>1. mem[stop] \in Dwords \cup {Free}
      OBVIOUS
    <3>2. mem[stop] # Free => mem[stop].cmd \in Command
      BY <3>1 DEF Dwords
    <3> QED
      BY <1>13, <3>2, FenceValue DEF DeviceRead
  <2>2. stop' \in Min..(Max - 1)
    BY <1>13, SlotInRing DEF DeviceRead
  <2>3. behind' \in [Threads -> Nat]
    BY <1>13 DEF DeviceRead
  <2> QED
    BY <1>13, <2>1, <2>2, <2>3 DEF DeviceRead
<1>14. CASE DeviceSleep \/ DevicePoll
  <2>1. busy' \in BOOLEAN /\ fifo_busy' \in BOOLEAN
    <3>1. CapBusy \in BOOLEAN
      OBVIOUS
    <3>2. busy' \in BOOLEAN
      BY <1>14 DEF DeviceSleep, DevicePoll
    <3>3. fifo_busy' = FALSE \/ fifo_busy' = CapBusy
      BY <1>14, Zenon DEF DeviceSleep, DevicePoll
    <3> QED
      BY <3>1, <3>2, <3>3
  <2>2. UNCHANGED <<caps, mem, next_cmd, stop, reserved, fence, driver, m_iolock, pc, fences>>
    BY <1>14 DEF DeviceSleep, DevicePoll
  <2>3. m_using_bounce_buffer' \in BOOLEAN
    BY <2>2
  <2> QED
    BY <2>1, <2>2, <2>3
<1>15. ASSUME NEW t \in Threads,
              lockDevice(t) \/ unlockDevice(t) \/ SyncToFencePassed(t) \/ SyncToFenceBegin(t)
                \/ SyncToFenceEnd(t) \/ SyncFIFOBegin(t) \/ SyncFIFOEnd(t) \/ SetMode(t)
       PROVE  TypeOK'
  BY <1>15 DEF lockDevice, unlockDevice, SyncToFencePassed, SyncToFenceBegin, SyncToFenceEnd,
               SyncFIFOBegin, SyncFIFOEnd, SetMode
<1>16. ASSUME NEW t \in Threads,
              RingDoorBell(t) \/ RingDoorBellNoCap(t) \/ RaiseBusy(t) \/ WriteSync(t)
                \/ RingDone(t)
       PROVE  TypeOK'
  BY <1>16 DEF RingDoorBell, RingDoorBellNoCap, RaiseBusy, WriteSync, RingDone
<1>17. CASE UNCHANGED vars
  BY <1>17 DEF vars
<1> QED
  BY <1>1, <1>2, <1>3, <1>4, <1>5, <1>6, <1>7, <1>8, <1>9, <1>10, <1>11, <1>12, <1>13,
     <1>14, <1>15, <1>16, <1>17 DEF Next, Calling, Running, Device

(* A thread inside a call is the only one: the others are idle. *)
LEMMA Alone ==
  ASSUME NoStrayReservation
  PROVE  \A t \in Threads :
           pc[t] # "idle" =>
             m_iolock = t /\ m_iolock # NoThread /\ \A s \in Threads \ {t} : pc[s] = "idle"
BY CommandAssumption DEF NoStrayReservation

(* Every step keeps the rest of the invariant.  The step that disturbs it  *)
(* is a step of the lock holder: every other thread is idle, and what is   *)
(* left to show is about that thread; the device only makes room.          *)
LEMMA NextRest ==
  FifoInv /\ [Next]_vars => NoStrayReservation' /\ RoomReserved' /\ BuildingOK'
<1> DEFINE Rest == NoStrayReservation /\ RoomReserved /\ BuildingOK
<1> SUFFICES ASSUME FifoInv, [Next]_vars PROVE Rest'
  OBVIOUS
<1> USE DEF FifoInv, TypeOK, Transition, regs, driver, fences, CapReserve
<1>0. \A t \in Threads :
        pc[t] # "idle" =>
          m_iolock = t /\ m_iolock # NoThread /\ \A s \in Threads \ {t} : pc[s] = "idle"
  BY Alone
<1> USE <1>0 DEF NoStrayReservation, RoomReserved, BuildingOK
<1>1. ASSUME NEW t \in Threads, FIFOReserve(t) PROVE Rest'
  <2>1. PICK n \in Sizes, p \in Payloads :
          CanReserve(n) /\ m_reserved_size' = n /\ cmd' = [op |-> "cmd", val |-> p, n |-> n]
    BY <1>1 DEF FIFOReserve
  <2>2. cmd' \in Command /\ cmd'.n = n /\ n \in Nat /\ n <= RingSize
    BY <2>1, BuiltCommands, CommandAssumption DEF CanReserve
  <2>3. pc[t] = "locked" /\ pc' = [pc EXCEPT ![t] = "reserve"]
    BY <1>1 DEF FIFOReserve
  <2>4. UNCHANGED <<reserved, copied, m_iolock>>
    BY <1>1 DEF FIFOReserve
  <2> QED
    BY <2>1, <2>2, <2>3, <2>4
<1>2. ASSUME NEW t \in Threads, InsertFence(t) PROVE Rest'
  <2>1. cmd' \in Command /\ cmd'.n = 2 /\ m_reserved_size' = 2 /\ 2 <= RingSize
    BY <1>2, NextFenceType, BuiltCommands DEF InsertFence
  <2>2. pc[t] = "locked" /\ pc' = [pc EXCEPT ![t] = "reserve"]
    BY <1>2 DEF InsertFence
  <2>3. UNCHANGED <<reserved, copied, m_iolock>>
    BY <1>2 DEF InsertFence
  <2> QED
    BY <2>1, <2>2, <2>3
<1>4. ASSUME NEW t \in Threads, ReserveInPlace(t) PROVE Rest'
  <2>1. pc[t] = "reserve" /\ pc' = [pc EXCEPT ![t] = "fill"]
    BY <1>4 DEF ReserveInPlace
  <2>2. cmd \in Command /\ cmd.n \in Nat /\ m_reserved_size = cmd.n /\ copied = 0 /\ reserved = 0
        /\ cmd.n <= RingSize
    BY <2>1, CommandLength
  <2>3. Used + cmd.n < RingSize /\ next_cmd + cmd.n <= Max
    BY <1>4, <2>2, RoomFound DEF ReserveInPlace
  <2>4. UNCHANGED <<caps, next_cmd, stop, cmd, copied, m_iolock, m_reserved_size, bounce>>
        /\ m_using_bounce_buffer' = FALSE
        /\ (~CapReserve => reserved' = 0)
    BY <1>4, <2>2 DEF ReserveInPlace
  <2>5. Used' = Used
    BY <2>4 DEF Used
  <2>6. Used' + cmd'.n - copied' < RingSize
    BY <2>2, <2>3, <2>4, <2>5, UsedRange
  <2> QED
    BY <2>1, <2>2, <2>3, <2>4, <2>6
<1>5. ASSUME NEW t \in Threads, ReserveBounce(t) PROVE Rest'
  <2>1. pc[t] = "reserve" /\ pc' = [pc EXCEPT ![t] = "fill"]
    BY <1>5 DEF ReserveBounce
  <2>2. cmd \in Command /\ cmd.n \in Nat /\ m_reserved_size = cmd.n /\ copied = 0 /\ reserved = 0
        /\ cmd.n <= RingSize
    BY <2>1, CommandLength
  <2>3. Used + cmd.n < RingSize
    BY <1>5, <2>2, RoomFound DEF ReserveBounce
  <2>4. UNCHANGED <<next_cmd, stop, reserved, cmd, copied, m_iolock, m_reserved_size, bounce>>
        /\ m_using_bounce_buffer' = TRUE
    BY <1>5 DEF ReserveBounce
  <2>5. Used' = Used
    BY <2>4 DEF Used
  <2>6. Used' + cmd'.n - copied' < RingSize
    BY <2>2, <2>3, <2>4, <2>5, UsedRange
  <2> QED
    BY <2>1, <2>2, <2>4, <2>6
<1>6. ASSUME NEW t \in Threads, FIFOFull(t) \/ ReserveAgain(t) PROVE Rest'
  BY <1>6, SMTT(60) DEF FIFOFull, ReserveAgain, Used
<1>7. ASSUME NEW t \in Threads, Fill(t) PROVE Rest'
  BY <1>7, SMTT(60) DEF Fill, Used
<1>8. ASSUME NEW t \in Threads, FIFOCommitNothing(t) PROVE Rest'
  BY <1>8 DEF FIFOCommitNothing, Used
<1>9. ASSUME NEW t \in Threads, CopyChunks(t) PROVE Rest'
  BY <1>9 DEF CopyChunks, Used
<1>10. ASSUME NEW t \in Threads, CommitInPlace(t) PROVE Rest'
  BY <1>10 DEF CommitInPlace, Used
<1>11. ASSUME NEW t \in Threads, Publish(t) PROVE Rest'
  <2>1. pc[t] = "publish" /\ pc' = [pc EXCEPT ![t] = "locked"]
    BY <1>11 DEF Publish
  <2>2. m_reserved_size = 0 /\ copied = 0 /\ (~CapReserve => reserved = 0)
    BY <2>1
  <2>3. cmd' = Nothing /\ reserved' = 0 /\ UNCHANGED <<m_reserved_size, copied, m_iolock>>
    BY <1>11, <2>2 DEF Publish, Finish
  <2> QED
    BY <2>1, <2>2, <2>3
<1>12. ASSUME NEW t \in Threads, CommitDwords(t) PROVE Rest'
  <2>1. pc[t] = "commit" /\ pc' = [pc EXCEPT ![t] = "copy"] /\ m_using_bounce_buffer
    BY <1>12 DEF CommitDwords
  <2>2. cmd \in Command /\ cmd.n \in Nat \ {0} /\ copied = 0 /\ reserved = 0
        /\ cmd.n <= RingSize
        /\ bounce = [k \in 1..cmd.n |-> Dword(cmd, k)]
        /\ Used + cmd.n - copied < RingSize
    BY <1>12, <2>1, CommandLength DEF CommitDwords
  <2>3. UNCHANGED <<next_cmd, stop, reserved, cmd, copied, m_iolock, bounce>>
        /\ m_reserved_size' = 0
    BY <1>12 DEF CommitDwords
  <2>4. Used' = Used
    BY <2>3 DEF Used
  <2> QED
    BY <2>1, <2>2, <2>3, <2>4
<1>13. ASSUME NEW t \in Threads, CopyDword(t) PROVE Rest'
  <2>1. pc[t] = "copy"
    BY <1>13 DEF CopyDword
  <2>2. cmd \in Command /\ cmd.n \in Nat \ {0} /\ copied < cmd.n /\ reserved = 0
        /\ cmd.n <= RingSize
        /\ bounce = [k \in 1..cmd.n |-> Dword(cmd, k)]
        /\ Used + cmd.n - copied < RingSize /\ m_reserved_size = 0
    BY <2>1, CommandLength
  <2>3. UNCHANGED <<stop, reserved, m_reserved_size, m_iolock>>
    BY <1>13 DEF CopyDword
  <2>4. CASE copied + 1 = cmd.n
    <3>1. cmd' = Nothing /\ copied' = 0 /\ pc' = [pc EXCEPT ![t] = "locked"]
      BY <1>13, <2>4 DEF CopyDword, Finish
    <3> QED
      BY <2>1, <2>2, <2>3, <3>1
  <2>5. CASE copied + 1 # cmd.n
    <3>1. copied' = copied + 1 /\ UNCHANGED <<bounce, cmd, pc>>
      BY <1>13, <2>5 DEF CopyDword
    <3>2. Used \in Nat /\ Used + 1 < RingSize /\ copied + 1 < cmd.n
      BY <2>2, <2>5, UsedRange
    <3>3. Used' = Used + 1
      BY <1>13, <2>3, <3>2, UsedAfterPublish DEF CopyDword
    <3>4. Used' + cmd'.n - copied' < RingSize
      BY <2>2, <3>1, <3>2, <3>3, SMTT(60)
    <3> QED
      BY <2>1, <2>2, <2>3, <3>1, <3>2, <3>4
  <2> QED
    BY <2>4, <2>5
<1>14. ASSUME NEW t \in Threads,
              InsertFenceNoCap(t) \/ ForgetFence(t) \/ SyncToFencePassed(t) \/ SyncToFenceBegin(t)
                \/ SyncToFenceEnd(t) \/ SyncFIFOBegin(t) \/ SyncFIFOEnd(t) \/ SetMode(t)
       PROVE  Rest'
  BY <1>14, SMTT(60)
  DEF InsertFenceNoCap, ForgetFence, SyncToFencePassed, SyncToFenceBegin, SyncToFenceEnd,
               SyncFIFOBegin, SyncFIFOEnd, SetMode, Used
<1>15. ASSUME NEW t \in Threads,
              lockDevice(t) \/ unlockDevice(t) \/ RingDoorBell(t) \/ RingDoorBellNoCap(t)
                \/ RaiseBusy(t) \/ WriteSync(t) \/ RingDone(t)
       PROVE  Rest'
  BY <1>15, ZenonT(60)
  DEF lockDevice, unlockDevice, RingDoorBell, RingDoorBellNoCap, RaiseBusy, WriteSync,
               RingDone, Used
<1>16. CASE DeviceRead
  <2>1. UNCHANGED <<caps, next_cmd, reserved, m_reserved_size, m_using_bounce_buffer, bounce,
                    cmd, copied, m_iolock, pc>>
    BY <1>16 DEF DeviceRead
  <2>2. Used' = Used - 1 /\ Used \in Nat
    BY <1>16, UsedAfterRead, UsedRange DEF DeviceRead
  <2>3. \A t \in Threads : pc[t] \in {"fill", "commit", "publish", "copy"}
                              => cmd.n \in Nat
    BY CommandLength
  <2> QED
    BY <2>1, <2>2, <2>3
<1>17. CASE DeviceSleep \/ DevicePoll
  BY <1>17, SMTT(60) DEF DeviceSleep, DevicePoll, Used
<1>18. CASE UNCHANGED vars
  BY <1>18 DEF vars, Used
<1> QED
  BY <1>1, <1>2, <1>4, <1>5, <1>6, <1>7, <1>8, <1>9, <1>10, <1>11, <1>12, <1>13,
     <1>14, <1>15, <1>16, <1>17, <1>18 DEF Next, Calling, Running, Device

-----------------------------------------------------------------------------
(* FifoInv is inductive. *)
LEMMA Inductive == Spec => []FifoInv
<1>1. FifoInv /\ [Next]_vars => FifoInv'
  BY NextType, NextRest DEF FifoInv
<1> QED
  BY InitInv, <1>1, PTL DEF Spec

(* NEXT_CMD and STOP stay inside the ring, and every other variable has    *)
(* its type, for every ring FIFOInit may lay out.                          *)
THEOREM TypeCorrect == Spec => []TypeOK
<1>1. FifoInv => TypeOK
  BY DEF FifoInv
<1> QED
  BY Inductive, <1>1, PTL

(* FIFOReserve never hands out room that the device still has to read.     *)
THEOREM ReservationsFit == Spec => []RoomReserved
<1>1. FifoInv => RoomReserved
  BY DEF FifoInv
<1> QED
  BY Inductive, <1>1, PTL

(* No FIFO call leaves a reservation behind when it returns.               *)
THEOREM ReservationsEnd == Spec => []NoStrayReservation
<1>1. FifoInv => NoStrayReservation
  BY DEF FifoInv
<1> QED
  BY Inductive, <1>1, PTL
-----------------------------------------------------------------------------
(* The doorbell                                                            *)

(* FIFO_BUSY is raised by a host that is awake, or by a thread on its way  *)
(* to wake it.                                                             *)
FlagTells == fifo_busy => busy \/ \E t \in Threads : pc[t] = "ring"

BellInv == FifoInv /\ FlagTells /\ DoorbellWakes

LEMMA InitBell == Init => BellInv
BY InitInv DEF BellInv, FlagTells, DoorbellWakes, Init

(* FIFO_BUSY goes with the host's own flag, and the lock keeps a second    *)
(* thread from reading it while a first one is between it and SYNC.        *)
LEMMA NextBell == BellInv /\ [Next]_vars => BellInv'
<1> DEFINE Good == FlagTells /\ DoorbellWakes
<1> SUFFICES ASSUME BellInv, [Next]_vars PROVE Good'
  BY NextType, NextRest DEF BellInv, FifoInv
<1>0. /\ TypeOK
      /\ \A t \in Threads : pc[t] # "idle" => \A s \in Threads \ {t} : pc[s] = "idle"
  BY Alone DEF BellInv, FifoInv
<1> USE <1>0 DEF BellInv, FlagTells, DoorbellWakes, TypeOK, Transition
<1>1. ASSUME NEW t \in Threads, pc[t] # "idle", pc[t] # "ring", pc'[t] # "rung",
             \A s \in Threads \ {t} : pc'[s] = pc[s],
             UNCHANGED fifo_busy, busy => busy'
      PROVE  Good'
  BY <1>1
<1>2. ASSUME NEW t \in Threads, lockDevice(t) \/ unlockDevice(t) PROVE Good'
  BY <1>2, SMTT(60) DEF lockDevice, unlockDevice, regs, Used
<1>3. ASSUME NEW t \in Threads,
             FIFOReserve(t) \/ InsertFence(t) \/ InsertFenceNoCap(t)
               \/ SyncToFencePassed(t) \/ SyncToFenceBegin(t) \/ SyncFIFOBegin(t)
      PROVE  Good'
  BY <1>1, <1>3 DEF FIFOReserve, InsertFence, InsertFenceNoCap, SyncToFencePassed, SyncToFenceBegin,
     SyncFIFOBegin, regs
<1>4. ASSUME NEW t \in Threads,
             ReserveInPlace(t) \/ ReserveBounce(t) \/ FIFOFull(t) \/ ReserveAgain(t) \/ Fill(t)
      PROVE  Good'
  BY <1>1, <1>4 DEF ReserveInPlace, ReserveBounce, FIFOFull, ReserveAgain, Fill, regs
<1>5. ASSUME NEW t \in Threads,
             FIFOCommitNothing(t) \/ CopyChunks(t) \/ CommitInPlace(t) \/ Publish(t)
               \/ CommitDwords(t)
      PROVE  Good'
  BY <1>1, <1>5 DEF FIFOCommitNothing, CopyChunks, CommitInPlace, Publish, CommitDwords, regs
<1>6. ASSUME NEW t \in Threads, CopyDword(t) PROVE Good'
  <2>1. /\ pc[t] = "copy" /\ UNCHANGED <<fifo_busy, busy>>
        /\ pc' = pc \/ pc' = [pc EXCEPT ![t] = "locked"]
    BY <1>6 DEF CopyDword
  <2> QED
    BY <1>1, <2>1
<1>7. ASSUME NEW t \in Threads,
             SyncToFenceEnd(t) \/ ForgetFence(t) \/ SyncFIFOEnd(t) \/ SetMode(t) \/ RingDone(t)
      PROVE  Good'
  BY <1>1, <1>7 DEF SyncToFenceEnd, ForgetFence, SyncFIFOEnd, SetMode, RingDone, regs
<1>8. ASSUME NEW t \in Threads,
             RingDoorBell(t) \/ RingDoorBellNoCap(t) \/ RaiseBusy(t) \/ WriteSync(t)
      PROVE  Good'
  <2>1. CASE RingDoorBell(t)
    <3>1. /\ UNCHANGED <<next_cmd, stop, fifo_busy, busy>> /\ pc[t] = "locked"
          /\ pc' = [pc EXCEPT ![t] = IF fifo_busy THEN "rung" ELSE "bell"]
      BY <2>1 DEF RingDoorBell, regs
    <3>2. CASE fifo_busy
      <4>1. busy
        BY <3>1, <3>2
      <4> QED
        BY <3>1, <3>2, <4>1
    <3>3. CASE ~fifo_busy
      BY <3>1, <3>3
    <3> QED
      BY <3>2, <3>3
  <2>2. CASE RingDoorBellNoCap(t)
    BY <1>1, <2>2 DEF RingDoorBellNoCap, regs
  <2>3. CASE RaiseBusy(t)
    <3>1. pc[t] = "bell" /\ pc' = [pc EXCEPT ![t] = "ring"]
      BY <2>3 DEF RaiseBusy
    <3>2. \A s \in Threads : pc'[s] # "rung"
      BY <3>1
    <3> QED
      BY <3>1, <3>2
  <2>4. CASE WriteSync(t)
    BY <2>4 DEF WriteSync, regs
  <2> QED
    BY <1>8, <2>1, <2>2, <2>3, <2>4
<1>9. CASE Device \/ DevicePoll
  BY <1>9 DEF Device, DeviceRead, DeviceSleep, DevicePoll, Used
<1>10. CASE UNCHANGED vars
  BY <1>10 DEF vars, regs, Used
<1> QED
  BY <1>2, <1>3, <1>4, <1>5, <1>6, <1>7, <1>8, <1>9, <1>10 DEF Next, Calling, Running

(* When RingDoorBell returns, a host that finds the ring filled is awake,  *)
(* although the write to SYNC is skipped while FIFO_BUSY is up.            *)
THEOREM BellHeard == Spec => []DoorbellWakes
<1>1. BellInv => DoorbellWakes
  BY DEF BellInv
<1> QED
  BY InitBell, NextBell, <1>1, PTL DEF Spec
-----------------------------------------------------------------------------
(* Fences                                                                  *)

(* The dword whose reading stores fence number v; the ring's i-th dword.   *)
FenceEnd(v) == Dword([op |-> "fence", val |-> v, n |-> 2], 2)
At(i) == mem[Slot(stop, i - 1)]
EndAt(i, v) == At(i) = FenceEnd(v)

(* Fence numbers in the order in which they are given out: 0 is skipped.   *)
Numbers == 1..(FenceMod - 1)
Succ(u) == IF u = FenceMod - 1 THEN 1 ELSE u + 1
Ahead(u, v) == IF v > u THEN v - u ELSE v + FenceMod - 1 - u

(* The number of the next fence to end in the ring, and the dwords that    *)
(* are missing before it can.                                              *)
Sending == cmd # Nothing /\ cmd.op = "fence"
Coming == IF Sending THEN cmd.val ELSE NextFence
Left == IF Sending THEN 2 - copied ELSE 2

(* The dwords of the command that is about to be published lie behind      *)
(* NEXT_CMD.                                                               *)
Staged ==
  \A t \in Threads :
    pc[t] = "publish" \/ (pc[t] = "commit" /\ ~m_using_bounce_buffer) =>
      \A k \in 1..cmd.n : mem[Slot(next_cmd, k - 1)] = Dword(cmd, k)

(* The fences in the ring are numbered one after the other, from the       *)
(* FENCE register to the one to come, and lie two dwords apart.            *)
Numbered ==
  /\ Coming \in Numbers /\ (Sending => NextFence = Succ(cmd.val))
  /\ \A i \in 1..Used, u \in Fences : EndAt(i, u) => u \in Numbers

Ordered ==
  \A i, j \in 1..Used, u, v \in Fences : i < j /\ EndAt(i, u) /\ EndAt(j, v) =>
    /\ 2 * Ahead(u, v) <= j - i
    /\ \E k \in (i + 1)..j : EndAt(k, Succ(u))

Oldest ==
  /\ \A j \in 1..Used, v \in Fences : EndAt(j, v) => \E k \in 1..j : EndAt(k, Succ(fence))
  /\ Coming = Succ(fence) \/ \E k \in 1..Used : EndAt(k, Succ(fence))

Newest ==
  \A i \in 1..Used, u \in Fences : EndAt(i, u) =>
    /\ 2 * Ahead(u, Coming) <= Used + Left - i
    /\ Coming = Succ(u) \/ \E k \in (i + 1)..Used : EndAt(k, Succ(u))

Order == Numbered /\ Ordered /\ Oldest /\ Newest

(* A fence that a thread remembers is the one it is behind.                *)
Remembered ==
  \A t \in Threads :
    /\ behind[t] <= Used
    /\ CapFence /\ behind[t] > 0 => EndAt(behind[t], held_fence[t])

(* Nobody fills the ring while a thread waits, and a host goes to sleep    *)
(* with an empty ring.                                                     *)
AwakeForWaiter == \A t \in Threads : pc[t] = "syncwait" /\ ~busy => stop = next_cmd

FenceInv ==
  /\ FifoInv /\ Staged /\ Order /\ Remembered
  /\ AwakeForWaiter /\ SyncedMeansRead
-----------------------------------------------------------------------------
(* Slots of the ring, counted from STOP and from NEXT_CMD.                 *)
LEMMA SlotsApart ==
  ASSUME stop \in Min..(Max - 1), NEW i \in 1..RingSize, NEW j \in 1..RingSize, i # j
  PROVE  Slot(stop, i - 1) # Slot(stop, j - 1)
BY DEF Slot

LEMMA SlotFromNext ==
  ASSUME next_cmd \in Min..(Max - 1), stop \in Min..(Max - 1),
         NEW k \in Nat, Used + k < RingSize
  PROVE  Slot(next_cmd, k) = Slot(stop, Used + k)
BY DEF Slot, Used

LEMMA SlotAfterRead ==
  ASSUME stop \in Min..(Max - 1), NEW i \in 1..(RingSize - 1)
  PROVE  Slot(Slot(stop, 1), i - 1) = Slot(stop, i)
BY DEF Slot

(* A command that is stored from a slot on has its dwords there, and       *)
(* leaves alone what the device has to read.                               *)
LEMMA StoredThere ==
  ASSUME NEW a \in Min..(Max - 1), NEW c, NEW n \in Nat, n <= RingSize, NEW k \in 1..n
  PROVE  Stored(a, c, n)[Slot(a, k - 1)] = Dword(c, k)
<1> DEFINE s == Slot(a, k - 1)
           d == IF s >= a THEN s - a ELSE s + RingSize - a
<1>1. s \in Min..(Max - 1) /\ d = k - 1
  BY DEF Slot
<1>2. Stored(a, c, n)[s] = IF d < n THEN Dword(c, d + 1) ELSE mem[s]
  BY <1>1 DEF Stored
<1> QED
  BY <1>1, <1>2

LEMMA StoredElsewhere ==
  ASSUME next_cmd \in Min..(Max - 1), stop \in Min..(Max - 1), NEW c, NEW n \in Nat,
         Used + n <= RingSize, NEW i \in 1..Used
  PROVE  Stored(next_cmd, c, n)[Slot(stop, i - 1)] = mem[Slot(stop, i - 1)]
<1> DEFINE s == Slot(stop, i - 1)
           d == IF s >= next_cmd THEN s - next_cmd ELSE s + RingSize - next_cmd
<1>1. s \in Min..(Max - 1) /\ d >= n
  BY DEF Slot, Used
<1>2. Stored(next_cmd, c, n)[s] = IF d < n THEN Dword(c, d + 1) ELSE mem[s]
  BY <1>1 DEF Stored
<1> QED
  BY <1>1, <1>2

(* Which dwords are the last of a fence command. *)
LEMMA FenceNumber == ASSUME NEW v \in Fences PROVE FenceEnd(v) \in Dwords /\ FenceEnd(v) # Free
BY BuiltCommands, DwordType, FreeAssumption DEF FenceEnd

LEMMA FenceEndOf ==
  ASSUME NEW c \in Command, NEW k \in Nat, NEW v \in Fences
  PROVE  Dword(c, k) = FenceEnd(v) <=> c.op = "fence" /\ k = 2 /\ c.val = v
<1>1. CASE c \in [op : {"cmd"}, val : Payloads, n : Sizes]
  BY <1>1 DEF FenceEnd, Dword
<1>2. CASE c \in [op : {"fence"}, val : Fences, n : {2}]
  <2>1. c = [op |-> "fence", val |-> c.val, n |-> 2]
    BY <1>2
  <2> QED
    BY <2>1 DEF FenceEnd, Dword
<1> QED
  BY <1>1, <1>2 DEF Command

(* What reading a dword does to the FENCE register. *)
LEMMA FenceRead ==
  ASSUME TypeOK, DeviceRead
  PROVE  /\ \A v \in Fences : mem[stop] = FenceEnd(v) => fence' = v
         /\ (\A v \in Fences : mem[stop] # FenceEnd(v)) => fence' = fence
<1> DEFINE d == mem[stop]
<1>0. d \in Dwords \cup {Free}
  BY DEF TypeOK
<1>1. fence' = IF d # Free /\ d.cmd.op = "fence" /\ d.k = d.cmd.n THEN d.cmd.val ELSE fence
  BY DEF DeviceRead
<1>2. ASSUME NEW v \in Fences, d = FenceEnd(v) PROVE fence' = v
  <2>1. d.cmd.op = "fence" /\ d.k = 2 /\ d.cmd.n = 2 /\ d.cmd.val = v
    BY <1>2 DEF FenceEnd, Dword
  <2> QED
    BY <1>1, <1>2, <2>1, FenceNumber
<1>3. ASSUME d # Free, d.cmd.op = "fence", d.k = d.cmd.n
      PROVE  \E v \in Fences : d = FenceEnd(v)
  <2>1. d.cmd \in Command /\ d.k \in Nat /\ d = Dword(d.cmd, d.k)
    BY <1>0, <1>3 DEF Dwords, Dword
  <2>2. d.cmd.val \in Fences /\ d.cmd.n = 2
    BY <1>3, <2>1 DEF Command
  <2> QED
    BY <1>3, <2>1, <2>2, FenceEndOf
<1> QED
  BY <1>1, <1>2, <1>3

(* Counting fence numbers. *)
LEMMA SuccAhead ==
  ASSUME NEW u \in Fences
  PROVE  Succ(u) \in Numbers /\ Succ(u) \in Fences /\ Ahead(u, Succ(u)) = 1
BY CommandAssumption DEF Fences, Numbers, Succ, Ahead

LEMMA AheadRange ==
  ASSUME NEW u \in Fences, NEW v \in Numbers
  PROVE  Ahead(u, v) \in 1..(FenceMod - 1)
BY CommandAssumption DEF Fences, Numbers, Ahead

LEMMA AheadAfter ==
  ASSUME NEW u \in Fences, NEW v \in Numbers, Ahead(u, v) < FenceMod - 1
  PROVE  Ahead(u, Succ(v)) = Ahead(u, v) + 1
BY CommandAssumption DEF Fences, Numbers, Succ, Ahead

LEMMA AheadBefore ==
  ASSUME NEW u \in Fences, NEW v \in Numbers, Ahead(Succ(u), v) < FenceMod - 1
  PROVE  Ahead(u, v) = Ahead(Succ(u), v) + 1
BY CommandAssumption DEF Fences, Numbers, Succ, Ahead

LEMMA SmallMod ==
  ASSUME NEW m \in Nat \ {0}, NEW x \in Nat
  PROVE  /\ x < m => x % m = x
         /\ x >= m /\ x < 2 * m => x % m = x - m
<1>1. x < m => x % m = x
  BY SMT
<1>2. x >= m /\ x < 2 * m => x % m = x - m
  BY SMT
<1> QED
  BY <1>1, <1>2

(* InsertFence gives out one number after the other. *)
LEMMA NextNumber ==
  ASSUME TypeOK, m_next_fence' = (NextFence + 1) % FenceMod
  PROVE  NextFence \in Numbers /\ NextFence' = Succ(NextFence)
<1>1. FenceMod \in Nat \ {0} /\ FenceMod > 2 /\ m_next_fence \in 0..(FenceMod - 1)
  BY CommandAssumption DEF TypeOK, Fences
<1>2. NextFence \in 1..(FenceMod - 1)
  BY <1>1 DEF NextFence
<1>3. (NextFence + 1) % FenceMod = IF NextFence + 1 = FenceMod THEN 0 ELSE NextFence + 1
  <2> DEFINE y == NextFence + 1
  <2>1. y \in Nat /\ y <= FenceMod /\ y < 2 * FenceMod
    BY <1>1, <1>2
  <2> HIDE DEF y
  <2>2. y < FenceMod => y % FenceMod = y
    BY <1>1, <2>1, SmallMod, Zenon
  <2>3. y >= FenceMod => y % FenceMod = y - FenceMod
    BY <1>1, <2>1, SmallMod, Zenon
  <2>4. y % FenceMod = IF y = FenceMod THEN 0 ELSE y
    BY <1>1, <2>1, <2>2, <2>3
  <2> QED
    BY <2>4 DEF y
<1> QED
  BY <1>1, <1>2, <1>3 DEF NextFence, Numbers, Succ

(* A number that is few fences ahead of the register has not passed. *)
LEMMA NotPassed ==
  ASSUME TypeOK, NEW f \in Numbers, 2 * Ahead(fence, f) <= RingSize
  PROVE  ~HasFencePassedUnguarded(f)
<1>1. FenceMod \in Nat \ {0} /\ FenceMod > 2 /\ fence \in 0..(FenceMod - 1)
      /\ f \in 1..(FenceMod - 1) /\ FenceMod > RingSize
  BY CommandAssumption DEF TypeOK, Fences, Numbers
<1>2. FenceMod = 2 * (FenceMod \div 2) /\ FenceMod \div 2 \in Nat
  BY <1>1, CommandAssumption, SMT
<1> DEFINE h == FenceMod \div 2
           x == fence + FenceMod - f
<1>3. x \in Nat /\ x < 2 * FenceMod
  BY <1>1
<1>4. x % FenceMod = IF x < FenceMod THEN x ELSE x - FenceMod
  <2> HIDE DEF x
  <2>1. x < FenceMod => x % FenceMod = x
    BY <1>1, <1>3, SmallMod, Zenon
  <2>2. x >= FenceMod => x % FenceMod = x - FenceMod
    BY <1>1, <1>3, SmallMod, Zenon
  <2> QED
    BY <1>1, <1>3, <2>1, <2>2
<1>5. (IF x < FenceMod THEN x ELSE x - FenceMod) >= h
  <2> h \in Nat /\ FenceMod = 2 * h
    BY <1>2
  <2> HIDE DEF h
  <2>1. CASE f > fence
    <3>1. x < FenceMod /\ 2 * (f - fence) <= 2 * h
      BY <1>1, <2>1 DEF Ahead
    <3> QED
      BY <1>1, <3>1
  <2>2. CASE f <= fence
    <3>1. x >= FenceMod /\ 2 * (f + FenceMod - 1 - fence) < 2 * h
      BY <1>1, <2>2 DEF Ahead
    <3> QED
      BY <1>1, <3>1
  <2> QED
    BY <1>1, <2>1, <2>2
<1> QED
  BY <1>1, <1>2, <1>4, <1>5 DEF HasFencePassedUnguarded

(* The order of fences under the three things that happen to the ring:     *)
(* nothing, dwords are added at its end, the first one is read.            *)
LEMMA OrderKept ==
  ASSUME Order, fence \in Fences, Used \in Nat, Used' = Used, fence' = fence, Coming' = Coming, Left' = Left,
         Sending' => NextFence' = Succ(cmd'.val),
         \A i \in 1..Used, v \in Fences : EndAt(i, v)' <=> EndAt(i, v)
  PROVE  Order'
<1>1. Numbered'
  BY DEF Order, Numbered
<1>0. \A u \in Fences : Succ(u) \in Fences
  BY SuccAhead
<1>2. Ordered'
  BY <1>0 DEF Order, Ordered
<1>3. Oldest'
  BY <1>0 DEF Order, Oldest
<1>4. Newest'
  BY <1>0 DEF Order, Newest
<1> QED
  BY <1>1, <1>2, <1>3, <1>4 DEF Order

LEMMA OrderBehindDwords ==
  ASSUME Order, fence \in Fences, Used \in Nat, NEW n \in Nat, Used' = Used + n,
         fence' = fence, Coming' = Coming, Left \in Nat, Left' \in Nat, Left' >= Left - n,
         Sending' => NextFence' = Succ(cmd'.val),
         \A i \in 1..Used, v \in Fences : EndAt(i, v)' <=> EndAt(i, v),
         \A i \in (Used + 1)..(Used + n), v \in Fences : ~EndAt(i, v)'
  PROVE  Order'
<1>0. \A u \in Fences : Succ(u) \in Fences
  BY SuccAhead
<1>1. \A i \in 1..Used', v \in Fences : EndAt(i, v)' => i \in 1..Used /\ EndAt(i, v)
  OBVIOUS
<1>2. Numbered'
  BY <1>1 DEF Order, Numbered
<1>3. Ordered'
  <2> SUFFICES ASSUME NEW i \in 1..Used, NEW j \in 1..Used, NEW u \in Fences, NEW v \in Fences,
                      i < j, EndAt(i, u), EndAt(j, v)
               PROVE  2 * Ahead(u, v) <= j - i /\ \E k \in (i + 1)..j : EndAt(k, Succ(u))'
    BY <1>1 DEF Ordered
  <2> QED
    BY <1>0 DEF Order, Ordered
<1>4. Oldest'
  <2>1. \A j \in 1..Used, v \in Fences : EndAt(j, v) => \E k \in 1..j : EndAt(k, Succ(fence))'
    BY <1>0 DEF Order, Oldest
  <2>2. Coming = Succ(fence) \/ \E k \in 1..Used : EndAt(k, Succ(fence))'
    BY <1>0 DEF Order, Oldest
  <2> QED
    BY <1>1, <2>1, <2>2 DEF Oldest
<1>5. Newest'
  <2> SUFFICES ASSUME NEW i \in 1..Used, NEW u \in Fences, EndAt(i, u)
               PROVE  /\ 2 * Ahead(u, Coming) <= Used' + Left' - i
                      /\ Coming = Succ(u) \/ \E k \in (i + 1)..Used' : EndAt(k, Succ(u))'
    BY <1>1 DEF Newest
  <2>1. /\ 2 * Ahead(u, Coming) <= Used + Left - i
        /\ Coming = Succ(u) \/ \E k \in (i + 1)..Used : EndAt(k, Succ(u))
    BY DEF Order, Newest
  <2>2. Ahead(u, Coming) \in Nat
    BY AheadRange, CommandAssumption DEF Order, Numbered
  <2> QED
    BY <1>0, <2>1, <2>2
<1> QED
  BY <1>2, <1>3, <1>4, <1>5 DEF Order

LEMMA OrderBehindFence ==
  ASSUME Order, fence \in Fences, Used \in Nat, NEW n \in Nat \ {0}, NEW e \in Nat, e = Used + n,
         Used' = e,
         Used' < RingSize,
         fence' = fence, Coming' = Succ(Coming), Left \in Nat, Left <= n, Left' = 2, ~Sending',
         \A i \in 1..Used, v \in Fences : EndAt(i, v)' <=> EndAt(i, v),
         \A i \in (Used + 1)..e, v \in Fences :
           EndAt(i, v)' <=> i = e /\ v = Coming
  PROVE  Order'
<1>0. /\ \A u \in Fences : Succ(u) \in Fences /\ Succ(u) \in Numbers
      /\ Coming \in Numbers /\ Coming \in Fences
  BY SuccAhead DEF Order, Numbered, Numbers, Fences
<1>1. /\ \A i \in 1..e, v \in Fences :
           EndAt(i, v)' => (i \in 1..Used /\ EndAt(i, v)) \/ (i = e /\ v = Coming)
      /\ \A v \in Fences : v = Coming => EndAt(e, v)'
      /\ e \in 1..e
  <2>1. e \in (Used + 1)..e /\ e \in 1..e
    OBVIOUS
  <2>2. \A v \in Fences : v = Coming => EndAt(e, v)'
    BY <2>1
  <2>3. ASSUME NEW i \in 1..e, NEW v \in Fences, EndAt(i, v)'
        PROVE  (i \in 1..Used /\ EndAt(i, v)) \/ (i = e /\ v = Coming)
    <3>1. CASE i \in 1..Used
      BY <2>3, <3>1
    <3>2. CASE i \in (Used + 1)..e
      BY <2>3, <3>2
    <3> QED
      BY <3>1, <3>2
  <2> QED
    BY <2>1, <2>2, <2>3
<1>2. Numbered'
  BY <1>0, <1>1 DEF Order, Numbered
<1>3. \A i \in 1..Used, u \in Fences : EndAt(i, u) =>
        /\ Ahead(u, Coming) \in Nat /\ 2 * Ahead(u, Coming) <= e - i
        /\ \E k \in (i + 1)..e : EndAt(k, Succ(u))'
  <2> SUFFICES ASSUME NEW i \in 1..Used, NEW u \in Fences, EndAt(i, u)
               PROVE  /\ Ahead(u, Coming) \in Nat /\ 2 * Ahead(u, Coming) <= e - i
                      /\ \E k \in (i + 1)..e : EndAt(k, Succ(u))'
    OBVIOUS
  <2>1. /\ 2 * Ahead(u, Coming) <= Used + Left - i
        /\ Coming = Succ(u) \/ \E k \in (i + 1)..Used : EndAt(k, Succ(u))
    BY DEF Order, Newest
  <2>2. Ahead(u, Coming) \in Nat
    BY <1>0, AheadRange, CommandAssumption
  <2>3. \E k \in (i + 1)..e : EndAt(k, Succ(u))'
    BY <1>0, <1>1, <2>1
  <2> QED
    BY <2>1, <2>2, <2>3
<1>4. Ordered'
  <2>1. \A i, j \in 1..Used, u, v \in Fences : i < j /\ EndAt(i, u) /\ EndAt(j, v) =>
          2 * Ahead(u, v) <= j - i /\ \E k \in (i + 1)..j : EndAt(k, Succ(u))'
    BY <1>0 DEF Order, Ordered
  <2> QED
    BY <1>1, <1>3, <2>1 DEF Ordered
<1>5. \E k \in 1..e : EndAt(k, Succ(fence))'
  BY <1>0, <1>1 DEF Order, Oldest
<1>6. Oldest'
  <2>1. \A j \in 1..Used, v \in Fences : EndAt(j, v) => \E k \in 1..j : EndAt(k, Succ(fence))'
    BY <1>0 DEF Order, Oldest
  <2> QED
    BY <1>1, <1>5, <2>1 DEF Oldest
<1>7. Newest'
  <2>1. ASSUME NEW i \in 1..Used, NEW u \in Fences, EndAt(i, u)
        PROVE  2 * Ahead(u, Succ(Coming)) <= e + 2 - i
    <3>1. Ahead(u, Coming) \in Nat /\ 2 * Ahead(u, Coming) <= e - i
      BY <1>3, <2>1
    <3>2. Ahead(u, Coming) < FenceMod - 1
      BY <3>1, CommandAssumption
    <3> QED
      BY <1>0, <3>1, <3>2, AheadAfter
  <2>2. Ahead(Coming, Succ(Coming)) = 1
    BY <1>0, SuccAhead
  <2> QED
    BY <1>1, <1>3, <2>1, <2>2 DEF Newest
<1> QED
  BY <1>2, <1>4, <1>6, <1>7 DEF Order

LEMMA OrderAfterRead ==
  ASSUME Order, fence \in Fences, Used \in Nat \ {0}, Used' = Used - 1,
         Coming' = Coming, Left \in Nat, Left' = Left, Sending' => NextFence' = Succ(cmd'.val),
         \A i \in 1..(Used - 1), v \in Fences : EndAt(i, v)' <=> EndAt(i + 1, v),
         \A v \in Fences : EndAt(1, v) => fence' = v,
         (\A v \in Fences : ~EndAt(1, v)) => fence' = fence
  PROVE  Order'
<1>0. \A u \in Fences : Succ(u) \in Fences
  BY SuccAhead
<1>1. \A i \in 1..Used', v \in Fences : EndAt(i, v)' => i + 1 \in 1..Used /\ EndAt(i + 1, v)
  OBVIOUS
<1>2. ASSUME NEW i \in Nat, NEW j \in 0..Used', NEW u \in Fences,
             \E k \in (i + 2)..(j + 1) : EndAt(k, u)
      PROVE  \E k \in (i + 1)..j : EndAt(k, u)'
  <2>1. PICK k \in (i + 2)..(j + 1) : EndAt(k, u)
    BY <1>2
  <2>2. k - 1 \in (i + 1)..j /\ k - 1 \in 1..(Used - 1) /\ (k - 1) + 1 = k
    OBVIOUS
  <2>3. EndAt(k - 1, u)'
    BY <2>1, <2>2
  <2> QED
    BY <2>2, <2>3
<1>3. Numbered'
  BY <1>1 DEF Order, Numbered
<1>4. Ordered'
  <2> SUFFICES ASSUME NEW i \in 1..Used', NEW j \in 1..Used', NEW u \in Fences, NEW v \in Fences,
                      i < j, EndAt(i, u)', EndAt(j, v)'
               PROVE  2 * Ahead(u, v) <= j - i /\ \E k \in (i + 1)..j : EndAt(k, Succ(u))'
    BY DEF Ordered
  <2>1. EndAt(i + 1, u) /\ EndAt(j + 1, v) /\ i + 1 \in 1..Used /\ j + 1 \in 1..Used
    BY <1>1
  <2>2. 2 * Ahead(u, v) <= (j + 1) - (i + 1)
        /\ \E k \in ((i + 1) + 1)..(j + 1) : EndAt(k, Succ(u))
    BY <2>1 DEF Order, Ordered
  <2>3. \E k \in (i + 2)..(j + 1) : EndAt(k, Succ(u))
    BY <2>2
  <2>4. \E k \in (i + 1)..j : EndAt(k, Succ(u))'
    <3>1. i \in Nat /\ j \in 0..Used' /\ Succ(u) \in Fences
      BY <1>0
    <3> QED
      BY <1>2, <2>3, <3>1
  <2>5. (j + 1) - (i + 1) = j - i
    OBVIOUS
  <2> QED
    BY <2>2, <2>4, <2>5
<1>5. Oldest'
  <2>1. CASE \E u \in Fences : EndAt(1, u)
    <3>1. PICK u \in Fences : EndAt(1, u) /\ fence' = u
      BY <2>1
    <3>2. ASSUME NEW j \in 1..Used', NEW v \in Fences, EndAt(j, v)'
          PROVE  \E k \in 1..j : EndAt(k, Succ(u))'
      <4>1. EndAt(j + 1, v) /\ j + 1 \in 1..Used
        BY <1>1, <3>2
      <4>2. \E k \in 2..(j + 1) : EndAt(k, Succ(u))
        BY <3>1, <4>1 DEF Order, Ordered
      <4>3. \E k \in (0 + 2)..(j + 1) : EndAt(k, Succ(u))
        BY <4>2
      <4> QED
        BY <1>0, <1>2, <4>1, <4>3
    <3>3. Coming = Succ(u) \/ \E k \in (0 + 2)..(Used' + 1) : EndAt(k, Succ(u))
      BY <3>1 DEF Order, Newest
    <3>4. Coming = Succ(u) \/ \E k \in 1..Used' : EndAt(k, Succ(u))'
      BY <1>0, <1>2, <3>3
    <3> QED
      BY <3>1, <3>2, <3>4 DEF Oldest
  <2>2. CASE \A v \in Fences : ~EndAt(1, v)
    <3>0. fence' = fence
      BY <2>2
    <3>1. ASSUME NEW j \in 1..Used', NEW v \in Fences, EndAt(j, v)'
          PROVE  \E k \in 1..j : EndAt(k, Succ(fence))'
      <4>1. EndAt(j + 1, v) /\ j + 1 \in 1..Used
        BY <1>1, <3>1
      <4>2. \E k \in (0 + 2)..(j + 1) : EndAt(k, Succ(fence))
        BY <1>0, <2>2, <4>1 DEF Order, Oldest
      <4> QED
        BY <1>0, <1>2, <3>0, <4>1, <4>2, SMTT(60)
    <3>2. Coming = Succ(fence) \/ \E k \in (0 + 2)..(Used' + 1) : EndAt(k, Succ(fence))
      BY <1>0, <2>2 DEF Order, Oldest
    <3>3. Coming = Succ(fence) \/ \E k \in 1..Used' : EndAt(k, Succ(fence))'
      BY <1>0, <1>2, <3>0, <3>2
    <3> QED
      BY <3>0, <3>1, <3>3 DEF Oldest
  <2> QED
    BY <2>1, <2>2
<1>6. Newest'
  <2> SUFFICES ASSUME NEW i \in 1..Used', NEW u \in Fences, EndAt(i, u)'
               PROVE  /\ 2 * Ahead(u, Coming) <= Used' + Left - i
                      /\ Coming = Succ(u) \/ \E k \in (i + 1)..Used' : EndAt(k, Succ(u))'
    BY DEF Newest
  <2>1. EndAt(i + 1, u) /\ i + 1 \in 1..Used
    BY <1>1
  <2>2. /\ 2 * Ahead(u, Coming) <= Used + Left - (i + 1)
        /\ Coming = Succ(u) \/ \E k \in (i + 2)..Used : EndAt(k, Succ(u))
    BY <2>1 DEF Order, Newest
  <2>3. Ahead(u, Coming) \in Nat
    BY AheadRange, CommandAssumption DEF Order, Numbered
  <2> QED
    BY <1>0, <1>2, <2>1, <2>2, <2>3
<1> QED
  BY <1>3, <1>4, <1>5, <1>6 DEF Order

-----------------------------------------------------------------------------
(* What the steps do to the fences in the ring.                            *)

Steady ==
  /\ Used' = Used /\ UNCHANGED <<caps, stop, next_cmd, fence>>
  /\ \A i \in 1..Used, v \in Fences : EndAt(i, v)' <=> EndAt(i, v)

LEMMA RingSteady ==
  ASSUME TypeOK, UNCHANGED <<caps, stop, next_cmd, fence>>,
         \A i \in 1..Used : mem'[Slot(stop, i - 1)] = mem[Slot(stop, i - 1)]
  PROVE  Steady
<1>1. Used' = Used
  BY DEF Used
<1>2. \A i \in 1..Used, v \in Fences : EndAt(i, v)' <=> EndAt(i, v)
  BY DEF EndAt, At
<1> QED
  BY <1>1, <1>2 DEF Steady

LEMMA FillSteady ==
  ASSUME FifoInv, NEW t \in Threads, Fill(t) \/ CopyChunks(t)
  PROVE  /\ Steady
         /\ \A i \in 1..Used : mem'[Slot(stop, i - 1)] = mem[Slot(stop, i - 1)]
         /\ CopyChunks(t) \/ ~m_using_bounce_buffer => mem' = Stored(next_cmd, cmd, cmd.n)
<1> USE DEF FifoInv, TypeOK
<1>1. /\ cmd \in Command /\ cmd.n \in Nat /\ cmd.n <= RingSize /\ copied = 0
      /\ Used + cmd.n < RingSize /\ Used \in Nat
  BY CommandLength, UsedRange, SMTT(60) DEF Fill, CopyChunks, BuildingOK, RoomReserved, Transition
<1>2. UNCHANGED <<caps, stop, next_cmd, fence>>
  BY DEF Fill, CopyChunks
<1>3. /\ mem' = mem \/ mem' = Stored(next_cmd, cmd, cmd.n)
      /\ CopyChunks(t) \/ ~m_using_bounce_buffer => mem' = Stored(next_cmd, cmd, cmd.n)
  BY DEF Fill, CopyChunks
<1>4. \A i \in 1..Used : mem'[Slot(stop, i - 1)] = mem[Slot(stop, i - 1)]
  BY <1>1, <1>3, StoredElsewhere, SMTT(60)
<1> QED
  BY <1>2, <1>3, <1>4, RingSteady

(* n dwords of the command are added behind those that are there.          *)
Grown(n) ==
  /\ Used' = Used + n /\ Used + n < RingSize /\ UNCHANGED <<caps, stop, fence>>
  /\ \A i \in 1..Used : At(i)' = At(i)
  /\ \A i \in (Used + 1)..(Used + n) : At(i)' = Dword(cmd, copied + (i - Used))
  /\ \A i \in 1..Used, v \in Fences : EndAt(i, v)' <=> EndAt(i, v)
  /\ \A i \in (Used + 1)..(Used + n), v \in Fences :
       EndAt(i, v)' <=> cmd.op = "fence" /\ copied + (i - Used) = 2 /\ cmd.val = v

LEMMA PublishGrows ==
  ASSUME FifoInv, Staged, NEW t \in Threads, Publish(t)
  PROVE  Grown(cmd.n)
<1> USE DEF FifoInv, TypeOK
<1>1. /\ cmd \in Command /\ cmd.n \in Nat /\ copied = 0
      /\ Used + cmd.n < RingSize /\ Used \in Nat
      /\ \A k \in 1..cmd.n : mem[Slot(next_cmd, k - 1)] = Dword(cmd, k)
  BY CommandLength, UsedRange DEF Publish, BuildingOK, RoomReserved, Transition, Staged
<1>2. UNCHANGED <<caps, stop, fence, mem>> /\ next_cmd' = Slot(next_cmd, cmd.n)
  BY DEF Publish
<1>3. Used' = Used + cmd.n
  BY <1>1, <1>2, UsedAfterPublish
<1>4. /\ \A i \in 1..Used : At(i)' = At(i)
      /\ \A i \in 1..Used, v \in Fences : EndAt(i, v)' <=> EndAt(i, v)
  BY <1>2 DEF EndAt, At
<1>5. ASSUME NEW i \in (Used + 1)..(Used + cmd.n)
      PROVE  At(i)' = Dword(cmd, copied + (i - Used))
  <2>1. /\ i - Used \in 1..cmd.n /\ (i - Used) - 1 \in Nat /\ Used + ((i - Used) - 1) = i - 1
        /\ copied + (i - Used) = i - Used
    BY <1>1
  <2>2. Slot(next_cmd, (i - Used) - 1) = Slot(stop, i - 1)
    BY <1>1, <2>1, SlotFromNext, SMTT(60)
  <2> QED
    BY <1>1, <1>2, <2>1, <2>2 DEF At
<1>6. ASSUME NEW i \in (Used + 1)..(Used + cmd.n), NEW v \in Fences
      PROVE  EndAt(i, v)' <=> cmd.op = "fence" /\ copied + (i - Used) = 2 /\ cmd.val = v
  <2>1. copied + (i - Used) \in Nat
    BY <1>1
  <2>2. Dword(cmd, copied + (i - Used)) = FenceEnd(v)
          <=> cmd.op = "fence" /\ copied + (i - Used) = 2 /\ cmd.val = v
    BY <1>1, <2>1, FenceEndOf
  <2>3. EndAt(i, v)' <=> At(i)' = FenceEnd(v)
    BY DEF EndAt, FenceEnd
  <2> QED
    BY <1>5, <2>2, <2>3
<1> QED
  BY <1>1, <1>2, <1>3, <1>4, <1>5, <1>6 DEF Grown

LEMMA CopyGrows ==
  ASSUME FifoInv, NEW t \in Threads, CopyDword(t)
  PROVE  Grown(1)
<1> USE DEF FifoInv, TypeOK
<1>1. /\ cmd \in Command /\ cmd.n \in Nat /\ copied < cmd.n /\ copied \in Nat
      /\ Used + cmd.n - copied < RingSize /\ Used \in Nat /\ Used + 1 < RingSize
      /\ bounce[copied + 1] = Dword(cmd, copied + 1)
  BY CommandLength, UsedRange, SMTT(60) DEF CopyDword, BuildingOK, RoomReserved
<1>2. UNCHANGED <<caps, stop, fence>> /\ next_cmd' = Slot(next_cmd, 1)
      /\ mem' = [mem EXCEPT ![next_cmd] = bounce[copied + 1]]
  BY DEF CopyDword
<1>3. Used' = Used + 1
  BY <1>1, <1>2, UsedAfterPublish
<1>4. next_cmd = Slot(stop, Used)
  <2>1. Slot(next_cmd, 0) = next_cmd
    BY DEF Slot
  <2> QED
    BY <1>1, <2>1, SlotFromNext
<1>5. ASSUME NEW i \in 1..Used PROVE At(i)' = At(i)
  <2>1. Slot(stop, i - 1) # Slot(stop, (Used + 1) - 1)
    <3>1. i \in 1..RingSize /\ Used + 1 \in 1..RingSize /\ i # Used + 1
      BY <1>1
    <3> QED
      BY <3>1, SlotsApart
  <2>2. mem'[Slot(stop, i - 1)] = mem[Slot(stop, i - 1)]
    BY <1>1, <1>2, <1>4, <2>1
  <2> QED
    BY <1>2, <2>2 DEF At
<1>6. ASSUME NEW i \in (Used + 1)..(Used + 1) PROVE At(i)' = Dword(cmd, copied + (i - Used))
  <2>1. i - 1 = Used /\ i - Used = 1
    BY <1>1
  <2> QED
    BY <1>1, <1>2, <1>4, <2>1 DEF At
<1>7. ASSUME NEW i \in (Used + 1)..(Used + 1), NEW v \in Fences
      PROVE  EndAt(i, v)' <=> cmd.op = "fence" /\ copied + (i - Used) = 2 /\ cmd.val = v
  <2>1. copied + (i - Used) \in Nat
    BY <1>1
  <2>2. Dword(cmd, copied + (i - Used)) = FenceEnd(v)
          <=> cmd.op = "fence" /\ copied + (i - Used) = 2 /\ cmd.val = v
    BY <1>1, <2>1, FenceEndOf
  <2>3. EndAt(i, v)' <=> At(i)' = FenceEnd(v)
    BY DEF EndAt, FenceEnd
  <2> QED
    BY <1>6, <2>2, <2>3
<1>8. \A i \in 1..Used, v \in Fences : EndAt(i, v)' <=> EndAt(i, v)
  BY <1>5 DEF EndAt, FenceEnd
<1> QED
  BY <1>1, <1>2, <1>3, <1>5, <1>6, <1>7, <1>8 DEF Grown

LEMMA ReadShifts ==
  ASSUME TypeOK, DeviceRead
  PROVE  /\ Used \in Nat \ {0} /\ Used' = Used - 1
         /\ \A i \in 1..(Used - 1) : At(i)' = At(i + 1)
         /\ \A i \in 1..(Used - 1), v \in Fences : EndAt(i, v)' <=> EndAt(i + 1, v)
         /\ \A v \in Fences : EndAt(1, v) => fence' = v
         /\ (\A v \in Fences : ~EndAt(1, v)) => fence' = fence
<1> USE DEF TypeOK
<1>1. /\ stop' = Slot(stop, 1) /\ next_cmd' = next_cmd /\ stop # next_cmd /\ caps' = caps
      /\ mem' = [mem EXCEPT ![stop] = Free]
  BY DEF DeviceRead
<1>2. Used \in Nat \ {0} /\ Used < RingSize /\ Used' = Used - 1
  BY <1>1, UsedRange, UsedAfterRead DEF Used
<1>3. Slot(stop, 1 - 1) = stop
  BY DEF Slot
<1>4. ASSUME NEW i \in 1..(Used - 1) PROVE At(i)' = At(i + 1)
  <2>1. Slot(stop', i - 1) = Slot(stop, (i + 1) - 1)
    BY <1>1, <1>2, SlotAfterRead
  <2>2. Slot(stop, (i + 1) - 1) # Slot(stop, 1 - 1)
    <3>1. i + 1 \in 1..RingSize /\ 1 \in 1..RingSize /\ i + 1 # 1
      BY <1>2
    <3> QED
      BY <3>1, SlotsApart
  <2>3. mem'[Slot(stop', i - 1)] = mem[Slot(stop, (i + 1) - 1)]
    BY <1>1, <1>3, <2>1, <2>2
  <2> QED
    BY <2>3 DEF At
<1>5. \A v : EndAt(1, v) <=> mem[stop] = FenceEnd(v)
  BY <1>3 DEF EndAt, At
<1>6. \A i \in 1..(Used - 1), v \in Fences : EndAt(i, v)' <=> EndAt(i + 1, v)
  BY <1>4 DEF EndAt, FenceEnd
<1> QED
  BY <1>2, <1>4, <1>5, <1>6, FenceRead

LEMMA OrderSteady ==
  ASSUME FifoInv, Order, Steady, Coming' = Coming, Left' = Left,
         Sending' => NextFence' = Succ(cmd'.val)
  PROVE  Order'
<1>1. fence \in Fences /\ Used \in Nat
  BY UsedRange DEF FifoInv, TypeOK
<1>2. /\ Used' = Used /\ fence' = fence
      /\ \A i \in 1..Used, v \in Fences : EndAt(i, v)' <=> EndAt(i, v)
  BY DEF Steady
<1> QED
  BY <1>1, <1>2, OrderKept

(* While a thread is building a command the invariant says which; when the *)
(* lock holder builds none, no fence is being sent.                        *)
LEMMA BuildingNow ==
  ASSUME FifoInv, NEW t \in Threads
  PROVE  /\ pc[t] \in {"reserve", "full", "fill", "commit", "publish", "copy"} =>
              cmd \in Command /\ cmd.n \in Nat \ {0} /\ cmd # Nothing
              /\ (pc[t] # "copy" => copied = 0) /\ (pc[t] = "copy" => copied < cmd.n)
         /\ pc[t] = "locked" => cmd = Nothing /\ copied = 0
BY CommandLength, Alone DEF FifoInv, BuildingOK, NoStrayReservation

LEMMA NextOrder == FifoInv /\ Staged /\ Order /\ [Next]_vars => Order'
<1> SUFFICES ASSUME FifoInv, Staged, Order, [Next]_vars PROVE Order'
  OBVIOUS
<1> USE DEF regs, driver, fences
<1>0. /\ TypeOK /\ fence \in Fences /\ Used \in 0..(RingSize - 1) /\ copied \in Nat
      /\ Numbered
  BY UsedRange DEF FifoInv, TypeOK, Order
<1>1. ASSUME UNCHANGED <<caps, mem, next_cmd, stop, fence>> PROVE Steady
  BY <1>0, <1>1, RingSteady
<1>2. ASSUME UNCHANGED <<caps, mem, next_cmd, stop, fence, m_next_fence, cmd, copied>>
      PROVE  Order'
  <2>1. Steady
    BY <1>1, <1>2
  <2>2. Coming' = Coming /\ Left' = Left /\ (Sending' => NextFence' = Succ(cmd'.val))
    BY <1>0, <1>2 DEF Coming, Left, Sending, NextFence, Numbered
  <2> QED
    BY <2>1, <2>2, OrderSteady
<1>3. ASSUME NEW t \in Threads, FIFOReserve(t) PROVE Order'
  <2>1. Steady /\ m_next_fence' = m_next_fence /\ cmd'.op = "cmd" /\ cmd = Nothing
    BY <1>1, <1>3, BuildingNow DEF FIFOReserve, Transition
  <2>2. ~Sending /\ ~Sending' /\ NextFence' = NextFence
    BY <2>1 DEF Sending, NextFence
  <2> QED
    BY <2>1, <2>2, OrderSteady DEF Coming, Left
<1>4. ASSUME NEW t \in Threads, FIFOCommitNothing(t) PROVE Order'
  <2>1. Steady /\ m_next_fence' = m_next_fence /\ cmd' = Nothing /\ cmd.op = "cmd"
    BY <1>1, <1>4 DEF FIFOCommitNothing
  <2>2. ~Sending /\ ~Sending' /\ NextFence' = NextFence
    BY <2>1 DEF Sending, NextFence
  <2> QED
    BY <2>1, <2>2, OrderSteady DEF Coming, Left
<1>5. ASSUME NEW t \in Threads, InsertFence(t) PROVE Order'
  <2>1. /\ Steady /\ cmd = Nothing /\ copied = 0 /\ copied' = 0
        /\ m_next_fence' = (NextFence + 1) % FenceMod
        /\ cmd' = [op |-> "fence", val |-> NextFence, n |-> 2]
    BY <1>1, <1>5, BuildingNow DEF InsertFence, Transition
  <2>2. NextFence \in Numbers /\ NextFence' = Succ(NextFence)
    BY <1>0, <2>1, NextNumber
  <2>3. cmd' \in Command
    BY <2>1, <2>2, BuiltCommands DEF Numbers, Fences
  <2>4. ~Sending /\ Sending' /\ cmd'.val = NextFence
    BY <2>1, <2>3, NothingAssumption DEF Sending
  <2> QED
    BY <2>1, <2>2, <2>4, OrderSteady DEF Coming, Left
<1>6. ASSUME NEW t \in Threads, Fill(t) \/ CopyChunks(t) PROVE Order'
  <2>1. Steady
    BY <1>6, FillSteady
  <2>2. UNCHANGED <<m_next_fence, cmd, copied>>
    BY <1>6 DEF Fill, CopyChunks
  <2>3. Coming' = Coming /\ Left' = Left /\ (Sending' => NextFence' = Succ(cmd'.val))
    BY <1>0, <2>2 DEF Coming, Left, Sending, NextFence, Numbered
  <2> QED
    BY <2>1, <2>3, OrderSteady
<1>7. ASSUME NEW n \in Nat \ {0}, Grown(n), cmd \in Command, copied + n = cmd.n,
             cmd' = Nothing, copied' = 0, m_next_fence' = m_next_fence
      PROVE  Order'
  <2>1. cmd # Nothing /\ ~Sending' /\ Left' = 2 /\ Coming' = NextFence
    BY <1>7, NothingAssumption DEF Sending, Left, Coming, NextFence
  <2>2. CASE cmd.op = "fence"
    <3>1. Sending /\ cmd.n = 2 /\ Coming = cmd.val
      BY <1>7, <2>1, <2>2 DEF Sending, Command, Coming
    <3>2. Coming' = Succ(Coming) /\ Coming \in Fences
      BY <1>0, <2>1, <3>1 DEF Numbered, Numbers, Fences
    <3>3. Left = n /\ Left \in Nat
      BY <1>0, <1>7, <3>1 DEF Left
    <3> DEFINE e == Used + n
    <3>4. /\ e \in Nat /\ Used' = e /\ Used' < RingSize /\ fence' = fence
          /\ \A i \in 1..Used, v \in Fences : EndAt(i, v)' <=> EndAt(i, v)
      BY <1>0, <1>7 DEF Grown
    <3>5. ASSUME NEW i \in (Used + 1)..e, NEW v \in Fences
          PROVE  EndAt(i, v)' <=> i = e /\ v = Coming
      <4>1. EndAt(i, v)' <=> copied + (i - Used) = 2 /\ cmd.val = v
        BY <1>7, <2>2 DEF Grown
      <4>2. copied + (i - Used) = 2 <=> i = e
        BY <1>0, <1>7, <3>1
      <4> QED
        BY <3>1, <4>1, <4>2
    <3> HIDE DEF e
    <3> QED
      BY <1>0, <2>1, <3>2, <3>3, <3>4, <3>5, OrderBehindFence DEF e
  <2>3. CASE cmd.op # "fence"
    <3>1. ~Sending /\ Left = 2 /\ Coming = NextFence
      BY <2>3 DEF Sending, Left, Coming
    <3>2. /\ Used' = Used + n /\ fence' = fence
          /\ \A i \in 1..Used, v \in Fences : EndAt(i, v)' <=> EndAt(i, v)
          /\ \A i \in (Used + 1)..(Used + n), v \in Fences : ~EndAt(i, v)'
      BY <1>7, <2>3 DEF Grown
    <3> QED
      BY <1>0, <2>1, <3>1, <3>2, OrderBehindDwords
  <2> QED
    BY <2>2, <2>3
<1>8. ASSUME NEW t \in Threads, Publish(t) PROVE Order'
  <2>1. Grown(cmd.n)
    BY <1>8, PublishGrows
  <2>2. cmd \in Command /\ cmd.n \in Nat \ {0} /\ copied = 0
    BY <1>8, BuildingNow DEF Publish, Transition
  <2>3. cmd' = Nothing /\ copied' = 0 /\ m_next_fence' = m_next_fence
    BY <1>8, <2>2 DEF Publish, Finish
  <2> QED
    BY <1>7, <2>1, <2>2, <2>3
<1>9. ASSUME NEW t \in Threads, CopyDword(t) PROVE Order'
  <2>1. Grown(1)
    BY <1>9, CopyGrows
  <2>2. cmd \in Command /\ cmd.n \in Nat \ {0} /\ copied < cmd.n /\ cmd # Nothing
    BY <1>9, BuildingNow DEF CopyDword
  <2>3. m_next_fence' = m_next_fence
    BY <1>9 DEF CopyDword
  <2>4. CASE copied + 1 = cmd.n
    <3>1. cmd' = Nothing /\ copied' = 0
      BY <1>9, <2>4 DEF CopyDword, Finish
    <3> QED
      BY <1>7, <2>1, <2>2, <2>3, <2>4, <3>1
  <2>5. CASE copied + 1 # cmd.n
    <3>1. cmd' = cmd /\ copied' = copied + 1
      BY <1>9, <2>5 DEF CopyDword
    <3>2. cmd.op = "fence" => cmd.n = 2 /\ copied = 0
      BY <1>0, <2>2, <2>5 DEF Command
    <3>3. Coming' = Coming /\ (Sending' => NextFence' = Succ(cmd'.val))
      BY <1>0, <2>3, <3>1 DEF Coming, Sending, NextFence, Numbered
    <3>4. Left \in Nat /\ Left' \in Nat /\ Left' >= Left - 1
      BY <1>0, <3>1, <3>2 DEF Left, Sending
    <3>5. /\ Used' = Used + 1 /\ fence' = fence
          /\ \A i \in 1..Used, v \in Fences : EndAt(i, v)' <=> EndAt(i, v)
      BY <2>1 DEF Grown
    <3>6. ASSUME NEW i \in (Used + 1)..(Used + 1), NEW v \in Fences PROVE ~EndAt(i, v)'
      <4>1. EndAt(i, v)' => cmd.op = "fence" /\ copied + (i - Used) = 2
        BY <2>1 DEF Grown
      <4>2. i - Used = 1
        BY <1>0
      <4> QED
        BY <3>2, <4>1, <4>2
    <3> QED
      BY <1>0, <3>3, <3>4, <3>5, <3>6, OrderBehindDwords
  <2> QED
    BY <2>4, <2>5
<1>10. CASE DeviceRead
  <2>1. UNCHANGED <<caps, m_next_fence, cmd, copied>>
    BY <1>10 DEF DeviceRead
  <2>2. Coming' = Coming /\ Left' = Left /\ (Sending' => NextFence' = Succ(cmd'.val))
    BY <1>0, <2>1 DEF Coming, Left, Sending, NextFence, Numbered
  <2>3. Left \in Nat
    <3>1. Sending => copied <= 2
      <4>1. Sending => cmd \in Command /\ cmd.n = 2
        BY <1>0 DEF TypeOK, Sending, Command
      <4>2. \/ \E t \in Threads : pc[t] \in {"reserve", "full", "fill", "commit", "publish", "copy"}
            \/ copied = 0
        BY DEF FifoInv, TypeOK, BuildingOK
      <4> QED
        BY <1>0, <4>1, <4>2, BuildingNow
    <3> QED
      BY <1>0, <3>1 DEF Left
  <2> QED
    BY <1>0, <1>10, <2>2, <2>3, ReadShifts, OrderAfterRead
<1>11. ASSUME NEW t \in Threads,
              ReserveInPlace(t) \/ ReserveBounce(t) \/ FIFOFull(t) \/ ReserveAgain(t)
                \/ CommitInPlace(t) \/ CommitDwords(t) \/ InsertFenceNoCap(t)
       PROVE  Order'
  BY <1>2, <1>11 DEF ReserveInPlace, ReserveBounce, FIFOFull, ReserveAgain, CommitInPlace,
                     CommitDwords, InsertFenceNoCap
<1>12. ASSUME NEW t \in Threads,
              lockDevice(t) \/ unlockDevice(t) \/ SyncToFencePassed(t) \/ SyncToFenceBegin(t)
                \/ SyncToFenceEnd(t) \/ ForgetFence(t) \/ SyncFIFOBegin(t) \/ SyncFIFOEnd(t)
                \/ SetMode(t)
       PROVE  Order'
  BY <1>2, <1>12 DEF lockDevice, unlockDevice, SyncToFencePassed, SyncToFenceBegin,
                     SyncToFenceEnd, ForgetFence, SyncFIFOBegin, SyncFIFOEnd, SetMode
<1>13. ASSUME NEW t \in Threads,
              RingDoorBell(t) \/ RingDoorBellNoCap(t) \/ RaiseBusy(t) \/ WriteSync(t)
                \/ RingDone(t)
       PROVE  Order'
  BY <1>2, <1>13 DEF RingDoorBell, RingDoorBellNoCap, RaiseBusy, WriteSync, RingDone
<1>14. CASE DeviceSleep \/ DevicePoll \/ UNCHANGED vars
  BY <1>2, <1>14 DEF DeviceSleep, DevicePoll, vars
<1> QED
  BY <1>3, <1>4, <1>5, <1>6, <1>8, <1>9, <1>10, <1>11, <1>12, <1>13, <1>14
  DEF Next, Calling, Running, Device

-----------------------------------------------------------------------------
(* The command that is about to be published stays behind NEXT_CMD: the    *)
(* device frees another slot.                                              *)
Laid(t) == pc[t] = "publish" \/ (pc[t] = "commit" /\ ~m_using_bounce_buffer)

LEMMA StagedKept ==
  ASSUME Staged, UNCHANGED <<mem, next_cmd, cmd>>, \A t \in Threads : Laid(t)' => Laid(t)
  PROVE  Staged'
BY DEF Staged, Laid

LEMMA NextStaged == FifoInv /\ Staged /\ [Next]_vars => Staged'
<1> SUFFICES ASSUME FifoInv, Staged, [Next]_vars PROVE Staged'
  OBVIOUS
<1> USE DEF regs, driver, fences, Transition
<1>0. /\ next_cmd \in Min..(Max - 1) /\ stop \in Min..(Max - 1) /\ pc \in [Threads -> Steps]
      /\ Used \in 0..(RingSize - 1)
  BY UsedRange DEF FifoInv, TypeOK
<1>1. \A t \in Threads : pc[t] # "idle" => \A s \in Threads \ {t} : pc[s] = "idle"
  BY Alone DEF FifoInv
<1>2. ASSUME NEW t \in Threads, pc[t] # "idle",
             \E to \in {"locked", "reserve", "copy", "full"} : pc' = [pc EXCEPT ![t] = to]
      PROVE  Staged'
  BY <1>0, <1>1, <1>2 DEF Staged
<1>3. ASSUME NEW t \in Threads, Fill(t) \/ CopyChunks(t) PROVE Staged'
  <2>1. /\ cmd \in Command /\ cmd.n \in Nat /\ cmd.n <= RingSize /\ copied = 0
        /\ pc[t] # "idle" /\ UNCHANGED <<next_cmd, cmd, m_using_bounce_buffer>>
        /\ pc' = [pc EXCEPT ![t] = IF Fill(t) THEN "commit" ELSE "publish"]
    BY <1>3, CommandLength DEF Fill, CopyChunks, FifoInv, BuildingOK
  <2>2. CopyChunks(t) \/ ~m_using_bounce_buffer => mem' = Stored(next_cmd, cmd, cmd.n)
    BY <1>3, FillSteady
  <2>3. ASSUME NEW s \in Threads, Laid(s)' PROVE s = t /\ mem' = Stored(next_cmd, cmd, cmd.n)
    <3>1. s = t
      BY <1>0, <1>1, <2>1, <2>3 DEF Laid
    <3>2. CopyChunks(t) \/ ~m_using_bounce_buffer
      BY <1>0, <1>3, <2>1, <2>3, <3>1 DEF Laid
    <3> QED
      BY <2>2, <3>1, <3>2
  <2>4. \A k \in 1..cmd.n : Stored(next_cmd, cmd, cmd.n)[Slot(next_cmd, k - 1)] = Dword(cmd, k)
    BY <1>0, <2>1, StoredThere
  <2> QED
    BY <2>1, <2>3, <2>4 DEF Staged, Laid
<1>4. ASSUME NEW t \in Threads,
             FIFOReserve(t) \/ InsertFence(t) \/ FIFOFull(t) \/ ReserveAgain(t)
               \/ FIFOCommitNothing(t) \/ CommitDwords(t)
      PROVE  Staged'
  BY <1>2, <1>4 DEF FIFOReserve, InsertFence, FIFOFull, ReserveAgain, FIFOCommitNothing,
                    CommitDwords
<1>5. ASSUME NEW t \in Threads, Publish(t) PROVE Staged'
  BY <1>2, <1>5 DEF Publish
<1>6. ASSUME NEW t \in Threads, CopyDword(t) PROVE Staged'
  <2>1. pc[t] = "copy" /\ (pc' = pc \/ pc' = [pc EXCEPT ![t] = "locked"])
    BY <1>6 DEF CopyDword
  <2>2. CASE pc' = pc
    <3>1. pc' = [pc EXCEPT ![t] = "copy"]
      BY <1>0, <2>1, <2>2
    <3> QED
      BY <1>2, <2>1, <3>1
  <2> QED
    BY <1>2, <2>1, <2>2
<1>7. ASSUME NEW t \in Threads, CommitInPlace(t) PROVE Staged'
  <2>1. UNCHANGED <<mem, next_cmd, cmd>> /\ ~m_using_bounce_buffer /\ ~m_using_bounce_buffer'
        /\ pc[t] = "commit" /\ pc' = [pc EXCEPT ![t] = "publish"]
    BY <1>7 DEF CommitInPlace
  <2>2. \A s \in Threads : Laid(s)' => Laid(s)
    BY <1>0, <2>1 DEF Laid
  <2> QED
    BY <2>1, <2>2, StagedKept
<1>8. ASSUME NEW t \in Threads, ReserveInPlace(t) \/ ReserveBounce(t) PROVE Staged'
  <2>1. pc[t] = "reserve" /\ pc' = [pc EXCEPT ![t] = "fill"]
    BY <1>8 DEF ReserveInPlace, ReserveBounce
  <2> QED
    BY <1>0, <1>1, <2>1 DEF Staged
<1>9. CASE DeviceRead
  <2>1. mem' = [mem EXCEPT ![stop] = Free]
        /\ UNCHANGED <<next_cmd, cmd, pc, m_using_bounce_buffer>> /\ stop # next_cmd
    BY <1>9 DEF DeviceRead
  <2>2. ASSUME NEW t \in Threads, Laid(t), NEW k \in 1..cmd.n
        PROVE  mem[Slot(next_cmd, k - 1)] = Dword(cmd, k) /\ Slot(next_cmd, k - 1) # stop
    <3>1. mem[Slot(next_cmd, k - 1)] = Dword(cmd, k)
      BY <2>2 DEF Staged, Laid
    <3>2. cmd \in Command /\ cmd.n \in Nat /\ copied = 0 /\ Used + cmd.n < RingSize
      BY <2>2, BuildingNow, <1>0, CommandLength DEF Laid, FifoInv, RoomReserved
    <3>3. Used # 0
      BY <1>0, <2>1 DEF Used
    <3>4. k - 1 \in Nat /\ Used + (k - 1) < RingSize /\ Used + k \in 1..RingSize
          /\ (Used + k) - 1 = Used + (k - 1) /\ 1 \in 1..RingSize /\ Used + k # 1
      BY <1>0, <3>2, <3>3
    <3>5. Slot(next_cmd, k - 1) = Slot(stop, (Used + k) - 1)
      BY <1>0, <3>4, SlotFromNext
    <3>6. Slot(stop, (Used + k) - 1) # Slot(stop, 1 - 1)
      BY <1>0, <3>4, SlotsApart
    <3>7. Slot(stop, 1 - 1) = stop
      BY <1>0 DEF Slot
    <3> QED
      BY <3>1, <3>5, <3>6, <3>7
  <2>3. ASSUME NEW t \in Threads, Laid(t), NEW k \in 1..cmd.n
        PROVE  mem'[Slot(next_cmd, k - 1)] = Dword(cmd, k)
    <3>1. Slot(next_cmd, k - 1) \in DOMAIN mem
      <4>0. cmd.n \in Nat /\ cmd.n <= RingSize
        BY <2>3, CommandLength DEF Laid, FifoInv, BuildingOK
      <4>1. k - 1 \in Nat /\ k - 1 <= RingSize
        BY <4>0
      <4> QED
        BY <1>0, <4>1, SlotInRing DEF FifoInv, TypeOK
    <3> QED
      BY <2>1, <2>2, <2>3, <3>1
  <2> QED
    BY <2>1, <2>3 DEF Staged, Laid
<1>10. ASSUME NEW t \in Threads,
              lockDevice(t) \/ unlockDevice(t) \/ SyncToFencePassed(t) \/ SyncToFenceBegin(t)
                \/ SyncToFenceEnd(t) \/ ForgetFence(t) \/ SyncFIFOBegin(t) \/ SyncFIFOEnd(t)
                \/ SetMode(t) \/ InsertFenceNoCap(t)
       PROVE  Staged'
  <2>1. UNCHANGED <<mem, next_cmd, cmd, m_using_bounce_buffer>>
    BY <1>10 DEF lockDevice, unlockDevice, SyncToFencePassed, SyncToFenceBegin,
                 SyncToFenceEnd, ForgetFence, SyncFIFOBegin, SyncFIFOEnd, SetMode,
                 InsertFenceNoCap
  <2>2. \A s \in Threads : Laid(s)' => Laid(s)
    BY <1>0, <1>10, <2>1 DEF lockDevice, unlockDevice, SyncToFencePassed, SyncToFenceBegin,
                 SyncToFenceEnd, ForgetFence, SyncFIFOBegin, SyncFIFOEnd, SetMode,
                 InsertFenceNoCap, Laid
  <2> QED
    BY <2>1, <2>2, StagedKept
<1>11. ASSUME NEW t \in Threads,
              RingDoorBell(t) \/ RingDoorBellNoCap(t) \/ RaiseBusy(t) \/ WriteSync(t)
                \/ RingDone(t)
       PROVE  Staged'
  <2>1. UNCHANGED <<mem, next_cmd, cmd, m_using_bounce_buffer>>
    BY <1>11 DEF RingDoorBell, RingDoorBellNoCap, RaiseBusy, WriteSync, RingDone
  <2>2. \A s \in Threads : Laid(s)' => Laid(s)
    BY <1>0, <1>11, <2>1 DEF RingDoorBell, RingDoorBellNoCap, RaiseBusy, WriteSync, RingDone,
                             Laid
  <2> QED
    BY <2>1, <2>2, StagedKept
<1>12. CASE DeviceSleep \/ DevicePoll \/ UNCHANGED vars
  BY <1>12, StagedKept DEF DeviceSleep, DevicePoll, vars, Laid
<1> QED
  BY <1>3, <1>4, <1>5, <1>6, <1>7, <1>8, <1>9, <1>10, <1>11, <1>12
  DEF Next, Calling, Running, Device

-----------------------------------------------------------------------------
(* A fence whose last dword is in the ring has not passed, however often   *)
(* the numbers have wrapped.                                               *)
LEMMA NotYetPassed ==
  ASSUME TypeOK, Order, NEW i \in 1..Used, NEW v \in Fences, EndAt(i, v)
  PROVE  ~HasFencePassedUnguarded(v)
<1>1. /\ fence \in Fences /\ Used \in 0..(RingSize - 1) /\ v \in Numbers
      /\ Succ(fence) \in Fences /\ Succ(fence) \in Numbers /\ Ahead(fence, Succ(fence)) = 1
  BY UsedRange, SuccAhead DEF TypeOK, Order, Numbered
<1>2. PICK k \in 1..i : EndAt(k, Succ(fence))
  BY DEF Order, Oldest
<1>3. 2 * Ahead(fence, v) <= RingSize
  <2>1. CASE k = i
    <3>1. v = Succ(fence)
      BY <1>2, <2>1 DEF EndAt, FenceEnd, Dword
    <3> QED
      BY <1>1, <3>1
  <2>2. CASE k # i
    <3>0. k \in 1..Used /\ k < i
      BY <1>1, <1>2, <2>2
    <3>1. 2 * Ahead(Succ(fence), v) <= i - k
      BY <1>1, <1>2, <3>0 DEF Order, Ordered
    <3>2. Ahead(Succ(fence), v) \in 1..(FenceMod - 1)
      BY <1>1, AheadRange
    <3>3. Ahead(Succ(fence), v) < FenceMod - 1
      BY <1>1, <3>0, <3>1, <3>2, CommandAssumption
    <3>4. Ahead(fence, v) = Ahead(Succ(fence), v) + 1
      BY <1>1, <3>3, AheadBefore
    <3> QED
      BY <1>1, <3>0, <3>1, <3>2, <3>4
  <2> QED
    BY <2>1, <2>2
<1> QED
  BY <1>1, <1>3, NotPassed

(* What each thread remembers of its last fence stays where the fence is.  *)
LEMMA RememberedKept ==
  ASSUME TypeOK, Remembered, Used' >= Used, Used' \in Nat, UNCHANGED caps,
         \A i \in 1..Used, v \in Fences : EndAt(i, v)' <=> EndAt(i, v),
         \A t \in Threads :
           \/ behind'[t] = behind[t] /\ held_fence'[t] = held_fence[t]
           \/ behind'[t] = 0
           \/ behind'[t] = Used' /\ (CapFence => EndAt(Used, held_fence[t])')
  PROVE  Remembered'
<1> SUFFICES ASSUME NEW t \in Threads
             PROVE  /\ behind'[t] <= Used'
                    /\ CapFence /\ behind'[t] > 0 => EndAt(behind[t], held_fence[t])'
  BY DEF Remembered, CapFence
<1>1. /\ behind[t] \in Nat /\ held_fence[t] \in Fences /\ behind[t] <= Used /\ Used \in Nat
      /\ CapFence /\ behind[t] > 0 => EndAt(behind[t], held_fence[t])
  BY UsedRange DEF TypeOK, Remembered
<1>2. CASE behind'[t] = behind[t] /\ held_fence'[t] = held_fence[t]
  BY <1>1, <1>2
<1>3. CASE behind'[t] = 0
  BY <1>3
<1>4. CASE behind'[t] = Used' /\ (CapFence => EndAt(Used, held_fence[t])')
  BY <1>4
<1> QED
  BY <1>2, <1>3, <1>4

LEMMA NextRemembered == FifoInv /\ Staged /\ Remembered /\ [Next]_vars => Remembered'
<1> SUFFICES ASSUME FifoInv, Staged, Remembered, [Next]_vars PROVE Remembered'
  OBVIOUS
<1> USE DEF regs, driver, fences
<1>0. /\ TypeOK /\ Used \in 0..(RingSize - 1)
      /\ held_fence \in [Threads -> Fences] /\ behind \in [Threads -> Nat]
  BY UsedRange DEF FifoInv, TypeOK
<1>1. ASSUME Steady, UNCHANGED <<held_fence, behind>> PROVE Remembered'
  <2>1. /\ Used' >= Used /\ Used' \in Nat /\ UNCHANGED caps
        /\ \A i \in 1..Used, v \in Fences : EndAt(i, v)' <=> EndAt(i, v)
        /\ \A t \in Threads : behind'[t] = behind[t] /\ held_fence'[t] = held_fence[t]
    BY <1>0, <1>1 DEF Steady
  <2> QED
    BY <1>0, <2>1, RememberedKept
<1>2. ASSUME UNCHANGED <<caps, mem, next_cmd, stop, fence, held_fence, behind>>
      PROVE  Remembered'
  <2>1. Steady
    BY <1>0, <1>2, RingSteady
  <2> QED
    BY <1>1, <1>2, <2>1
<1>3. ASSUME NEW t \in Threads, Fill(t) \/ CopyChunks(t) PROVE Remembered'
  <2>1. Steady
    BY <1>3, FillSteady
  <2>2. UNCHANGED <<held_fence, behind>>
    BY <1>3 DEF Fill, CopyChunks
  <2> QED
    BY <1>1, <2>1, <2>2
<1>4. ASSUME NEW t \in Threads, NEW n \in Nat \ {0}, Grown(n), cmd \in Command,
             copied + n = cmd.n, Finish(t, Used + n)
      PROVE  Remembered'
  <2>1. /\ Used' = Used + n /\ Used' >= Used /\ Used' \in Nat /\ UNCHANGED caps
        /\ \A i \in 1..Used, v \in Fences : EndAt(i, v)' <=> EndAt(i, v)
    BY <1>0, <1>4 DEF Grown
  <2>2. CASE cmd.op = "fence"
    <3>1. cmd.n = 2 /\ cmd.val \in Fences
      BY <1>4, <2>2 DEF Command
    <3>2. held_fence' = [held_fence EXCEPT ![t] = cmd.val]
          /\ behind' = [behind EXCEPT ![t] = Used + n]
      BY <1>4, <2>2 DEF Finish
    <3>3. EndAt(Used, held_fence[t])'
      <4> DEFINE e == Used + n
      <4>1. e \in (Used + 1)..(Used + n) /\ copied + (e - Used) = 2
        BY <1>0, <1>4, <3>1
      <4>2. Used' = e /\ held_fence'[t] = cmd.val
        BY <1>0, <2>1, <3>2
      <4> HIDE DEF e
      <4>3. \A i \in (Used + 1)..(Used + n), v \in Fences : i = e /\ v = cmd.val => EndAt(i, v)'
        BY <1>4, <2>2, <4>1 DEF Grown
      <4>4. \A i \in (Used + 1)..(Used + n), v \in Fences :
              i = Used' /\ v = held_fence'[t] => mem'[Slot(stop', i - 1)] = FenceEnd(v)
        BY <4>2, <4>3 DEF EndAt, At
      <4>5. Used' \in (Used + 1)..(Used + n) /\ held_fence'[t] \in Fences
        BY <3>1, <4>1, <4>2
      <4>6. mem'[Slot(stop', Used' - 1)] = FenceEnd(held_fence'[t])
        BY <4>4, <4>5
      <4> QED
        BY <4>6 DEF EndAt, At, FenceEnd
    <3>4. \A s \in Threads :
            \/ behind'[s] = behind[s] /\ held_fence'[s] = held_fence[s]
            \/ behind'[s] = Used' /\ (CapFence => EndAt(Used, held_fence[s])')
      BY <1>0, <2>1, <3>2, <3>3
    <3> QED
      BY <1>0, <2>1, <3>4, RememberedKept
  <2>3. CASE cmd.op # "fence"
    <3>1. \A s \in Threads : behind'[s] = behind[s] /\ held_fence'[s] = held_fence[s]
      BY <1>4, <2>3 DEF Finish
    <3> QED
      BY <1>0, <2>1, <3>1, RememberedKept
  <2> QED
    BY <2>2, <2>3
<1>5. ASSUME NEW t \in Threads, Publish(t) PROVE Remembered'
  <2>1. Grown(cmd.n)
    BY <1>5, PublishGrows
  <2>2. cmd \in Command /\ cmd.n \in Nat \ {0} /\ copied + cmd.n = cmd.n
    BY <1>5, BuildingNow DEF Publish, Transition
  <2>3. Finish(t, Used + cmd.n)
    BY <1>5 DEF Publish
  <2> QED
    BY <1>4, <2>1, <2>2, <2>3
<1>6. ASSUME NEW t \in Threads, CopyDword(t) PROVE Remembered'
  <2>1. Grown(1)
    BY <1>6, CopyGrows
  <2>2. cmd \in Command
    BY <1>6, BuildingNow DEF CopyDword
  <2>3. CASE copied + 1 = cmd.n
    <3>1. Finish(t, Used + 1)
      BY <1>6, <2>3 DEF CopyDword
    <3> QED
      BY <1>4, <2>1, <2>2, <2>3, <3>1
  <2>4. CASE copied + 1 # cmd.n
    <3>1. UNCHANGED <<held_fence, behind>>
      BY <1>6, <2>4 DEF CopyDword
    <3>2. /\ Used' >= Used /\ Used' \in Nat /\ UNCHANGED caps
          /\ \A i \in 1..Used, v \in Fences : EndAt(i, v)' <=> EndAt(i, v)
      BY <1>0, <2>1 DEF Grown
    <3> QED
      BY <1>0, <3>1, <3>2, RememberedKept
  <2> QED
    BY <2>3, <2>4
<1>7. ASSUME NEW t \in Threads, ForgetFence(t) \/ InsertFenceNoCap(t) PROVE Remembered'
  <2>1. UNCHANGED <<caps, mem, next_cmd, stop, fence>>
    BY <1>7 DEF ForgetFence, InsertFenceNoCap
  <2>2. Steady
    BY <1>0, <2>1, RingSteady
  <2>3. /\ Used' = Used /\ Used' >= Used /\ Used' \in Nat /\ UNCHANGED caps
        /\ \A i \in 1..Used, v \in Fences : EndAt(i, v)' <=> EndAt(i, v)
    BY <1>0, <2>2 DEF Steady
  <2>4. CASE ForgetFence(t)
    <3>1. held_fence' = [held_fence EXCEPT ![t] = 0] /\ behind' = [behind EXCEPT ![t] = 0]
      BY <2>4 DEF ForgetFence
    <3>2. \A s \in Threads :
            \/ behind'[s] = behind[s] /\ held_fence'[s] = held_fence[s]
            \/ behind'[s] = 0
      BY <1>0, <3>1
    <3> QED
      BY <1>0, <2>3, <3>2, RememberedKept
  <2>5. CASE InsertFenceNoCap(t)
    <3>1. /\ ~CapFence' /\ held_fence' = [held_fence EXCEPT ![t] = 1]
          /\ behind' = [behind EXCEPT ![t] = Used]
      BY <2>1, <2>5 DEF InsertFenceNoCap, CapFence
    <3>2. \A s \in Threads :
            \/ behind'[s] = behind[s] /\ held_fence'[s] = held_fence[s]
            \/ behind'[s] = Used' /\ ~CapFence'
      BY <1>0, <2>3, <3>1
    <3>3. \A s \in Threads :
            \/ behind'[s] = behind[s] /\ held_fence'[s] = held_fence[s]
            \/ behind'[s] = Used' /\ (CapFence => EndAt(Used, held_fence[s])')
      BY <2>1, <3>1, <3>2 DEF CapFence
    <3> QED
      BY <1>0, <2>3, <3>3, RememberedKept
  <2> QED
    BY <1>7, <2>4, <2>5
<1>8. CASE DeviceRead
  <2>1. /\ caps' = caps /\ held_fence' = held_fence
        /\ behind' = [t \in Threads |-> IF behind[t] = 0 THEN 0 ELSE behind[t] - 1]
    BY <1>8 DEF DeviceRead
  <2>2. /\ Used \in Nat \ {0} /\ Used' = Used - 1
        /\ \A i \in 1..(Used - 1), v \in Fences : EndAt(i, v)' <=> EndAt(i + 1, v)
    BY <1>0, <1>8, ReadShifts
  <2> SUFFICES ASSUME NEW t \in Threads
               PROVE  /\ behind'[t] <= Used'
                      /\ CapFence /\ behind'[t] > 0 => EndAt(behind[t], held_fence[t])'
    BY <2>1 DEF Remembered, CapFence
  <2>3. /\ behind[t] \in Nat /\ held_fence[t] \in Fences /\ behind[t] <= Used
        /\ CapFence /\ behind[t] > 0 => EndAt(behind[t], held_fence[t])
    BY <1>0 DEF Remembered
  <2>4. behind'[t] <= Used'
    BY <2>1, <2>2, <2>3
  <2>5. ASSUME CapFence, behind'[t] > 0 PROVE EndAt(behind[t], held_fence[t])'
    <3>1. behind'[t] = behind[t] - 1 /\ behind[t] - 1 \in 1..(Used - 1)
      BY <2>1, <2>2, <2>3, <2>5
    <3>2. \A i \in 1..(Used - 1) : i = behind[t] - 1 => EndAt(i, held_fence[t])'
      <4> SUFFICES ASSUME NEW i \in 1..(Used - 1), i = behind[t] - 1
                   PROVE  EndAt(i, held_fence[t])'
        OBVIOUS
      <4>1. EndAt(i + 1, held_fence[t]) /\ i + 1 = behind[t]
        BY <2>3, <2>5, <3>1
      <4>2. \A v \in Fences : v = held_fence[t] => EndAt(i, v)'
        BY <2>2, <4>1
      <4> QED
        BY <2>1, <2>3, <4>2 DEF EndAt, FenceEnd
    <3> QED
      BY <3>1, <3>2 DEF EndAt, At
  <2> QED
    BY <2>4, <2>5
<1>9. ASSUME NEW t \in Threads,
             FIFOReserve(t) \/ InsertFence(t) \/ ReserveInPlace(t) \/ ReserveBounce(t)
               \/ FIFOFull(t) \/ ReserveAgain(t) \/ FIFOCommitNothing(t) \/ CommitInPlace(t)
               \/ CommitDwords(t)
      PROVE  Remembered'
  BY <1>2, <1>9 DEF FIFOReserve, InsertFence, ReserveInPlace, ReserveBounce, FIFOFull,
                    ReserveAgain, FIFOCommitNothing, CommitInPlace, CommitDwords
<1>10. ASSUME NEW t \in Threads,
              lockDevice(t) \/ unlockDevice(t) \/ SyncToFencePassed(t) \/ SyncToFenceBegin(t)
                \/ SyncToFenceEnd(t) \/ SyncFIFOBegin(t) \/ SyncFIFOEnd(t) \/ SetMode(t)
       PROVE  Remembered'
  BY <1>2, <1>10 DEF lockDevice, unlockDevice, SyncToFencePassed, SyncToFenceBegin,
                     SyncToFenceEnd, SyncFIFOBegin, SyncFIFOEnd, SetMode
<1>11. ASSUME NEW t \in Threads,
              RingDoorBell(t) \/ RingDoorBellNoCap(t) \/ RaiseBusy(t) \/ WriteSync(t)
                \/ RingDone(t)
       PROVE  Remembered'
  BY <1>2, <1>11 DEF RingDoorBell, RingDoorBellNoCap, RaiseBusy, WriteSync, RingDone
<1>12. CASE DeviceSleep \/ DevicePoll \/ UNCHANGED vars
  BY <1>2, <1>12 DEF DeviceSleep, DevicePoll, vars
<1> QED
  BY <1>3, <1>5, <1>6, <1>7, <1>8, <1>9, <1>10, <1>11, <1>12
  DEF Next, Calling, Running, Device

(* Nobody fills the ring while a thread waits, and the device goes to      *)
(* sleep with an empty ring.                                               *)
LEMMA NextAwake == FifoInv /\ AwakeForWaiter /\ [Next]_vars => AwakeForWaiter'
<1> SUFFICES ASSUME FifoInv, AwakeForWaiter, [Next]_vars,
                    NEW t \in Threads, pc'[t] = "syncwait", ~busy'
             PROVE  stop' = next_cmd'
  BY DEF AwakeForWaiter
<1> USE DEF regs, driver, fences, Transition
<1>0. pc \in [Threads -> Steps] /\ busy \in BOOLEAN
  BY DEF FifoInv, TypeOK
<1>1. \A s \in Threads : pc[s] # "idle" => \A r \in Threads \ {s} : pc[r] = "idle"
  BY Alone DEF FifoInv
<1>2. pc[t] = "syncwait" /\ ~busy => stop = next_cmd
  BY DEF AwakeForWaiter
<1>3. ASSUME NEW s \in Threads, pc[s] # "idle",
             pc' = pc \/ \E to \in Steps \ {"syncwait"} : pc' = [pc EXCEPT ![s] = to],
             pc[s] # "syncwait" \/ pc' # pc
      PROVE  FALSE
  BY <1>0, <1>1, <1>3
<1>4. CASE \E s \in Threads : Running(s)
  <2>1. PICK s \in Threads : Running(s)
    BY <1>4
  <2>2. pc[s] # "idle" /\ (pc[s] # "syncwait" \/ pc' # pc)
        /\ (pc' = pc \/ \E to \in Steps \ {"syncwait"} : pc' = [pc EXCEPT ![s] = to])
    <3>1. ASSUME ReserveInPlace(s) \/ ReserveBounce(s) \/ FIFOFull(s) \/ ReserveAgain(s)
                   \/ Fill(s) \/ FIFOCommitNothing(s) \/ CopyChunks(s) \/ CommitInPlace(s)
          PROVE  pc[s] # "idle" /\ pc[s] # "syncwait"
                 /\ \E to \in Steps \ {"syncwait"} : pc' = [pc EXCEPT ![s] = to]
      BY <3>1 DEF ReserveInPlace, ReserveBounce, FIFOFull, ReserveAgain, Fill,
                  FIFOCommitNothing, CopyChunks, CommitInPlace, Steps
    <3>2. ASSUME Publish(s) \/ CommitDwords(s) \/ ForgetFence(s) \/ SyncFIFOEnd(s)
                   \/ SetMode(s) \/ RaiseBusy(s) \/ WriteSync(s) \/ RingDone(s)
          PROVE  pc[s] # "idle" /\ pc[s] # "syncwait"
                 /\ \E to \in Steps \ {"syncwait"} : pc' = [pc EXCEPT ![s] = to]
      BY <3>2 DEF Publish, CommitDwords, ForgetFence, SyncFIFOEnd, SetMode, RaiseBusy,
                  WriteSync, RingDone, Steps
    <3>3. ASSUME CopyDword(s)
          PROVE  pc[s] # "idle" /\ pc[s] # "syncwait"
                 /\ (pc' = pc \/ \E to \in Steps \ {"syncwait"} : pc' = [pc EXCEPT ![s] = to])
      BY <3>3 DEF CopyDword, Steps
    <3>4. ASSUME SyncToFenceEnd(s)
          PROVE  pc[s] # "idle" /\ pc' # pc
                 /\ \E to \in Steps \ {"syncwait"} : pc' = [pc EXCEPT ![s] = to]
      BY <1>0, <3>4 DEF SyncToFenceEnd, Steps
    <3> QED
      BY <2>1, <3>1, <3>2, <3>3, <3>4 DEF Running
  <2> QED
    BY <1>3, <2>2
<1>5. ASSUME NEW s \in Threads, Calling(s) PROVE stop' = next_cmd'
  <2>1. ASSUME SyncToFenceBegin(s) PROVE FALSE
    BY <2>1 DEF SyncToFenceBegin
  <2>2. ASSUME lockDevice(s) PROVE stop' = next_cmd'
    BY <1>0, <1>2, <2>2 DEF lockDevice
  <2>3. ASSUME unlockDevice(s) \/ FIFOReserve(s) \/ InsertFence(s) \/ SyncToFencePassed(s)
                 \/ SyncFIFOBegin(s) \/ RingDoorBell(s) \/ RingDoorBellNoCap(s)
        PROVE  pc[s] = "locked" /\ \E to \in Steps \ {"syncwait"} : pc' = [pc EXCEPT ![s] = to]
    BY <2>3 DEF unlockDevice, FIFOReserve, InsertFence, SyncToFencePassed, SyncFIFOBegin,
                RingDoorBell, RingDoorBellNoCap, Steps
  <2>4. ASSUME InsertFenceNoCap(s) PROVE pc[s] = "locked" /\ pc' = pc
    BY <2>4 DEF InsertFenceNoCap
  <2> QED
    BY <1>3, <1>5, <2>1, <2>2, <2>3, <2>4 DEF Calling
<1>6. CASE DeviceRead
  BY <1>6 DEF DeviceRead
<1>7. CASE DeviceSleep
  BY <1>7 DEF DeviceSleep
<1>8. CASE DevicePoll
  BY <1>8 DEF DevicePoll
<1>9. CASE UNCHANGED vars
  BY <1>2, <1>9 DEF vars
<1> QED
  BY <1>4, <1>5, <1>6, <1>7, <1>8, <1>9 DEF Next, Device

(* A thread leaves its wait behind nothing: its fence has passed, or the   *)
(* device sleeps and the ring is empty.                                    *)
LEMMA NextSynced == FenceInv /\ [Next]_vars => SyncedMeansRead'
<1> SUFFICES ASSUME FenceInv, [Next]_vars, NEW t \in Threads, pc'[t] = "synced"
             PROVE  behind'[t] = 0
  BY DEF SyncedMeansRead
<1> USE DEF regs, driver, fences, Transition
<1>0. /\ TypeOK /\ FifoInv /\ Order /\ Remembered /\ AwakeForWaiter
      /\ pc \in [Threads -> Steps] /\ busy \in BOOLEAN
      /\ held_fence \in [Threads -> Fences] /\ behind \in [Threads -> Nat]
      /\ pc[t] = "synced" => behind[t] = 0
  BY DEF FenceInv, FifoInv, TypeOK, SyncedMeansRead
<1>1. \A s \in Threads : pc[s] # "idle" => \A r \in Threads \ {s} : pc[r] = "idle"
  BY <1>0, Alone DEF FifoInv
<1>2. ASSUME NEW s \in Threads, pc[s] \notin {"idle", "synced"},
             pc' = pc \/ \E to \in Steps \ {"synced"} : pc' = [pc EXCEPT ![s] = to]
      PROVE  FALSE
  BY <1>0, <1>1, <1>2
<1>3. ASSUME NEW s \in Threads, SyncToFencePassed(s) \/ SyncToFenceEnd(s)
      PROVE  behind'[t] = 0
  <2>1. /\ s = t /\ behind' = behind
        /\ \/ CapFence /\ HasFencePassedUnguarded(held_fence[t])
           \/ pc[t] = "syncwait" /\ ~busy
    <3>1. behind' = behind /\ pc[s] # "idle" /\ pc' = [pc EXCEPT ![s] = "synced"]
      BY <1>3 DEF SyncToFencePassed, SyncToFenceEnd
    <3>2. s = t
      BY <1>0, <1>1, <3>1
    <3> QED
      BY <1>3, <3>1, <3>2 DEF SyncToFencePassed, SyncToFenceEnd
  <2>2. behind[t] \in Nat /\ held_fence[t] \in Fences /\ behind[t] <= Used /\ Used \in Nat
        /\ (CapFence /\ behind[t] > 0 => EndAt(behind[t], held_fence[t]))
    BY <1>0, UsedRange DEF TypeOK, Remembered
  <2>3. CASE CapFence /\ HasFencePassedUnguarded(held_fence[t])
    <3>1. behind[t] > 0 => behind[t] \in 1..Used
      BY <2>2
    <3>2. ~(behind[t] > 0)
      BY <1>0, <2>2, <2>3, <3>1, NotYetPassed
    <3> QED
      BY <2>1, <2>2, <3>2
  <2>4. CASE pc[t] = "syncwait" /\ ~busy
    <3>1. Used = 0
      BY <1>0, <2>4 DEF AwakeForWaiter, Used, TypeOK
    <3> QED
      BY <2>1, <2>2, <3>1
  <2> QED
    BY <2>1, <2>3, <2>4
<1>4. ASSUME NEW s \in Threads, ForgetFence(s) PROVE behind'[t] = 0
  BY <1>0, <1>1, <1>4 DEF ForgetFence
<1>5. ASSUME NEW s \in Threads, lockDevice(s) PROVE behind'[t] = 0
  BY <1>0, <1>5 DEF lockDevice
<1>6. ASSUME NEW s \in Threads,
             unlockDevice(s) \/ FIFOReserve(s) \/ InsertFence(s) \/ SyncToFenceBegin(s)
               \/ SyncFIFOBegin(s) \/ RingDoorBell(s) \/ RingDoorBellNoCap(s)
               \/ InsertFenceNoCap(s)
      PROVE  behind'[t] = 0
  <2>1. pc[s] = "locked"
        /\ (pc' = pc \/ \E to \in Steps \ {"synced"} : pc' = [pc EXCEPT ![s] = to])
    BY <1>6 DEF unlockDevice, FIFOReserve, InsertFence, SyncToFenceBegin, SyncFIFOBegin,
                RingDoorBell, RingDoorBellNoCap, InsertFenceNoCap, Steps
  <2> QED
    BY <1>2, <2>1
<1>7. ASSUME NEW s \in Threads,
             ReserveInPlace(s) \/ ReserveBounce(s) \/ FIFOFull(s) \/ ReserveAgain(s)
               \/ Fill(s) \/ FIFOCommitNothing(s) \/ CopyChunks(s) \/ CommitInPlace(s)
      PROVE  behind'[t] = 0
  <2>1. pc[s] \notin {"idle", "synced"}
        /\ \E to \in Steps \ {"synced"} : pc' = [pc EXCEPT ![s] = to]
    BY <1>7 DEF ReserveInPlace, ReserveBounce, FIFOFull, ReserveAgain, Fill,
                FIFOCommitNothing, CopyChunks, CommitInPlace, Steps
  <2> QED
    BY <1>2, <2>1
<1>8. ASSUME NEW s \in Threads,
             Publish(s) \/ CommitDwords(s) \/ SyncFIFOEnd(s) \/ SetMode(s) \/ RaiseBusy(s)
               \/ WriteSync(s) \/ RingDone(s)
      PROVE  behind'[t] = 0
  <2>1. pc[s] \notin {"idle", "synced"}
        /\ \E to \in Steps \ {"synced"} : pc' = [pc EXCEPT ![s] = to]
    BY <1>8 DEF Publish, CommitDwords, SyncFIFOEnd, SetMode, RaiseBusy, WriteSync, RingDone,
                Steps
  <2> QED
    BY <1>2, <2>1
<1>9. ASSUME NEW s \in Threads, CopyDword(s) PROVE behind'[t] = 0
  <2>1. pc[s] = "copy" /\ (pc' = pc \/ pc' = [pc EXCEPT ![s] = "locked"])
    BY <1>9 DEF CopyDword
  <2> QED
    BY <1>2, <2>1 DEF Steps
<1>10. CASE DeviceRead
  BY <1>0, <1>10 DEF DeviceRead
<1>11. CASE DeviceSleep \/ DevicePoll \/ UNCHANGED vars
  BY <1>0, <1>11 DEF DeviceSleep, DevicePoll, vars
<1> QED
  BY <1>3, <1>4, <1>5, <1>6, <1>7, <1>8, <1>9, <1>10, <1>11
  DEF Next, Calling, Running, Device

LEMMA InitFence == Init => FenceInv
<1> SUFFICES ASSUME Init PROVE FenceInv
  OBVIOUS
<1>1. FifoInv
  BY InitInv
<1>2. Used = 0 /\ fence = 0 /\ cmd = Nothing /\ m_next_fence = 1
      /\ (\A t \in Threads : pc[t] = "idle" /\ behind[t] = 0)
  BY DEF Init, Used
<1>3. NextFence = 1 /\ Coming = 1 /\ ~Sending /\ Succ(fence) = 1 /\ Coming \in Numbers
  BY <1>2, CommandAssumption DEF NextFence, Coming, Sending, Succ, Numbers
<1>4. Order
  BY <1>2, <1>3 DEF Order, Numbered, Ordered, Oldest, Newest
<1>5. Staged /\ Remembered /\ AwakeForWaiter /\ SyncedMeansRead
  BY <1>2 DEF Staged, Remembered, AwakeForWaiter, SyncedMeansRead
<1> QED
  BY <1>1, <1>4, <1>5 DEF FenceInv

(* When SyncToFence returns, the device has read everything up to the      *)
(* fence the thread waited for, for every number of fences that were ever  *)
(* inserted: fence numbers wrap and are compared by their difference.      *)
THEOREM SyncedIsRead == Spec => []SyncedMeansRead
<1>1. FenceInv /\ [Next]_vars => FenceInv'
  BY NextType, NextRest, NextOrder, NextStaged, NextRemembered, NextAwake, NextSynced
  DEF FenceInv, FifoInv
<1>2. FenceInv => SyncedMeansRead
  BY DEF FenceInv
<1> QED
  BY InitFence, <1>1, <1>2, PTL DEF Spec

-----------------------------------------------------------------------------
(* The ring does what the queue of whole commands does.                    *)

(* Without SVGA_FIFO_CAP_RESERVE only a command of one dword goes to the   *)
(* ring in place, and only such a device sees a command grow.              *)
OneStore ==
  \A t \in Threads :
    /\ pc[t] = "publish" \/ (pc[t] \in {"fill", "commit"} /\ ~m_using_bounce_buffer)
         => CapReserve \/ cmd.n = 1
    /\ pc[t] = "copy" => ~CapReserve

QueueInv == FifoInv /\ Staged /\ OneStore

LEMMA NextOneStore == FifoInv /\ OneStore /\ [Next]_vars => OneStore'
<1> SUFFICES ASSUME FifoInv, OneStore, [Next]_vars PROVE OneStore'
  OBVIOUS
<1> USE DEF regs, driver, fences, Transition, CapReserve
<1>0. /\ pc \in [Threads -> Steps] /\ m_using_bounce_buffer \in BOOLEAN
      /\ \A t \in Threads : pc[t] # "idle" => \A s \in Threads \ {t} : pc[s] = "idle"
  BY Alone DEF FifoInv, TypeOK
<1>1. ASSUME NEW t \in Threads, pc[t] # "idle",
             \E to \in Steps \ {"fill", "commit", "publish", "copy"} : pc' = [pc EXCEPT ![t] = to]
      PROVE  OneStore'
  BY <1>0, <1>1 DEF OneStore
<1>2. ASSUME UNCHANGED <<caps, cmd, m_using_bounce_buffer>>,
             \A t \in Threads : pc'[t] \in {"fill", "commit", "publish", "copy"} => pc'[t] = pc[t]
      PROVE  OneStore'
  BY <1>2 DEF OneStore
<1>3. ASSUME NEW t \in Threads, ReserveInPlace(t) \/ ReserveBounce(t) PROVE OneStore'
  <2>1. /\ pc[t] = "reserve" /\ pc' = [pc EXCEPT ![t] = "fill"] /\ UNCHANGED <<caps, cmd>>
        /\ ~m_using_bounce_buffer' => CapReserve \/ m_reserved_size <= 1
    BY <1>3 DEF ReserveInPlace, ReserveBounce
  <2>2. cmd \in Command /\ cmd.n \in Nat \ {0} /\ m_reserved_size = cmd.n
    BY <2>1, CommandLength DEF FifoInv, BuildingOK
  <2> QED
    BY <1>0, <2>1, <2>2 DEF OneStore
<1>4. ASSUME NEW t \in Threads, Fill(t) PROVE OneStore'
  <2>1. /\ pc[t] = "fill" /\ pc' = [pc EXCEPT ![t] = "commit"]
        /\ UNCHANGED <<caps, cmd, m_using_bounce_buffer>>
    BY <1>4 DEF Fill
  <2> QED
    BY <1>0, <2>1 DEF OneStore
<1>5. ASSUME NEW t \in Threads, CopyChunks(t) \/ CommitInPlace(t) PROVE OneStore'
  <2>1. /\ pc[t] = "commit" /\ pc' = [pc EXCEPT ![t] = "publish"]
        /\ UNCHANGED <<caps, cmd, m_using_bounce_buffer>>
        /\ CapReserve \/ ~m_using_bounce_buffer
    BY <1>5 DEF CopyChunks, CommitInPlace
  <2> QED
    BY <1>0, <2>1 DEF OneStore
<1>6. ASSUME NEW t \in Threads, CommitDwords(t) PROVE OneStore'
  <2>1. /\ pc[t] = "commit" /\ pc' = [pc EXCEPT ![t] = "copy"]
        /\ UNCHANGED <<caps, cmd, m_using_bounce_buffer>> /\ ~CapReserve
    BY <1>6 DEF CommitDwords
  <2> QED
    BY <1>0, <2>1 DEF OneStore
<1>7. ASSUME NEW t \in Threads, CopyDword(t) PROVE OneStore'
  <2>1. pc[t] = "copy" /\ UNCHANGED caps
        /\ (pc' = pc \/ pc' = [pc EXCEPT ![t] = "locked"])
    BY <1>7 DEF CopyDword
  <2>2. CASE pc' = pc
    BY <1>0, <2>1, <2>2 DEF OneStore
  <2>3. CASE pc' = [pc EXCEPT ![t] = "locked"]
    BY <1>1, <2>1, <2>3 DEF Steps
  <2> QED
    BY <2>1, <2>2, <2>3
<1>8. ASSUME NEW t \in Threads,
             FIFOReserve(t) \/ InsertFence(t) \/ FIFOFull(t) \/ ReserveAgain(t)
               \/ FIFOCommitNothing(t) \/ Publish(t)
      PROVE  OneStore'
  BY <1>1, <1>8 DEF FIFOReserve, InsertFence, FIFOFull, ReserveAgain, FIFOCommitNothing,
                    Publish, Steps
<1>9. ASSUME NEW t \in Threads,
             lockDevice(t) \/ unlockDevice(t) \/ SyncToFencePassed(t) \/ SyncToFenceBegin(t)
               \/ SyncToFenceEnd(t) \/ ForgetFence(t) \/ SyncFIFOBegin(t) \/ SyncFIFOEnd(t)
               \/ SetMode(t) \/ InsertFenceNoCap(t)
      PROVE  OneStore'
  BY <1>0, <1>2, <1>9 DEF lockDevice, unlockDevice, SyncToFencePassed, SyncToFenceBegin,
       SyncToFenceEnd, ForgetFence, SyncFIFOBegin, SyncFIFOEnd, SetMode, InsertFenceNoCap
<1>10. ASSUME NEW t \in Threads,
              RingDoorBell(t) \/ RingDoorBellNoCap(t) \/ RaiseBusy(t) \/ WriteSync(t)
                \/ RingDone(t)
       PROVE  OneStore'
  BY <1>0, <1>2, <1>10 DEF RingDoorBell, RingDoorBellNoCap, RaiseBusy, WriteSync, RingDone
<1>11. CASE DeviceRead \/ DeviceSleep \/ DevicePoll \/ UNCHANGED vars
  BY <1>2, <1>11 DEF DeviceRead, DeviceSleep, DevicePoll, vars
<1> QED
  BY <1>3, <1>4, <1>5, <1>6, <1>7, <1>8, <1>9, <1>10, <1>11
  DEF Next, Calling, Running, Device

(* The dwords in the ring are a sequence of that length. *)
Cells == Dwords \cup {Free}

LEMMA SlotsSeq ==
  ASSUME NEW m \in [Min..(Max - 1) -> Cells], NEW a \in Min..(Max - 1), NEW u \in 0..RingSize
  PROVE  /\ [i \in 1..u |-> m[Slot(a, i - 1)]] \in Seq(Cells)
         /\ Len([i \in 1..u |-> m[Slot(a, i - 1)]]) = u
<1> DEFINE s == [i \in 1..u |-> m[Slot(a, i - 1)]]
<1>1. ASSUME NEW i \in 1..u PROVE m[Slot(a, i - 1)] \in Cells
  <2>1. i - 1 \in Nat /\ i - 1 <= RingSize
    OBVIOUS
  <2> QED
    BY <2>1, SlotInRing
<1>2. s \in [1..u -> Cells] /\ u \in Nat
  BY <1>1
<1>3. Seq(Cells) = UNION {[1..n -> Cells] : n \in Nat}
  BY SeqDef, Zenon
<1>4. s \in Seq(Cells)
  BY <1>2, <1>3
<1>5. Len(s) = u
  BY <1>2, <1>4
<1> QED
  BY <1>4, <1>5

LEMMA ContentsSeq ==
  ASSUME TypeOK
  PROVE  /\ RingContents \in Seq(Cells) /\ Len(RingContents) = Used /\ Used \in 0..(RingSize - 1)
         /\ \A i \in 1..Used : RingContents[i] = At(i)
<1>1. Used \in 0..(RingSize - 1) /\ Used \in 0..RingSize
  BY UsedRange DEF TypeOK
<1>2. mem \in [Min..(Max - 1) -> Cells] /\ stop \in Min..(Max - 1)
  BY DEF TypeOK, Cells
<1>3. RingContents = [i \in 1..Used |-> mem[Slot(stop, i - 1)]]
  BY DEF RingContents
<1> QED
  BY <1>1, <1>2, <1>3, SlotsSeq DEF At

LEMMA ContentsSeqNext ==
  ASSUME TypeOK'
  PROVE  /\ RingContents' \in Seq(Cells) /\ Len(RingContents') = Used'
         /\ \A i \in 1..Used' : RingContents'[i] = mem'[Slot(stop', i - 1)]
<1>1. Used' \in 0..RingSize
  <2>1. next_cmd' \in Min..(Max - 1) /\ stop' \in Min..(Max - 1)
    BY DEF TypeOK
  <2>2. Used' = IF next_cmd' >= stop' THEN next_cmd' - stop'
                ELSE RingSize - (stop' - next_cmd')
    BY DEF Used
  <2>3. \A a, b \in Min..(Max - 1) :
          (IF a >= b THEN a - b ELSE RingSize - (b - a)) \in 0..RingSize
    OBVIOUS
  <2> QED
    BY <2>1, <2>2, <2>3
<1>2. mem' \in [Min..(Max - 1) -> Cells] /\ stop' \in Min..(Max - 1)
  BY DEF TypeOK, Cells
<1>3. RingContents' = [i \in 1..Used' |-> mem'[Slot(stop', i - 1)]]
  BY DEF RingContents, Slot
<1> QED
  BY <1>1, <1>2, <1>3, SlotsSeq

LEMMA ContentsKept ==
  ASSUME TypeOK, UNCHANGED <<stop, next_cmd>>,
         \A i \in 1..Used : mem'[Slot(stop, i - 1)] = mem[Slot(stop, i - 1)]
  PROVE  RingContents' = RingContents
BY DEF RingContents, Used, Slot

(* n more dwords of the command. *)
LEMMA ContentsGrown ==
  ASSUME TypeOK, TypeOK', NEW n \in Nat, Grown(n), cmd \in Command, copied \in Nat
  PROVE  RingContents' = RingContents \o [k \in 1..n |-> Dword(cmd, copied + k)]
<1> DEFINE d == [k \in 1..n |-> Dword(cmd, copied + k)]
           s == RingContents
           r == RingContents'
<1>1. /\ s \in Seq(Cells) /\ Len(s) = Used /\ Used \in Nat
      /\ \A i \in 1..Used : s[i] = At(i)
  BY ContentsSeq
<1>2. /\ r \in Seq(Cells) /\ Len(r) = Used + n
      /\ \A i \in 1..Used : r[i] = At(i)
      /\ \A i \in (Used + 1)..(Used + n) : r[i] = Dword(cmd, copied + (i - Used))
  <2>1. /\ r \in Seq(Cells) /\ Len(r) = Used'
        /\ \A i \in 1..Used' : r[i] = mem'[Slot(stop', i - 1)]
    BY ContentsSeqNext
  <2> HIDE DEF r
  <2>2. /\ Used' = Used + n
        /\ \A i \in 1..Used : mem'[Slot(stop', i - 1)] = At(i)
        /\ \A i \in (Used + 1)..(Used + n) :
             mem'[Slot(stop', i - 1)] = Dword(cmd, copied + (i - Used))
    BY DEF Grown, At
  <2>3. \A i \in 1..Used : i \in 1..Used'
    BY <1>1, <2>2
  <2>4. \A i \in (Used + 1)..(Used + n) : i \in 1..Used'
    BY <1>1, <2>2
  <2> QED
    BY <2>1, <2>2, <2>3, <2>4
<1>3. d \in Seq(Cells) /\ Len(d) = n /\ \A k \in 1..n : d[k] = Dword(cmd, copied + k)
  <2>1. ASSUME NEW k \in 1..n PROVE Dword(cmd, copied + k) \in Cells
    BY DwordType DEF Cells
  <2>2. d \in [1..n -> Cells]
    BY <2>1
  <2>3. Seq(Cells) = UNION {[1..m -> Cells] : m \in Nat}
    BY SeqDef, Zenon
  <2>4. d \in Seq(Cells)
    BY <2>2, <2>3
  <2> QED
    BY <2>2, <2>4
<1> HIDE DEF s, r, d
<1>4. /\ s \o d \in Seq(Cells) /\ Len(s \o d) = Used + n
      /\ \A i \in 1..(Used + n) : (s \o d)[i] = IF i <= Used THEN s[i] ELSE d[i - Used]
  BY <1>1, <1>3, ConcatProperties
<1>5. ASSUME NEW i \in 1..(Used + n) PROVE r[i] = (s \o d)[i]
  <2>1. CASE i <= Used
    BY <1>1, <1>2, <1>4, <2>1
  <2>2. CASE ~(i <= Used)
    <3>1. i \in (Used + 1)..(Used + n) /\ i - Used \in 1..n
      BY <1>1, <2>2
    <3> QED
      BY <1>2, <1>3, <1>4, <2>2, <3>1
  <2> QED
    BY <2>1, <2>2
<1>6. r = s \o d
  BY <1>1, <1>2, <1>4, <1>5, SeqEqual
<1> QED
  BY <1>6 DEF s, r, d

(* The dword that the device reads is the first. *)
LEMMA ContentsRead ==
  ASSUME TypeOK, TypeOK', DeviceRead
  PROVE  RingContents # <<>> /\ RingContents' = Tail(RingContents)
<1> DEFINE s == RingContents
           r == RingContents'
<1>1. /\ s \in Seq(Cells) /\ Len(s) = Used
      /\ \A i \in 1..Used : s[i] = At(i)
  BY ContentsSeq
<1>2. /\ Used \in Nat \ {0} /\ Used' = Used - 1
      /\ \A i \in 1..(Used - 1) : At(i)' = At(i + 1)
  BY ReadShifts
<1>3. /\ r \in Seq(Cells) /\ Len(r) = Used - 1
      /\ \A i \in 1..(Used - 1) : r[i] = At(i + 1)
  <2>1. /\ r \in Seq(Cells) /\ Len(r) = Used'
        /\ \A i \in 1..Used' : r[i] = mem'[Slot(stop', i - 1)]
    BY ContentsSeqNext
  <2> HIDE DEF r
  <2> QED
    BY <1>2, <2>1 DEF At
<1> HIDE DEF s, r
<1>4. s # <<>>
  BY <1>1, <1>2
<1>5. /\ Tail(s) \in Seq(Cells) /\ Len(Tail(s)) = Used - 1
      /\ \A i \in 1..(Used - 1) : Tail(s)[i] = s[i + 1]
  BY <1>1, <1>2, <1>4, HeadTailProperties
<1>6. ASSUME NEW i \in 1..(Used - 1) PROVE r[i] = Tail(s)[i]
  <2>1. i + 1 \in 1..Used
    BY <1>2
  <2> QED
    BY <1>1, <1>3, <1>5, <2>1
<1>7. r = Tail(s)
  BY <1>2, <1>3, <1>5, <1>6, SeqEqual
<1> QED
  BY <1>4, <1>7 DEF s, r

(* Every step of the driver and of the device is a step of the queue, or   *)
(* leaves it alone: what Publish and CopyDword make visible is what the    *)
(* caller wrote, and a builder is never more than one.                     *)
LEMMA QueueStep == QueueInv /\ TypeOK' /\ [Next]_vars => [Queue!Next]_Queue!qvars
<1> SUFFICES ASSUME QueueInv, TypeOK', [Next]_vars PROVE [Queue!Next]_Queue!qvars
  OBVIOUS
<1> USE DEF regs, driver, fences
<1>0. TypeOK /\ FifoInv /\ Staged /\ OneStore /\ copied \in Nat /\ Used \in 0..(RingSize - 1)
  BY UsedRange DEF QueueInv, FifoInv, TypeOK
<1>1. ASSUME UNCHANGED <<mem, stop, next_cmd>> PROVE RingContents' = RingContents
  BY <1>0, <1>1, ContentsKept
<1>2. ASSUME UNCHANGED <<caps, mem, stop, next_cmd, cmd, copied>>
      PROVE  [Queue!Next]_Queue!qvars
  <2>1. RingContents' = RingContents
    BY <1>1, <1>2
  <2> QED
    BY <1>2, <2>1 DEF Queue!qvars, CapReserve
<1>3. ASSUME NEW t \in Threads, FIFOReserve(t) \/ InsertFence(t) PROVE [Queue!Next]_Queue!qvars
  <2>1. cmd' \in Command
    <3>1. CASE FIFOReserve(t)
      BY <3>1, BuiltCommands DEF FIFOReserve
    <3>2. CASE InsertFence(t)
      BY <1>0, <3>2, NextFenceType, BuiltCommands DEF InsertFence, TypeOK
    <3> QED
      BY <1>3, <3>1, <3>2
  <2>2. /\ pc[t] = "locked" /\ UNCHANGED <<caps, mem, stop, next_cmd, copied>>
    BY <1>3 DEF FIFOReserve, InsertFence, Transition
  <2>3. cmd = Nothing /\ RingContents' = RingContents
    BY <1>0, <1>1, <2>2, BuildingNow
  <2>4. Queue!Open(cmd')
    BY <2>2, <2>3 DEF Queue!Open, CapReserve
  <2> QED
    BY <2>1, <2>4 DEF Queue!Next
<1>4. ASSUME NEW t \in Threads, FIFOCommitNothing(t) PROVE [Queue!Next]_Queue!qvars
  <2>1. /\ pc[t] = "commit" /\ cmd # Nothing /\ cmd' = Nothing
        /\ UNCHANGED <<caps, mem, stop, next_cmd, copied>>
    BY <1>4 DEF FIFOCommitNothing, Transition
  <2>2. copied = 0 /\ RingContents' = RingContents
    BY <1>0, <1>1, <2>1, BuildingNow
  <2>3. Queue!Abandon
    BY <2>1, <2>2 DEF Queue!Abandon, CapReserve
  <2> QED
    BY <2>3 DEF Queue!Next
<1>5. ASSUME NEW t \in Threads, Fill(t) \/ CopyChunks(t) PROVE [Queue!Next]_Queue!qvars
  <2>1. UNCHANGED <<caps, stop, next_cmd, cmd, copied>>
    BY <1>5 DEF Fill, CopyChunks
  <2>2. RingContents' = RingContents
    BY <1>0, <1>5, <2>1, FillSteady, ContentsKept
  <2> QED
    BY <2>1, <2>2 DEF Queue!qvars, CapReserve
<1>6. ASSUME NEW t \in Threads, Publish(t) PROVE [Queue!Next]_Queue!qvars
  <2>1. Grown(cmd.n)
    BY <1>0, <1>6, PublishGrows
  <2>2. /\ pc[t] = "publish" /\ cmd \in Command /\ cmd.n \in Nat \ {0} /\ cmd # Nothing
        /\ copied = 0
    BY <1>0, <1>6, BuildingNow DEF Publish, Transition
  <2>3. cmd' = Nothing /\ copied' = 0 /\ caps' = caps
    BY <1>6, <2>2 DEF Publish, Finish
  <2>4. RingContents' = RingContents \o [k \in 1..cmd.n |-> Dword(cmd, copied + k)]
    BY <1>0, <2>1, <2>2, ContentsGrown
  <2>5. [k \in 1..cmd.n |-> Dword(cmd, copied + k)] = [k \in 1..cmd.n |-> Queue!Dword(cmd, k)]
    BY <2>2 DEF Dword, Queue!Dword
  <2>6. CASE CapReserve
    <3>1. Queue!Post
      BY <2>2, <2>3, <2>4, <2>5, <2>6 DEF Queue!Post, CapReserve
    <3> QED
      BY <3>1 DEF Queue!Next
  <2>7. CASE ~CapReserve
    <3>1. cmd.n = 1
      BY <1>0, <2>2, <2>7 DEF OneStore
    <3>2. RingContents' = Append(RingContents, Queue!Dword(cmd, copied + 1))
      <4>1. [k \in 1..cmd.n |-> Dword(cmd, copied + k)] = <<Queue!Dword(cmd, copied + 1)>>
        BY <3>1, <2>2 DEF Dword, Queue!Dword
      <4>2. Queue!Dword(cmd, copied + 1) \in Cells /\ RingContents \in Seq(Cells)
        BY <1>0, <2>2, DwordType, ContentsSeq DEF Cells, Dword, Queue!Dword
      <4> QED
        BY <2>4, <4>1, <4>2, AppendIsConcat
    <3>3. Queue!PostDword
      BY <2>2, <2>3, <2>7, <3>1, <3>2 DEF Queue!PostDword, CapReserve
    <3> QED
      BY <3>3 DEF Queue!Next
  <2> QED
    BY <2>6, <2>7
<1>7. ASSUME NEW t \in Threads, CopyDword(t) PROVE [Queue!Next]_Queue!qvars
  <2>1. Grown(1)
    BY <1>0, <1>7, CopyGrows
  <2>2. /\ pc[t] = "copy" /\ cmd \in Command /\ cmd # Nothing /\ ~CapReserve
    BY <1>0, <1>7, BuildingNow DEF CopyDword, OneStore
  <2>3. RingContents' = RingContents \o [k \in 1..1 |-> Dword(cmd, copied + k)]
    BY <1>0, <2>1, <2>2, ContentsGrown
  <2>4. RingContents' = Append(RingContents, Queue!Dword(cmd, copied + 1))
    <3>1. [k \in 1..1 |-> Dword(cmd, copied + k)] = <<Queue!Dword(cmd, copied + 1)>>
      BY DEF Dword, Queue!Dword
    <3>2. Queue!Dword(cmd, copied + 1) \in Cells /\ RingContents \in Seq(Cells)
      BY <1>0, <2>2, DwordType, ContentsSeq DEF Cells, Dword, Queue!Dword
    <3> QED
      BY <2>3, <3>1, <3>2, AppendIsConcat
  <2>5. /\ caps' = caps
        /\ IF copied + 1 = cmd.n THEN cmd' = Nothing /\ copied' = 0
           ELSE copied' = copied + 1 /\ cmd' = cmd
    BY <1>7 DEF CopyDword, Finish
  <2>6. Queue!PostDword
    BY <2>2, <2>4, <2>5 DEF Queue!PostDword, CapReserve
  <2> QED
    BY <2>6 DEF Queue!Next
<1>8. CASE DeviceRead
  <2>1. UNCHANGED <<caps, cmd, copied>>
    BY <1>8 DEF DeviceRead
  <2>2. RingContents # <<>> /\ RingContents' = Tail(RingContents)
    BY <1>0, <1>8, ContentsRead
  <2>3. Queue!Take
    BY <2>1, <2>2 DEF Queue!Take, CapReserve
  <2> QED
    BY <2>3 DEF Queue!Next
<1>9. ASSUME NEW t \in Threads,
             ReserveInPlace(t) \/ ReserveBounce(t) \/ FIFOFull(t) \/ ReserveAgain(t)
               \/ CommitInPlace(t) \/ CommitDwords(t) \/ InsertFenceNoCap(t)
      PROVE  [Queue!Next]_Queue!qvars
  BY <1>2, <1>9 DEF ReserveInPlace, ReserveBounce, FIFOFull, ReserveAgain, CommitInPlace,
                    CommitDwords, InsertFenceNoCap
<1>10. ASSUME NEW t \in Threads,
              lockDevice(t) \/ unlockDevice(t) \/ SyncToFencePassed(t) \/ SyncToFenceBegin(t)
                \/ SyncToFenceEnd(t) \/ ForgetFence(t) \/ SyncFIFOBegin(t) \/ SyncFIFOEnd(t)
                \/ SetMode(t)
       PROVE  [Queue!Next]_Queue!qvars
  BY <1>2, <1>10 DEF lockDevice, unlockDevice, SyncToFencePassed, SyncToFenceBegin,
                     SyncToFenceEnd, ForgetFence, SyncFIFOBegin, SyncFIFOEnd, SetMode
<1>11. ASSUME NEW t \in Threads,
              RingDoorBell(t) \/ RingDoorBellNoCap(t) \/ RaiseBusy(t) \/ WriteSync(t)
                \/ RingDone(t)
       PROVE  [Queue!Next]_Queue!qvars
  BY <1>2, <1>11 DEF RingDoorBell, RingDoorBellNoCap, RaiseBusy, WriteSync, RingDone
<1>12. CASE DeviceSleep \/ DevicePoll \/ UNCHANGED vars
  BY <1>2, <1>12 DEF DeviceSleep, DevicePoll, vars
<1> QED
  BY <1>3, <1>4, <1>5, <1>6, <1>7, <1>8, <1>9, <1>10, <1>11, <1>12
  DEF Next, Calling, Running, Device

(* The ring, the bounce buffer and the registers together are a queue of   *)
(* whole commands: the device reads what was committed, in that order,     *)
(* once, and nothing of what was abandoned.                                *)
THEOREM ImplementsQueue == Spec => QueueRefinement
<1>1. Init => Queue!Init
  <2> SUFFICES ASSUME Init PROVE Queue!Init
    OBVIOUS
  <2>1. Used = 0 /\ cmd = Nothing /\ copied = 0
    BY DEF Init, Used
  <2>2. RingContents = <<>>
    BY <2>1 DEF RingContents
  <2>3. CapReserve \in BOOLEAN
    BY DEF CapReserve
  <2> QED
    BY <2>1, <2>2, <2>3 DEF Queue!Init
<1>2. Init => QueueInv
  BY InitFence DEF Init, QueueInv, FenceInv, OneStore
<1>3. QueueInv /\ [Next]_vars => QueueInv' /\ TypeOK'
  BY NextType, NextRest, NextStaged, NextOneStore DEF QueueInv, FifoInv
<1> QED
  BY <1>1, <1>2, <1>3, QueueStep, PTL DEF QueueRefinement, Queue!Spec, Spec
=============================================================================
