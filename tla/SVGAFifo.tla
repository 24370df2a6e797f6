------------------------------ MODULE SVGAFifo ------------------------------
(***************************************************************************)
(* The command FIFO between the framebuffer driver and the SVGA device     *)
(* (kexts/VMsvga2/FB/SVGADevice.cpp): a ring in shared memory that the     *)
(* driver fills at NEXT_CMD and the device drains at STOP, concurrently.   *)
(* Kernel threads take the device lock (VMsvga2::lockDevice), reserve      *)
(* room, write a command in place or in the bounce buffer, commit or       *)
(* abandon it, insert fences, wait for them, and ring the doorbell.        *)
(*                                                                         *)
(* Everything is counted in dwords: the code rejects a length that is not  *)
(* a multiple of 4 and no caller passes one.  One action is one access to  *)
(* a register that the device also touches; what happens between two such  *)
(* accesses is invisible to the device and belongs to the same action.     *)
(***************************************************************************)
EXTENDS Naturals, Sequences

CONSTANTS
  Threads,        \* kernel threads that issue commands
  NoThread,       \* the device lock is free
  Min, Max,       \* bounds of the ring (SVGA_FIFO_MIN, SVGA_FIFO_MAX)
  BounceSize,     \* BOUNCE_BUFFER_SIZE
  Devices,        \* the sets of capabilities a device may have
  Sizes,          \* lengths of the commands that are issued, header included
  Payloads,       \* what distinguishes two commands of one length
  FenceMod,       \* 2^32 in the code: fence numbers wrap
  Nothing,        \* no command is being built
  Free            \* content of a slot the device has consumed

RingSize == Max - Min

ASSUME RingAssumption ==
  /\ Min \in Nat /\ Max \in Nat
  /\ BounceSize \in Nat
  \* a fence command (2 dwords) always fits, so InsertFence cannot fail
  /\ BounceSize >= 2 /\ RingSize > 2 /\ Min < Max

ASSUME CommandAssumption ==
  /\ Sizes \subseteq Nat \ {0}
  /\ NoThread \notin Threads
  \* fewer fences fit in the ring than half the range of fence numbers
  /\ FenceMod \in Nat /\ FenceMod > RingSize /\ FenceMod % 2 = 0

Fences == 0..(FenceMod - 1)

(* A command: SVGA_CMD_FENCE carries its number, any other its payload. *)
Command ==
  [op : {"cmd"}, val : Payloads, n : Sizes] \cup [op : {"fence"}, val : Fences, n : {2}]

ASSUME NothingAssumption == Nothing \notin Command

Dword(c, k) == [cmd |-> c, k |-> k]
Dwords == [cmd : Command, k : Nat \ {0}]

ASSUME FreeAssumption == Free \notin Dwords

VARIABLES
  \* shared with the device, in FIFO memory
  caps,       \* SVGA_FIFO_CAPABILITIES; "busy": SVGA_FIFO_BUSY lies below MIN
  mem,        \* the ring
  next_cmd,   \* SVGA_FIFO_NEXT_CMD
  stop,       \* SVGA_FIFO_STOP
  reserved,   \* SVGA_FIFO_RESERVED
  fence,      \* SVGA_FIFO_FENCE
  fifo_busy,  \* SVGA_FIFO_BUSY
  \* device
  busy,       \* SVGA_REG_BUSY: the host is processing the FIFO
  \* driver (class SVGADevice)
  m_reserved_size, m_using_bounce_buffer, m_next_fence,
  bounce,     \* the bounce buffer
  cmd,        \* the command the lock holder is building
  copied,     \* dwords of it FIFOCommit has copied from the bounce buffer
  \* callers
  m_iolock,   \* which thread holds the device lock
  pc,         \* where each thread is
  held_fence, \* the fence each thread remembers (VendorTransferBuffer::fence)
  behind      \* history: dwords ahead of and including that fence

regs == <<caps, mem, next_cmd, stop, reserved, fence, fifo_busy>>
driver == <<m_reserved_size, m_using_bounce_buffer, m_next_fence, bounce, cmd, copied>>
fences == <<held_fence, behind>>
vars == <<regs, busy, driver, m_iolock, pc, fences>>

Steps == {"idle", "locked", "reserve", "full", "fill", "commit", "copy", "publish",
          "syncwait", "synced", "drain", "drained", "bell", "ring", "rung"}

-----------------------------------------------------------------------------
(* HasFIFOCap and IsFIFORegValid. *)
CapReserve == "reserve" \in caps
CapFence == "fence" \in caps
CapBusy == "busy" \in caps

-----------------------------------------------------------------------------
(* The ring *)

Used == IF next_cmd >= stop THEN next_cmd - stop ELSE RingSize - (stop - next_cmd)

\* Faulty variant: NEXT_CMD is wrapped only when it is past MAX.
SlotPastMax(a, i) == IF a + i > Max THEN a + i - RingSize ELSE a + i

(* The slot i dwords after slot a, wrapping at Max. *)
Slot(a, i) == IF a + i >= Max THEN a + i - RingSize ELSE a + i

(* What the device would read if it drained the ring now. *)
RingContents == [i \in 1..Used |-> mem[Slot(stop, i - 1)]]

(* mem with the first k dwords of c stored from slot a on. *)
Stored(a, c, k) ==
  [s \in Min..(Max - 1) |->
     LET d == IF s >= a THEN s - a ELSE s + RingSize - a
     IN  IF d < k THEN Dword(c, d + 1) ELSE mem[s]]

\* Faulty variant: fence numbers compared without the signed difference.
HasFencePassedUnsigned(f) == fence >= f

HasFencePassedUnguarded(f) == (fence + FenceMod - f) % FenceMod < FenceMod \div 2

Transition(t, from, to) ==
  /\ pc[t] = from
  /\ pc' = [pc EXCEPT ![t] = to]

-----------------------------------------------------------------------------
Init ==
  /\ caps \in Devices
  /\ mem = [s \in Min..(Max - 1) |-> Free]
  /\ next_cmd = Min /\ stop = Min
  /\ reserved = 0 /\ fence = 0
  /\ fifo_busy = FALSE /\ busy = FALSE
  /\ m_reserved_size = 0 /\ m_using_bounce_buffer = FALSE
  /\ m_next_fence = 1
  /\ bounce = <<>> /\ cmd = Nothing /\ copied = 0
  /\ m_iolock = NoThread
  /\ pc = [t \in Threads |-> "idle"]
  /\ held_fence = [t \in Threads |-> 0]
  /\ behind = [t \in Threads |-> 0]

lockDevice(t) ==
  /\ m_iolock = NoThread
  /\ m_iolock' = t
  /\ Transition(t, "idle", "locked")
  /\ UNCHANGED <<regs, busy, driver, fences>>

unlockDevice(t) ==
  /\ m_iolock = t
  /\ m_iolock' = NoThread
  /\ Transition(t, "locked", "idle")
  /\ UNCHANGED <<regs, busy, driver, fences>>

-----------------------------------------------------------------------------
(* FIFOReserve *)

CanReserve(n) == n <= BounceSize /\ n <= RingSize /\ m_reserved_size = 0

(* Any caller that builds a command: FIFOReserveCmd, FIFOReserveEscape and *)
(* the Begin... methods of SVGA3D.  A refused length changes nothing.      *)
FIFOReserve(t) ==
  /\ Transition(t, "locked", "reserve")
  /\ \E n \in Sizes, p \in Payloads :
       /\ CanReserve(n)
       /\ m_reserved_size' = n
       /\ cmd' = [op |-> "cmd", val |-> p, n |-> n]
  /\ UNCHANGED <<regs, busy, m_using_bounce_buffer, m_next_fence, bounce, copied,
                 m_iolock, fences>>

NextFence == IF m_next_fence = 0 THEN 1 ELSE m_next_fence

InsertFence(t) ==
  /\ CapFence
  /\ Transition(t, "locked", "reserve")
  /\ CanReserve(2)
  /\ m_next_fence' = (NextFence + 1) % FenceMod
  /\ m_reserved_size' = 2
  /\ cmd' = [op |-> "fence", val |-> NextFence, n |-> 2]
  /\ UNCHANGED <<regs, busy, m_using_bounce_buffer, bounce, copied, m_iolock, fences>>

(* Without SVGA_FIFO_CAP_FENCE every fence is number 1. *)
InsertFenceNoCap(t) ==
  /\ ~CapFence
  /\ pc[t] = "locked"
  /\ held_fence' = [held_fence EXCEPT ![t] = 1]
  /\ behind' = [behind EXCEPT ![t] = Used]
  /\ UNCHANGED <<regs, busy, driver, m_iolock, pc>>

\* Faulty variant: a command may end at MAX although STOP is at MIN.
FitsInPlaceFullRing(n) ==
  IF next_cmd >= stop THEN next_cmd + n <= Max ELSE next_cmd + n < stop

(* The room FIFOReserve's loop finds for n dwords when it reads STOP. *)
FitsInPlace(n) ==
  IF next_cmd >= stop
    THEN next_cmd + n < Max \/ (next_cmd + n = Max /\ stop > Min)
    ELSE next_cmd + n < stop

\* Faulty variant: the last free dword is handed out too.
NoRoomOffByOne(n) ==
  /\ ~FitsInPlace(n)
  /\ next_cmd >= stop => (Max - next_cmd) + (stop - Min) < n

NoRoom(n) ==
  /\ ~FitsInPlace(n)
  /\ next_cmd >= stop => (Max - next_cmd) + (stop - Min) <= n

ReserveInPlace(t) ==
  /\ Transition(t, "reserve", "fill")
  /\ FitsInPlace(m_reserved_size)
  /\ CapReserve \/ m_reserved_size <= 1
  /\ m_using_bounce_buffer' = FALSE
  /\ reserved' = IF CapReserve THEN m_reserved_size ELSE reserved
  /\ UNCHANGED <<caps, mem, next_cmd, stop, fence, fifo_busy, busy, m_reserved_size, m_next_fence,
                 bounce, cmd, copied, m_iolock, fences>>

ReserveBounce(t) ==
  /\ Transition(t, "reserve", "fill")
  /\ IF FitsInPlace(m_reserved_size)
       THEN ~(CapReserve \/ m_reserved_size <= 1)
       ELSE ~NoRoom(m_reserved_size)
  /\ m_using_bounce_buffer' = TRUE
  /\ UNCHANGED <<regs, busy, m_reserved_size, m_next_fence, bounce, cmd, copied,
                 m_iolock, fences>>

\* Faulty variant: the device is not told that the ring is full.
FIFOFullNoSync(t) ==
  /\ NoRoom(m_reserved_size)
  /\ Transition(t, "reserve", "full")
  /\ UNCHANGED <<regs, busy, driver, m_iolock, fences>>

FIFOFull(t) ==
  /\ NoRoom(m_reserved_size)
  /\ Transition(t, "reserve", "full")
  /\ busy' = TRUE
  /\ UNCHANGED <<regs, driver, m_iolock, fences>>

ReserveAgain(t) ==
  /\ Transition(t, "full", "reserve")
  /\ UNCHANGED <<regs, busy, driver, m_iolock, fences>>

(* The caller writes its command where FIFOReserve told it to. *)
Fill(t) ==
  /\ Transition(t, "fill", "commit")
  /\ IF m_using_bounce_buffer
       THEN /\ bounce' = [k \in 1..cmd.n |-> Dword(cmd, k)]
            /\ UNCHANGED mem
       ELSE /\ mem' = Stored(next_cmd, cmd, cmd.n)
            /\ UNCHANGED bounce
  /\ UNCHANGED <<caps, next_cmd, stop, reserved, fence, fifo_busy, busy, m_reserved_size,
                 m_using_bounce_buffer, m_next_fence, cmd, copied, m_iolock, fences>>

-----------------------------------------------------------------------------
(* FIFOCommit *)

(* The command is in the ring up to its last dword: its builder is done    *)
(* with it, and InsertFence returns the fence's number.                    *)
Finish(t, used) ==
  /\ cmd' = Nothing
  /\ IF cmd.op = "fence"
       THEN /\ held_fence' = [held_fence EXCEPT ![t] = cmd.val]
            /\ behind' = [behind EXCEPT ![t] = used]
       ELSE UNCHANGED fences

\* Faulty variant: an abandoned reservation is not released.
FIFOCommitNothingKeeps(t) ==
  /\ cmd # Nothing /\ cmd.op = "cmd"
  /\ Transition(t, "commit", "locked")
  /\ cmd' = Nothing
  /\ bounce' = <<>>
  /\ UNCHANGED <<regs, busy, m_reserved_size, m_using_bounce_buffer, m_next_fence, copied,
                 m_iolock, fences>>

(* FIFOCommit(0), as SVGA3D::SetShaderConst abandons a reservation. *)
FIFOCommitNothing(t) ==
  /\ cmd # Nothing /\ cmd.op = "cmd"
  /\ Transition(t, "commit", "locked")
  /\ m_reserved_size' = 0
  /\ reserved' = IF CapReserve THEN 0 ELSE reserved
  /\ cmd' = Nothing
  /\ bounce' = <<>>
  /\ UNCHANGED <<caps, mem, next_cmd, stop, fence, fifo_busy, busy, m_using_bounce_buffer,
                 m_next_fence, copied, m_iolock, fences>>

(* With SVGA_FIFO_CAP_RESERVE the bounce buffer goes to the ring in two    *)
(* pieces, up to Max and from Min on, before NEXT_CMD moves.               *)
CopyChunks(t) ==
  /\ m_using_bounce_buffer /\ CapReserve
  /\ Transition(t, "commit", "publish")
  /\ m_reserved_size' = 0
  /\ reserved' = cmd.n
  /\ mem' = Stored(next_cmd, cmd, cmd.n)
  /\ bounce' = <<>>
  /\ UNCHANGED <<caps, next_cmd, stop, fence, fifo_busy, busy, m_using_bounce_buffer,
                 m_next_fence, cmd, copied, m_iolock, fences>>

CommitInPlace(t) ==
  /\ ~m_using_bounce_buffer
  /\ Transition(t, "commit", "publish")
  /\ m_reserved_size' = 0
  /\ UNCHANGED <<regs, busy, m_using_bounce_buffer, m_next_fence, bounce, cmd, copied,
                 m_iolock, fences>>

(* NEXT_CMD moves over the whole command with one store. *)
Publish(t) ==
  /\ Transition(t, "publish", "locked")
  /\ next_cmd' = Slot(next_cmd, cmd.n)
  /\ reserved' = IF CapReserve THEN 0 ELSE reserved
  /\ Finish(t, Used + cmd.n)
  /\ UNCHANGED <<caps, mem, stop, fence, fifo_busy, busy, m_reserved_size,
                 m_using_bounce_buffer, m_next_fence, bounce, copied, m_iolock>>

(* Without it they go dword by dword, and NEXT_CMD moves after each. *)
CommitDwords(t) ==
  /\ m_using_bounce_buffer /\ ~CapReserve
  /\ Transition(t, "commit", "copy")
  /\ m_reserved_size' = 0
  /\ UNCHANGED <<regs, busy, m_using_bounce_buffer, m_next_fence, bounce, cmd, copied,
                 m_iolock, fences>>

CopyDword(t) ==
  /\ pc[t] = "copy"
  /\ mem' = [mem EXCEPT ![next_cmd] = bounce[copied + 1]]
  /\ next_cmd' = Slot(next_cmd, 1)
  /\ IF copied + 1 = cmd.n
       THEN /\ copied' = 0
            /\ bounce' = <<>>
            /\ pc' = [pc EXCEPT ![t] = "locked"]
            /\ Finish(t, Used + 1)
       ELSE /\ copied' = copied + 1
            /\ UNCHANGED <<bounce, cmd, pc, fences>>
  /\ UNCHANGED <<caps, stop, reserved, fence, fifo_busy, busy, m_reserved_size,
                 m_using_bounce_buffer, m_next_fence, m_iolock>>

-----------------------------------------------------------------------------
(* Waiting *)

(* SyncToFence, as VendorTransferBuffer::sync calls it: the fence is       *)
(* forgotten once the call returns.                                        *)
SyncToFencePassed(t) ==
  /\ held_fence[t] # 0
  /\ CapFence /\ HasFencePassedUnguarded(held_fence[t])
  /\ Transition(t, "locked", "synced")
  /\ UNCHANGED <<regs, busy, driver, m_iolock, fences>>

SyncToFenceBegin(t) ==
  /\ held_fence[t] # 0
  /\ CapFence => ~HasFencePassedUnguarded(held_fence[t])
  /\ Transition(t, "locked", "syncwait")
  /\ busy' = TRUE
  /\ UNCHANGED <<regs, driver, m_iolock, fences>>

\* Faulty variant: the loop kicks an idle device again instead of ending.
SyncToFenceEndKicks(t) ==
  IF CapFence /\ HasFencePassedUnguarded(held_fence[t])
    THEN Transition(t, "syncwait", "synced") /\ UNCHANGED <<regs, busy, driver, m_iolock, fences>>
    ELSE /\ pc[t] = "syncwait" /\ ~busy /\ busy' = TRUE
         /\ UNCHANGED <<regs, driver, m_iolock, pc, fences>>

(* The loop ends when the fence passes, or when the device is not busy. *)
SyncToFenceEnd(t) ==
  /\ \/ CapFence /\ HasFencePassedUnguarded(held_fence[t])
     \/ ~busy
  /\ Transition(t, "syncwait", "synced")
  /\ UNCHANGED <<regs, busy, driver, m_iolock, fences>>

ForgetFence(t) ==
  /\ Transition(t, "synced", "locked")
  /\ held_fence' = [held_fence EXCEPT ![t] = 0]
  /\ behind' = [behind EXCEPT ![t] = 0]
  /\ UNCHANGED <<regs, busy, driver, m_iolock>>

(* SyncFIFO, before SetMode writes the mode registers. *)
SyncFIFOBegin(t) ==
  /\ Transition(t, "locked", "drain")
  /\ busy' = TRUE
  /\ UNCHANGED <<regs, driver, m_iolock, fences>>

SyncFIFOEnd(t) ==
  /\ ~busy
  /\ Transition(t, "drain", "drained")
  /\ UNCHANGED <<regs, busy, driver, m_iolock, fences>>

SetMode(t) ==
  /\ Transition(t, "drained", "locked")
  /\ UNCHANGED <<regs, busy, driver, m_iolock, fences>>

(* RingDoorBell: SYNC is written only when FIFO_BUSY reads FALSE; the      *)
(* flag is raised before the write.                                        *)
RingDoorBell(t) ==
  /\ CapBusy
  /\ Transition(t, "locked", IF fifo_busy THEN "rung" ELSE "bell")
  /\ UNCHANGED <<regs, busy, driver, m_iolock, fences>>

RingDoorBellNoCap(t) ==
  /\ ~CapBusy
  /\ Transition(t, "locked", "ring")
  /\ UNCHANGED <<regs, busy, driver, m_iolock, fences>>

RaiseBusy(t) ==
  /\ Transition(t, "bell", "ring")
  /\ fifo_busy' = TRUE
  /\ UNCHANGED <<caps, mem, next_cmd, stop, reserved, fence, busy, driver, m_iolock, fences>>

\* Faulty variant: the flag is raised but SYNC is not written.
WriteSyncMissing(t) ==
  /\ Transition(t, "ring", "rung")
  /\ UNCHANGED <<regs, busy, driver, m_iolock, fences>>

WriteSync(t) ==
  /\ Transition(t, "ring", "rung")
  /\ busy' = TRUE
  /\ UNCHANGED <<regs, driver, m_iolock, fences>>

RingDone(t) ==
  /\ Transition(t, "rung", "locked")
  /\ UNCHANGED <<regs, busy, driver, m_iolock, fences>>

-----------------------------------------------------------------------------
(* The device, as svga_reg.h documents it.  It reads STOP's dword while    *)
(* STOP differs from NEXT_CMD; the last dword of a fence command stores    *)
(* its number in the FENCE register.  A host that finds the ring empty     *)
(* clears both busy flags; it may also find commands by polling.           *)

DeviceRead ==
  /\ busy
  /\ stop # next_cmd
  /\ LET d == mem[stop]
     IN  fence' = IF d # Free /\ d.cmd.op = "fence" /\ d.k = d.cmd.n
                    THEN d.cmd.val ELSE fence
  /\ mem' = [mem EXCEPT ![stop] = Free]
  /\ stop' = Slot(stop, 1)
  /\ behind' = [t \in Threads |-> IF behind[t] = 0 THEN 0 ELSE behind[t] - 1]
  /\ UNCHANGED <<caps, next_cmd, reserved, fifo_busy, busy, driver, m_iolock, pc, held_fence>>

DeviceSleep ==
  /\ busy
  /\ stop = next_cmd
  /\ busy' = FALSE
  /\ fifo_busy' = FALSE
  /\ UNCHANGED <<caps, mem, next_cmd, stop, reserved, fence, driver, m_iolock, pc, fences>>

DevicePoll ==
  /\ ~busy
  /\ stop # next_cmd
  /\ busy' = TRUE
  /\ fifo_busy' = CapBusy
  /\ UNCHANGED <<caps, mem, next_cmd, stop, reserved, fence, driver, m_iolock, pc, fences>>

Device == DeviceRead \/ DeviceSleep

-----------------------------------------------------------------------------
Running(t) ==
  \/ ReserveInPlace(t) \/ ReserveBounce(t) \/ FIFOFull(t) \/ ReserveAgain(t)
  \/ Fill(t) \/ FIFOCommitNothing(t) \/ CopyChunks(t) \/ CommitInPlace(t) \/ Publish(t)
  \/ CommitDwords(t) \/ CopyDword(t)
  \/ SyncToFenceEnd(t) \/ ForgetFence(t) \/ SyncFIFOEnd(t) \/ SetMode(t)
  \/ RaiseBusy(t) \/ WriteSync(t) \/ RingDone(t)

Calling(t) ==
  \/ lockDevice(t) \/ unlockDevice(t)
  \/ FIFOReserve(t) \/ InsertFence(t) \/ InsertFenceNoCap(t)
  \/ SyncToFencePassed(t) \/ SyncToFenceBegin(t) \/ SyncFIFOBegin(t)
  \/ RingDoorBell(t) \/ RingDoorBellNoCap(t)

Next ==
  \/ \E t \in Threads : Calling(t) \/ Running(t)
  \/ Device \/ DevicePoll

Spec == Init /\ [][Next]_vars

(* A thread inside a call keeps running, and a host that is awake keeps    *)
(* processing.  Nothing makes the host wake up by itself.                  *)
Fairness ==
  /\ WF_vars(Device)
  /\ \A t \in Threads : WF_vars(Running(t))

FairSpec == Spec /\ Fairness

-----------------------------------------------------------------------------
(* Properties *)

(* Every variable has its type: in particular NEXT_CMD and STOP stay       *)
(* inside the ring, which FIFOCommit ensures by wrapping them at MAX.      *)
TypeOK ==
  /\ caps \in Devices
  /\ mem \in [Min..(Max - 1) -> Dwords \cup {Free}]
  /\ next_cmd \in Min..(Max - 1) /\ stop \in Min..(Max - 1)
  /\ reserved \in Nat /\ fence \in Fences
  /\ fifo_busy \in BOOLEAN /\ busy \in BOOLEAN
  /\ m_reserved_size \in Nat /\ m_using_bounce_buffer \in BOOLEAN
  /\ m_next_fence \in Fences
  /\ cmd \in Command \cup {Nothing}
  /\ bounce \in Seq(Dwords)
  /\ copied \in Nat
  /\ m_iolock \in Threads \cup {NoThread}
  /\ pc \in [Threads -> Steps]
  /\ held_fence \in [Threads -> Fences]
  /\ behind \in [Threads -> Nat]

(* Only the holder of the device lock is inside a call, and a thread that  *)
(* leaves it leaves no reservation behind: FIFOReserve would refuse every  *)
(* later command (lockDevice and unlockDevice around every FIFO call).     *)
NoStrayReservation ==
  /\ \A t \in Threads : pc[t] # "idle" => m_iolock = t
  /\ \A t \in Threads :
       pc[t] \notin {"reserve", "full", "fill", "commit"} /\ m_iolock = t
         => m_reserved_size = 0
  /\ m_iolock = NoThread => m_reserved_size = 0 /\ reserved = 0 /\ cmd = Nothing

(* FIFOReserve hands out room that FIFOCommit can use without running into *)
(* what the device still has to read: NEXT_CMD never catches up with STOP. *)
RoomReserved ==
  \A t \in Threads :
    /\ pc[t] \in {"fill", "commit", "publish", "copy"} => Used + cmd.n - copied < RingSize
    /\ pc[t] \in {"fill", "commit"} /\ ~m_using_bounce_buffer => next_cmd + cmd.n <= Max

(* What the lock holder is doing agrees with what it is building: the part *)
(* of the inductive invariant that the proofs add to the three above.      *)
BuildingOK ==
  /\ \A t \in Threads :
       IF pc[t] \in {"reserve", "full", "fill", "commit", "publish", "copy"}
         THEN /\ cmd \in Command
              /\ cmd.n <= RingSize
              /\ pc[t] \in {"reserve", "full", "fill", "commit"} => m_reserved_size = cmd.n
              /\ pc[t] = "publish" /\ ~m_using_bounce_buffer => next_cmd + cmd.n <= Max
              /\ pc[t] \in {"reserve", "full", "copy"} \/ ~CapReserve => reserved = 0
              /\ IF pc[t] = "copy"
                   THEN /\ copied < cmd.n
                        /\ bounce = [k \in 1..cmd.n |-> Dword(cmd, k)]
                   ELSE copied = 0
              /\ pc[t] = "commit" /\ m_using_bounce_buffer
                   => bounce = [k \in 1..cmd.n |-> Dword(cmd, k)]
         ELSE m_iolock = t => cmd = Nothing /\ copied = 0 /\ reserved = 0
  /\ m_iolock = NoThread => copied = 0

FifoInv == TypeOK /\ NoStrayReservation /\ RoomReserved /\ BuildingOK

(* The ring does what the queue of whole commands does: what a caller      *)
(* committed reaches the device unmodified, once, in order, and what it    *)
(* abandoned does not (FIFOReserve, FIFOCommit and the device together).   *)
Queue == INSTANCE CommandQueue WITH
  Commands <- Command,
  queue <- RingContents,
  open <- cmd,
  posted <- copied,
  whole <- CapReserve

QueueRefinement == Queue!Spec

(* When SyncToFence returns, the device has read everything that was in    *)
(* the ring up to the fence, even after fence numbers have wrapped.        *)
SyncedMeansRead == \A t \in Threads : pc[t] = "synced" => behind[t] = 0

(* After RingDoorBell the host is awake as long as the ring holds commands *)
(* even when the write to SYNC was skipped because FIFO_BUSY was set.      *)
DoorbellWakes ==
  \A t \in Threads : pc[t] = "rung" /\ Used # 0 => busy

(* A thread that reserves gets its room: FIFOFull keeps the device going   *)
(* (for lengths below the size of the ring).                               *)
ReserveReturns == \A t \in Threads : pc[t] = "reserve" ~> pc[t] = "fill"

(* A thread that waits for a fence is let go. *)
SyncToFenceReturns == \A t \in Threads : pc[t] = "syncwait" ~> pc[t] = "synced"
=============================================================================
