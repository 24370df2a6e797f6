# Verification of docker-macos

TLA+ models of docker-macos (macOS in a container: kernel extensions for the
guest's virtual graphics card, and the scripts that install, run and test the
virtual machine), TLC runs on small instances, and TLAPS proofs of what matters
most. `PROJECT.json` lists components, runs, mutants, findings, hazards and
theorems, and maps every definition to the lines it models.

## 1. Inventory

### The guest's display driver (kexts/VMsvga2)

| Part | State | Operations | What is hard |
|---|---|---|---|
| SVGADevice (FB/SVGADevice.cpp) | FIFO registers, reserved size, bounce buffer, next fence | FIFOReserve, FIFOCommit, InsertFence, SyncToFence, SyncFIFO, RingDoorBell, SetMode | driver threads against the device; wrap-around of ring and fences; skipped doorbells; waiting |
| Framebuffer (FB/VMsvga2.cpp) | refresh timer, accelerated-update flag, TRACES register, mode list, custom mode and its switch | setDisplayMode, refreshTimerAction, useAccelUpdates, CustomMode, RestoreAllModes, setAttribute | timers that cannot be cancelled once running, no lock around the custom mode, waiting for the WindowServer |
| Id allocators (AC/VMsvga2Accel.cpp) | bitmaps and search indexes of surface, context, stream and region ids | Alloc…ID, Free…ID | long sequences, full arrays |
| Video memory (AC/VMsvga2Allocator.cpp) | free lists inside the managed memory, bitmap of range ends | setupAllocator, Malloc, Realloc, Free, Release, Check | records that share memory with callers' data, splits and merges |
| Surfaces (AC/UC/VMsvga2Surface.cpp, AC/VendorTransferBuffer.cpp) | backing memory, maps, guest memory region, fence, lock flags, overlay stream | locks, shapes, flushes, video | memory moved while the device reads it; maps of memory that moved |
| Copies by the processor (VMsvga2Surface, VMsvga2Accel::genericBlitCopy) | the region, clipped in place | clipRegionToBuffer, the row loop | 16-bit stores that wrap, rows of different length |
| Accelerator (AC/VMsvga2Accel.cpp, SVGAScreen, FenceTracker) | master surface, present fences, primary screen, blits | presents, blits, updates | check-then-act without a lock |
| Encoders (AC/SVGA3D.cpp) | none | one per device command | abandoned reservations |
| 2D contexts (AC/UC/VMsvga22DContext.cpp) | target, bound surface | set_surface, locks, copies, swaps | lifetime of the bound surface |
| GL, DVD, OCD contexts, Device (AC/UC) | command buffer, fence memory, channel memory, maps | start, clientMemoryForType, submit, close | references through failures half-way |
| 2D plug-in in user space (GA) | reference count, connection, destination, SurfaceInfos | start, stop, alloc and free of surfaces, set destination | frees in any order, failed starts |
| GL driver in user space (GLD) | a table of entry points | forwards | — |

All driver threads that send commands take `m_iolock` of the framebuffer
(`lockDevice`); the accelerator's lock covers ids and video memory. Surfaces
allocate from the id and memory allocators, send commands through SVGADevice
and take fences from it; the framebuffer and the accelerator meet in
`useAccelUpdates`.

### Other kernel extensions

QEMUDisplay (a framebuffer with a fixed mode table), QEMUDisplayPatcher (a Lilu
plug-in that routes methods of Apple's framebuffer to its own, each of which may
fail to be routed), QEMUHelper (a timer action that patches registry properties
of the newest framebuffer five times, against notifications that replace it).

### Host side

| Part | State | Operations | What is hard |
|---|---|---|---|
| Data volume (mos, entrypoint.sh, install.sh, run.sh, test.sh, hw-args.sh) | disk.img, OpenCore.img, backups | install, run, test, backup-disk, restore-disk | several containers on one volume, kills between steps, QEMU's lock switched off for test phases |
| Phase check (test-runner.sh) | containers, sockets, dumps, images, gold images of a phase | run_phase, run_all | stale files, leftovers of interrupted invocations, time limits |
| Supervisor inside test.sh | the same for a container that supervises itself | phases 0 to 9 | time limits |
| hw-args.sh | none | QEMU arguments | — |
| Capture and comparison scripts, tests/ | reports | one-shot checks | — |

## 2. Modules

| Module | Models | State and steps |
|---|---|---|
| CommandQueue | what the FIFO promises: a queue of whole commands | abstract specification |
| SVGAFifo | SVGADevice's FIFO and fences | registers NEXT_CMD, STOP, RESERVED, FENCE, BUSY; a program counter for each thread; the device reads, sleeps and polls; `caps` is the device's set of FIFO capabilities, fixed in Init |
| SVGAFifoProofs | proofs about SVGAFifo | |
| IdPool | what an id allocator promises | abstract specification |
| IDAllocator | the four id allocators, as `kind` | bitmap as a set of ids, search index, counter of unmanaged ids; one step for each call, which holds lockAccel |
| IDAllocatorProofs | proofs about IDAllocator | |
| DisplayRefresh | refresh timer, setDisplayMode, useAccelUpdates | a program counter for the mode set, for each task and for each timer action; `hasTraces` is fixed in Init |
| CustomModeSwitch | CustomMode, CustomSwitchStepWait/Set, RestoreAllModes, setAttribute | callers, restore timer and WindowServer as processes, no lock, as in the code; `darwin13` is fixed in Init |
| VMsvga2Proofs | proofs about CustomModeSwitch and DisplayRefresh, which share no state | |
| StoragePool | what an allocator of memory promises | abstract specification |
| BitRange | testAll, testAny, clearAll of the bitmap | operators on sets of bits |
| BuddyAllocator | VMsvga2Allocator and its calls from VMsvga2Accel | free lists as links in the managed blocks, order words at their ends, callers' data beside them; a call is a function from pool to pool |
| BuddyAllocatorProofs | proofs about BitRange and BuddyAllocator | |
| AccelService | VMsvga2Accel below the surfaces, SVGA3D, SVGAScreen | pools of video memory, regions, streams and host surface ids (`acc`), the device with its queue (`dev`); a private method is an operator from a call state to its outcomes |
| VendorTransferBuffer | the transfer buffer of a backing | prepare, sync, complete, discard |
| Surface | VMsvga2Surface | one record per surface; an action for each external method |
| Context2D | VMsvga22DContext, composed with Surface, AccelService and an in-order device | one record per context; `DeviceStep` reads a command |
| Context2DProofs | proofs about Surface and its callers, as steps of Context2D | |
| RegionBlit | copies by the processor | one copy from the call to its last row; addresses are numbers, a copy is the set of (to, from) pairs it moved |
| GAPlugIn | the 2D plug-in (GA) with the kernel's answers | one record per instance, kernel contexts by port, SurfaceInfos |
| GLClients | GL, DVD, OCD contexts and the device client | kernel objects with reference counts, the fields that hold them |
| Framebuffers | QEMUDisplay, QEMUDisplayPatcher, start and stop of VMsvga2, SVGADevice and VMsvga2Accel | what each driver holds, the modes it offers, the current mode |
| QEMUHelper | QEMUHelper above Framebuffers | gFramebuffer, notifications and timer action at the grain of its reads and writes |
| GuestGraphics | RegionBlit and the last four side by side | `part` chooses which one takes the steps |
| GuestGraphicsProofs | proofs about GAPlugIn, Framebuffers and QEMUHelper, as steps of GuestGraphics, and about RegionBlit | |
| DiskLifecycle | the data volume and its commands | disk image as contents and size, a program counter for each shell, QEMU's lock as a rule on who may open the image |
| DiskLifecycleProofs | proofs about DiskLifecycle | |
| TestRunner | run_phase of test-runner.sh | invocations, containers, the files of a phase |
| TestRunnerProofs | proofs about TestRunner | |
| MC… | instances for TLC | |

Every definition that models code is in the map. Where configuration decides
which branch is compiled in or taken (FIFO capabilities, kind of allocator,
TRACES, Darwin version), it is a variable chosen in Init that no step changes,
so that one run covers all of them.

`\* Faulty variant:` marks an operator that is not part of a model: it is what a
plausible mistake in the code would make of the operator after it. Replacing the
one by the other makes TLC report the property named in PROJECT.json; it shows
that the property depends on the code.

## 3. Runs

| Run | Instance | Shows |
|---|---|---|
| fifo | 2 threads, ring of 3 dwords, commands of 1 and 2, bounce buffer of 2, fence numbers modulo 4; all capabilities, or none | NEXT_CMD and STOP stay in the ring (TypeOK); an abandoned command leaves no reservation (NoStrayReservation); a reservation never overruns unread dwords (RoomReserved); a fence that SyncToFence waited for has been read, after wrap-around too (SyncedMeansRead); a skipped SYNC leaves no sleeping host with work (DoorbellWakes); the ring implements CommandQueue (QueueRefinement); waits end (ReserveReturns, SyncToFenceReturns) |
| ids | 3 words of 2 bits, one region masked, 2 unmanaged ids; each kind | ids are unique (IdsUnique); the bitmap with its index implements IdPool: smallest free id, failure or fallback only when all are held (PoolRefinement) |
| refresh | 2 tasks, 2 timer threads; with and without TRACES | the timer is never lost (TimerNotLost); redrawing goes on for ever (RefreshGoesOn); the timer dies out under accelerated updates (TimerDiesOut) |
| custom | 2 callers, 3 modes; 3 calls from Darwin 13 on, 1 before | when all is quiet the hardware shows the reported size, once somebody has asked for one (HardwareFollows), and all modes are offered (ListRestored); every call returns (CustomModeReturns) |
| buddy | 5 blocks, 3 orders, requests of 0 to 3 blocks, callers write zeros, bytes of 2 bits | no error on legal calls, and the allocator's own Check succeeds (NeverCorrupt); no block lost or doubled (NothingLost); whatever is given back is merged (MallocComplete); exact bitmap operations (BitmapExact); StoragePool is implemented (StorageRefinement) |
| bitmap_testall | the same | violation: testAll does not see a zero bit in the last whole byte (TestAllSees) |
| disk_safe | 2 shells, all commands, kills anywhere, one overwriting command at a time | one writer (OneWriter); a stable image under run.sh's snapshot (SnapshotUndisturbed); only rm and restore-disk take an installation away (InstalledKept) |
| disk_overwrite | the same, two overwriting commands | violation: install overwrites a disk restored during its five seconds of grace (InstallNeverOverwrites) |
| runner_alone | phase 3, two invocations one after the other | PASS rests on the invocation's own log and pictures (PassNeedsBoth); containers are taken down (TornDown) and leftovers evicted (NoLeftover); the log is the invocation's own (OwnLog); every invocation ends (Ends) |
| runner_fraction | phase 0, one invocation | violation: the script dies in `$(( ))` on the threshold 1.5 and leaves its container (TornDownAlways) |
| surface | 2 surfaces, 1 context, queue of 2; one block of video memory, one region, one wired descriptor, one stream; ten pairs of host capabilities and uses | no queued transfer names memory its surface gave up (NoStrayDMA); memory, regions, descriptors and streams in use are those the surfaces hold, each once, but for two known losses (ResourcesAccounted); the master surface lives while somebody has it and no command meets an undefined host surface (MasterCounted); maps do not outlive the backing (MapsCurrent); the write lock of a surface without an offset waits for its transfers (WriteLockWaits) |
| guest_graphics | plug-in: 2 instances, 2 blit surfaces; clients: one of each kind, 6 objects; drivers and helper: 2 framebuffers, 3 modes, 1 memory range each, 2 outcomes of routing; copies: 8 shapes of surfaces, 11 regions, 26 destinations, 16-bit stores as 3-bit ones and 32-bit sums as 6-bit ones | connections, SurfaceInfos and targets of the plug-in (PlugInHandles); references of the user clients through every failure (ClientMemoryCounted); framebuffers, what drivers hold, and BAR1 (FramebufferHeld); a copy touches nothing before a buffer and nothing behind its backing (BlitContained), and moves the right pixels and nothing else where no number wraps (BlitExact); the helper ends its five attempts (HelperFinishes) |

Bounds. The FIFO's ring of three dwords makes commands wrap, meet STOP and need
the bounce buffer, and four fence numbers wrap within a run; capabilities are
independent of each other only through the branches both instances take. Five
blocks hold one range of the largest order, which splits down to single blocks
and merges again, and a block whose buddy lies outside the pool. A held block
reads as one of the allocator's old records where its holder has not written,
and as no record where it has: what exactly callers write makes no difference to
what the allocator does, and the value that bzero leaves is the one that adds
fewest states. Two shells suffice for every pair of commands of DiskLifecycle;
sizes matter only against the threshold of 1 MiB, so 1, 2 (the threshold) and 3
(full) are all there are. Two surfaces are enough for one to take what the other
gave up, and pools of one make every allocation fail while somebody holds the
last piece; a queue of two holds a transfer and what comes after it, and the
queue's bound is the device catching up, never a call refused. `hw.use` selects
the methods a setup calls (`May`), so that video, the desktop, contexts and
client memory are each met on the hosts whose paths they depend on, without the
product of all: the second surface draws on hosts with screen objects and 3D and
on those with 3D and no guest memory regions, and competes for the stream on
those with screen objects. In RegionBlit `Half` stands for 2^15 and `HalfWord` for
2^31: destinations near the buffer and beyond reach both sides of a wrap of a
stored size, of a sum and of a first address. Four shapes are a packed surface,
one whose buffer is a part of it, rows of the client longer than the surface, and
the desktop in the screen's rows. Four more have what only set_scale gives: a
source larger than its backing, a buffer larger than its source, one that starts
behind its backing and one that starts before it. Regions have rectangles outside
their bounds and of negative size, and sources they leave, so that rows are
skipped, first ones and later ones. Parts of GuestGraphics share no
variable, so that one run of each is a run of all. One range held at a time is
enough to tell a range that keeps BAR1 from one that does not. Counters are
bounded by `MaxUnmanaged`, `FenceMod`, `MaxCalls`, `LegacyCalls`,
`MaxOverwriters`, `MaxQueue`, `MaxRefs`, `MaxDoublings` and `MaxRanges`.

Assumptions stated as constants, with what happens without them:

- `Overlap = FALSE` (DisplayRefresh): calls of useAccelUpdates do not overlap.
  With TRUE TimerNotLost fails: the owner check in VMsvga2Accel and the switch
  in VMsvga2 are two steps without a lock.
- `LegacyCalls = 1` (CustomModeSwitch): with 2, a request that meets
  RestoreAllModes between its test and its set of the switch waits for ever.
- `MaxOverwriters = 1` (DiskLifecycle): with 2, disk_overwrite.
- `MatchedDrivers` (QEMUHelper): the drivers that appear beside the helper;
  `RouteOutcomes` (Framebuffers): which of the patcher's routes were made,
  all, and a mix of its methods with the originals; before it is asked for
  routes there is none.
- IOKit calls start and stop of one driver one after the other, and the helper is
  not stopped while a notification runs (its stop removes no notifier, so that
  nothing in the code itself excludes it).
- Methods of surfaces and contexts are atomic; a call on a closed surface, which
  has no provider any more, is left out (`Held`).
- A copy by the processor runs alone. Nothing is assumed of scales, regions and
  destinations but their types (ShapeAssumption, RegionAssumption of RegionBlit).
- `Alone`, `SameSecond = FALSE`, `Surface` (TestRunner): see section 5.

Fairness. FairSpec of SVGAFifo is weak fairness of a thread inside a call (the
kernel schedules it) and of the device while it is awake; nothing obliges a
sleeping device to wake up by itself. DisplayRefresh: a due timer is run,
and a call that has begun goes on. CustomModeSwitch: callers, timer and
WindowServer go on once they have something to do. TestRunner: the shell gets on
with its script, whose waits have limits; nothing is assumed of guest or
container. GuestGraphics: the work loop runs an armed timer and its action to
the end, and a notification that IOKit has begun is delivered to the end; no
framebuffer has to appear, and the helper may be stopped at any time. Deadlock
is not checked where callers may simply have stopped (CustomModeSwitch,
TestRunner) or everything may be gone (GuestGraphics).

## 4. Proofs

Each holds for every value of the constants that satisfies the module's named
assumptions, and the hypotheses its statement names. The invariants below are
inductive and were checked by TLC on the instances of section 3 first (CountInv with
`Drain` computed in place of Ends).

- **SVGAFifoProofs.** `TypeCorrect` (TypeOK), `ReservationsFit` (RoomReserved),
  `ReservationsEnd` (NoStrayReservation). The inductive invariant adds to TypeOK
  who holds the lock and in which part of a command that thread is, the relation
  of RESERVED, the reserved size and the command under way, and that the room
  still free covers what is left to copy; without the last conjunct a reader's
  step could not be told from an overrun. The type invariant alone needs it too:
  NEXT_CMD stays in the ring only since a command in place ends before MAX.
  `BellHeard` (DoorbellWakes) adds that FIFO_BUSY is up only while the host is
  awake or a thread is about to write SYNC. `SyncedIsRead` (SyncedMeansRead) adds
  that the fences in the ring are numbered one after the other, from the FENCE
  register to the fence under way, and lie two dwords apart (Order): a fence that
  is still in the ring is then less than half the number range ahead of the
  register, and the comparison by difference tells it from one that has passed,
  after any number of wraps. Besides, a thread that waits while the host is idle
  finds the ring empty (AwakeForWaiter). `ImplementsQueue` (QueueRefinement)
  maps ring, bounce buffer and registers to CommandQueue: a step of the driver or
  the device is a commit, the reading of a command, or a stutter.
- **IDAllocatorProofs.** `UniqueIds` (IdsUnique) and `ImplementsPool`
  (PoolRefinement). The invariant says that every word before the index is full
  (FullBelowIndex) and that the bit of a held id is set (MaskIsHeld); the first
  makes a search from the index as good as one from the start.
- **VMsvga2Proofs.** `TimerKept` (TimerNotLost), for any tasks and timer threads,
  where calls of useAccelUpdates do not overlap, which no lock of the driver
  sees to. The invariant adds that at most one task is inside, and that it
  knows the regime. CustomModeSwitch for any number of callers
  and calls, and a WindowServer that answers. `ModesComeBack` (ListRestored), where modeList
  has two different sizes (RestoreAllModes looks for a mode of another size than
  the custom one to swap with, and modes.cpp has many): whoever cuts the list has
  told the WindowServer (CutIsTold) and, before Darwin 13, waits for it
  (CutIsAwaited); a set switch has somebody who will arm the timer or restore
  (SetIsRestored), and a sleeper a wake-up under way (SetIsHeard).
  `HardwareShowsMode` (HardwareFollows), with one call at most before Darwin 13:
  the invariant follows that call and its timer through the switch (Legacy), and
  says that hardware and reported size, once a call has been accepted, differ only
  while somebody is on the way to setting it (Follows). Before, they may differ:
  the hardware may start in a size that no mode has
  (TryDetectCurrentDisplayMode). With two such calls it is false (section 5).
- **BuddyAllocatorProofs.** For pools, requests and bytes of any size, and
  whatever callers write, words that read as links or orders included (TLC's
  callers write a value that is neither). `BitmapStaysExact` (BitmapExact):
  testAny and clearAll split a range into the bits before the first
  byte boundary, whole bytes and the bits after the last; the three parts tile the
  range wherever it begins and ends, inside one byte too (ByteBounds, BytesTile,
  PartsOfRange), so that both operations meet their one-line definitions whatever
  the map holds.

  `NeverCorruptHolds` (NeverCorrupt), `NothingLostHolds` (NothingLost),
  `MallocCompleteHolds` (MallocComplete) and `ImplementsStorage`
  (StorageRefinement) share one invariant, Inv (`InvHolds`), which none of the four
  properties implies by itself: the free lists are sequences of ranges linked both
  ways, each with its order at its end (Listing); they and the busy ranges tile the
  released blocks (Kept, Tiling); a released block has its bit set exactly when it
  ends a busy range (Marks); no two buddies are free apart (Merged); freeBytes
  counts (Counts). No variable holds these lists and busy ranges; TLC checked it
  on the instance of section 3, with the lists as ListOf reads them, and with
  callers that write orders (0 to 2) as their data. Inside a call ranges are in
  hand that are neither listed nor busy (X of Kept), which lets every operation be
  followed record by record: makeFree, Unlink, the turns of toFree (Freed) and of
  the loop of Free (Climbing). A fold is treated as a run of its turns, and the
  runs exist because the recursive functions in the folds, in Pieces and in ListOf
  do (IterExists, CutsExist, WalksExist). That Free reads the word at a buddy's end
  although it may be a caller's is settled by BuddySeen: where no bit is set at the
  end of the buddy, the buddy's last block is free or inside a larger busy range,
  and such a range, being aligned, would contain the block just freed. That merging
  suffices for MallocComplete is OneHoldsAll: a range all of whose blocks are free
  meets a free range no smaller, by the least order at which this could fail.

  Assumed are that the traceable framebuffer is one range of the largest order
  (ReservedAssumption: 0x1000000 bytes, and minBits + numSizes - 1 = 24), on which
  depends that setupAllocator leaves no two buddies on either side of it, and that
  OURNULL is no block (NullAssumption: it is -1).
- **DiskLifecycleProofs.** `OneWriterEver` (OneWriter), `SnapshotKept`
  (SnapshotUndisturbed): a writer that takes the lock excludes whoever takes it
  (WriterExcludes), and only restore-disk changes the image under a snapshot
  (DisturbedWhileOpen); any number of shells, kills anywhere. `InstallationKept`
  (InstalledKept), where at most one of install and restore-disk runs at a time:
  from its test to qemu-img create an install meets no full installation
  (NothingToLose), since what can fill the disk is an overwriting command or a
  machine that boots, and a machine boots only from what the test would have
  found; without the hypothesis disk_overwrite refutes it.
- **TestRunnerProofs.** `VerdictTearsDown` (TornDown) for any invocations.
  With one invocation at a time (`Alone`): `LeftoversEvicted` (NoLeftover), as
  every container left behind is in the list that is to be evicted (StaleListed).
  With distinct log names besides (`SameSecond = FALSE`): `LogIsOwn` (OwnLog), as
  only a new log is recent enough (OwnRecent). In a phase that compares the whole
  picture (`Surface`) besides: `PassEarned` (PassNeedsBoth), whose invariant says
  for each step of run_phase which of marker, dump, image and comparison are
  the invocation's own by then (Evidence). Section 5 says what happens without each
  hypothesis.
- **Context2DProofs.** For any surfaces, contexts and pools. `MapsStayCurrent`
  (MapsCurrent): none of its lemmas looks into the device, as whatever is queued or
  awaited leaves the surface as it was (Same). Presents, overlays, front buffers and
  the fields that say nothing of memory leave backing and maps alone (Still); what
  remains is releaseBacking, which forgets the maps with the backing, and
  allocBacking, which unmaps a surface before its block moves, fails or is
  described anew (Unmapped). The invariant (MapsInv) is the property with the shape
  of the records; a context may hold a surface that has been closed.

  `TransfersStayHome` (NoStrayDMA, which speaks of the backing a command names,
  not of the byte in it), `NothingLeaks` (ResourcesAccounted) and `LockersWait`
  (WriteLockWaits: the lock of a surface without an offset) share one
  invariant, AccountInv. It says of each
  surface that its block of video memory excludes a region, that its region has a
  descriptor and the device knows it, and that an unopened one holds nothing
  (Settles); of each pool that it is what the surfaces hold, no two the same,
  and what is lost (Pool); and of each queued command that names memory that it
  names the backing its owner has at that moment, with the owner's fence behind
  it (Mine). The last conjunct is what makes the others inductive: a backing can be
  given up because waiting for the owner's fence leaves none of its commands in
  the queue. A call is followed against the rest of the world, a record of what the
  other surfaces hold (Rest), through the states a method leaves the surface in:
  with a backing or without (Fine), with nothing queued (Clear), with neither
  (Bare); the parts of a call that acquire, give up and draw nothing are dealt
  with once (Plain). What the device leaves of its queue is a fold over it; that it
  takes a prefix, of any length, is shown by the least place where it would not
  (DrainGives). The contexts only have to hold a surface or none (ContextsInv).

  `MasterKept` (MasterCounted) has an invariant beside it, CountInv: the count is
  the number of surfaces that have the master surface, which are open, the ids
  held between calls are its id or none, and the device ends with exactly
  the host surfaces of these ids once it has executed what is queued (Ends). That
  last conjunct says more than the property, which only denies errors: a present
  queued now needs to know what the queue before it leaves. It is stated by the
  host surfaces before and after each queued command (Trace), so that one more
  command extends it (AppendEnds), a prefix executed shortens it (DrainEnds) and
  neither needs the fold; that the fold computes it is shown once (DrainTraces).
  What moves neither count nor host surfaces is dealt with first (Calm), then
  what a call defines for itself and destroys (Near); a call on one surface is
  followed with the number of the others that have the master surface (Ledger).

  Assumed are a null pointer that is no resource (PoolAssumption,
  SurfaceAssumption), GMR_VRAM() to be no region's id, blocks to be told from
  streams, which have types of their own in the code and share only the model's
  set of losses, and finite pools; of the ids of host surfaces, that there are
  three and that the one of the blit bug test is not among them (IdAssumption): the
  code hands out the ids of a bitmap of 256 and then counts on, and never has
  more than three at once.
- **GuestGraphicsProofs.** `PlugInKeepsHandles` (PlugInHandles), for any number of
  instances, contexts and blit surfaces. The invariant (HandleInv) says that the
  contexts of started instances are open and their own, that a SurfaceInfo is
  named by the surfaces that hold it and by no other, and that a target is alive;
  the count of what is left then follows from cardinalities (SameNumber and the
  lemmas after it). `FramebuffersHeld` (FramebufferHeld), for any number of
  framebuffers and drivers: what is left of a framebuffer's references without
  those of the registry and the accelerator (HelperRefs) is the helper's, at most
  one, and one as long as gFramebuffer or the timer's action names it (HelperInv);
  a driver that is started is one of the three (Sound), so that a range is counted
  as its driver counts it. `ClientsReleaseAll` (ClientMemoryCounted), for any
  number of GL contexts, devices and kernel objects, finite (ClientAssumption: the
  pools are finite, the channel's descriptor is none of the objects clients
  allocate, and a null pointer is no object, as the code takes for granted). The
  argument is a balance: with e the number of holders of each object, an object
  has e plus as many references as living maps of it (Balanced). retain adds one
  to e, release takes one away, New adds one for an object nobody held, and
  releaseAll takes one away for each member of its set (Retains, Releases,
  NewGives, ReleasesAll; the last by a least counterexample over the sizes of the
  sets the function in releaseAll is defined on). A call of a client goes through
  states in which e differs from the fields by what local variables hold
  (Settled, Lent), and ends with the two equal (Ends). ClientInv adds that the
  three descriptors of a context are three objects, that they are no maps, and that
  a closed context holds nothing. `ClipExact`: a pixel is in what clipping
  leaves of a rectangle exactly when it is in the rectangle and its place is in
  the buffer, for every width of the stores (`Half`) and the sums (`HalfWord`) and
  for rectangles and buffers of any place and size, where no store or sum wraps
  (SpanFits). The lemmas say when a store keeps its value.

  `CopiesContained` (BlitContained) and `CopiesExact` (BlitExact) follow a copy
  through the row loop, for any geometry, any screen, any destination and regions
  of any number of rectangles. Nothing is assumed but the types of
  what the client sends: a rectangle may lie outside its source, a destination
  may be any int, and sizes, sums and products wrap. The invariant
  (Copying) says that a row that was copied lay within both limits (Contained),
  which is all that holds of inputs that wrap; the limit is the end of the
  backing where the buffer starts in the backing (IsImage), since the difference that
  obtainKernelPtrs takes is then not negative. For CopiesExact, where no number
  wraps (`fits`), it adds that what was copied is what comes before the current row
  (Done), cut at the first row outside the memory of either side (StoredRows), and
  that the two addresses are those of that row or of the first that was
  skipped (InRow). The latter is what needs an argument: the loop does not compute
  the addresses of a row but steps them, and does not step them past a row it
  skips, so that it passes over the rest of that rectangle (`wanted` says so).

Only model-checked is liveness (TLAPS has no ENABLED): ReserveReturns,
SyncToFenceReturns, RefreshGoesOn, TimerDiesOut, CustomModeReturns, Ends and
HelperFinishes.

## 5. Observations

Three runs show a disagreement between code and text; PROJECT.json quotes both.
The models also reach these states, which no run claims to be impossible:

- `mos run` writes to disk.img, because compose.yml sets MOS_PERSIST=1, although
  README.md:109 says that run never modifies it; and it may do so under the
  overlay of a test phase, which attaches the image with file.locking=off
  (test.sh:236-247).
- After an interrupted install or restore, run.sh boots a blank or torn image: it
  looks at the apparent size only.
- OpenCore.img is copied in place and tested for existence only, so a copy cut
  short stays.
- `mos test` restores no backup, although mos:223 says so.
- A second invocation of test-runner.sh for a phase removes the container of the
  first (`Alone = FALSE`); a log of the container evicted in the same second is
  taken for the new one (`SameSecond = TRUE`); a guest without a display surface
  leaves the dump of an earlier invocation to be judged (`Surface = FALSE`).
- memAny has the same flaw as memAll (VMsvga2Allocator.cpp:195), so Check may
  overlook a busy block.
- A command of exactly the ring's size passes FIFOReserve's test and never fits;
  the bounce buffer is smaller than any real FIFO.
- Surfaces. When video memory cannot grow, the old block is forgotten
  (VMsvga2Surface.cpp:558), and a surface set up for video again while its stream
  is on forgets the stream (1694); `acc.lost` keeps both, and ResourcesAccounted
  says that nothing else is lost. The overlay keeps the old address after the
  backing moved until its registers are set again, and switching it off takes no
  fence. A write lock that skipped the bit and then fails clears the bit of
  whoever holds it (1242-1273). A map may be released while its client holds a
  lock (1799-1808, a TBD of the code).
- retainMasterSurface and releaseMasterSurface count atomically and create and
  destroy outside the count (VMsvga2Accel.cpp:1745); a context finds a surface
  and retains it in two steps (VMsvga22DContext.cpp:178), and may hold one that
  has been closed. The model's atomic methods do not show either race.
- genericBlitCopy skips a row that leaves either image without moving its
  addresses on (VMsvga2Accel.cpp:1884-1886), so that the
  rest of that rectangle is skipped as well: BlitExact says down to which row
  a rectangle is copied. copy_surface_region_to_self takes the bounds of a
  region without rectangles unclipped.
- Scales, regions and destinations of a copy are not checked. A width that
  clipRegionToBuffer stores may wrap (VMsvga2Surface.cpp:444, 446), and a copy then
  moves rows nobody asked for, within the buffer's backing (BlitContained); where
  set_scale puts the buffer behind its backing, the limit that obtainKernelPtrs
  computes wraps as well (634), and no property speaks of that buffer.
- surface_write_lock_options hands out the lock of every surface whose buffer has
  an offset without waiting for its transfers (VMsvga2Surface.cpp:1270). The comment
  there means the WindowServer's desktop, but set_scale (1361-1371) gives an offset
  to any surface; WriteLockWaits speaks of surfaces without one.
- useAccelUpdates tests its owner and switches without a lock
  (VMsvga2Accel.cpp:776): calls that overlap may leave neither accelerated updates
  nor a refresh timer, or TRACES apart from the regime. TRACES is modelled, but
  no property speaks of it: without overlap one step sets it after the flag.
- A hardware size that no mode has is reported as the default mode
  (VMsvga2.cpp:147-159) until somebody asks for another size.
- PlugInHandles leaves out kernel contexts whose last request failed: such a
  context may keep the surface of that request.
- The plug-in keeps its connection's number after a failed start, and after vmStop
  a surface can no longer be freed (NotReady), so that its SurfaceInfo is lost
  with the instance. submit_command_buffer of a GL context works once.
- QEMUDisplay hands out its BAR1 range without a reference of its own; the count
  of FramebufferHeld leaves it out. The patcher has one current mode for all
  framebuffers and always reports mode 1, and when setDisplayMode alone is not
  routed, modes are offered that the original does not know.

## 6. Plan

1. SVGAFifo, IDAllocator, DisplayRefresh with proofs — done.
2. CustomModeSwitch, DiskLifecycle, TestRunner with proofs; BuddyAllocator — done.
3. Surface, Context2D, AccelService, VendorTransferBuffer; MapsCurrent proved — done.
4. RegionBlit with a proof; GAPlugIn, GLClients, Framebuffers, QEMUHelper — done.
5. PlugInHandles, FramebufferHeld, ClientMemoryCounted, BlitContained and BlitExact of
   GuestGraphics, NoStrayDMA, ResourcesAccounted, WriteLockWaits and MasterCounted
   of Context2D, BitmapExact, NeverCorrupt, NothingLost, MallocComplete and
   StorageRefinement of BuddyAllocator proved — done.
6. Left, models: surface methods at the grain of their lock-free steps, for the
   two races of section 5; the supervisor inside test.sh beside TestRunner.

## 7. Not modelled

GLD (forwarding), the GL methods of VMsvga2Accel and the encoders of SVGA3D that
nothing calls, methods that only answer a constant, log or refuse (timings,
attributes, EDID blocks, get_config and the like), hw-args.sh beyond the disk
(strings), the supervisor inside test.sh (test-runner.sh switches it off),
capture, comparison and in-guest test scripts (one-shot checks over external
tools), EFI image, baselines and workflows (data), vendored headers. Layout of
device commands, pixel formats and scale factors are data that no property here
depends on; where the code branches on them the branch is a choice.
