---------------------------- MODULE AccelService ----------------------------
(***************************************************************************)
(* The accelerator object (VMsvga2Accel) as its user clients see it: the   *)
(* options and capabilities it settles when it starts, its pools (video    *)
(* memory, guest memory regions, overlay streams, host surface ids), the   *)
(* master surface, and the commands it queues for the device.              *)
(*                                                                         *)
(* A method of the object is an operator on a call state x, a record with  *)
(* the fields acc (the object), dev (the device) and whatever the caller   *)
(* adds for itself.  A method that cannot fail returns the call state      *)
(* after it; one that can returns the set of its outcomes.  The device     *)
(* lock is held over each method, so a method is one step; the ring below  *)
(* it is the subject of SVGAFifo.                                          *)
(***************************************************************************)
EXTENDS Naturals, FiniteSets, Sequences, SequencesExt

CONSTANTS Chunks,       \* blocks of video memory that can be handed out
          Wired,        \* memory descriptors of the guest that can be alive
          GmrIds,       \* ids of guest memory regions
          StreamIds,    \* ids of overlay streams
          SurfaceIds,   \* ids of host surfaces
          Setups,       \* what a behaviour starts with: boot arguments,
                        \* capabilities of the host, habits of the clients
          MaxQueue,     \* commands the ring holds
          NoId          \* SVGA_ID_INVALID, or a null pointer

\* The null pointer and the number that stands for video memory are no valid
\* ids; of what is lost one can tell memory from streams.
VRAM == "vram"                   \* GMR_VRAM()

ASSUME PoolAssumption ==
    /\ NoId \notin Chunks \cup Wired \cup GmrIds \cup StreamIds
    /\ VRAM \notin GmrIds /\ Chunks \cap StreamIds = {}
    /\ MaxQueue \in Nat
    /\ IsFiniteSet(Chunks) /\ IsFiniteSet(Wired) /\ IsFiniteSet(GmrIds) /\ IsFiniteSet(StreamIds)

VARIABLES hw,   \* what start() settled: options, screen, d3, gmr; and use, habits
          acc,  \* the accelerator object
          dev   \* the device: its queue and what it has executed

accelVars == <<hw, acc, dev>>

PresentFences == 2               \* AUTO_SYNC_PRESENT_FENCE_COUNT
BlitBugSurface == 666

\* The bitmap of ids and the count that follows it give out as many as are
\* asked for, the lowest first: there is one for the master surface and two
\* for a call's own, and these stay below the one of the blit bug test.
ASSUME IdAssumption ==
    /\ NoId \notin SurfaceIds /\ BlitBugSurface \notin SurfaceIds
    /\ SurfaceIds # {} /\ \A a, b \in SurfaceIds : SurfaceIds \ {a, b} # {}

-----------------------------------------------------------------------------
(* Commands.  A blit through the guest framebuffer is the definition of    *)
(* that framebuffer and the blit, an overlay command its registers and the *)
(* flush.  A command with a fence is followed by that fence: both are put  *)
(* in the ring under one hold of the device lock.                          *)

BeginDefineSurface(sid) == [op |-> "define", sid |-> sid]
DestroySurface(sid) == [op |-> "destroy", sid |-> sid]
BeginSurfaceDMA(sid, ref, fence) ==
    [op |-> "dma", sid |-> sid, ref |-> ref, fence |-> fence]
BeginSurfaceCopy(src, dst) == [op |-> "copy", sid |-> src, dst |-> dst]
SurfaceStretchBlt(src, dst) == [op |-> "copy", sid |-> src, dst |-> dst]
BeginPresent(sid, fence) == [op |-> "present", sid |-> sid, fence |-> fence]
BeginBlitSurfaceToScreen(sid) == [op |-> "show", sid |-> sid]
DefineScreen == [op |-> "screen"]
BlitGMRFB(ref, fence) == [op |-> "gmrfb", ref |-> ref, fence |-> fence]
RectUpdate == [op |-> "update"]
RectCopyCmd == [op |-> "rect_copy"]
RectFillCmd == [op |-> "rect_fill"]
VideoFlush(stream, fence) == [op |-> "video", stream |-> stream, fence |-> fence]

\* The host surfaces a command reads or writes.
Uses(c) == CASE c.op = "copy" -> {c.sid, c.dst}
             [] c.op \in {"destroy", "dma", "present", "show"} -> {c.sid}
             [] OTHER -> {}

\* What the device does with a command; one that uses a surface which does
\* not exist, or defines one that does, is an error it remembers.
Execute(d, c) ==
    LET e == [d EXCEPT !.error = @ \/ ~(Uses(c) \subseteq d.host)]
    IN  CASE c.op = "define"  -> [e EXCEPT !.host = @ \cup {c.sid},
                                           !.error = @ \/ c.sid \in d.host]
          [] c.op = "destroy" -> [e EXCEPT !.host = @ \ {c.sid}]
          [] OTHER            -> e

\* The device has executed the first n commands of its queue.
Drain(d, n) ==
    FoldLeft(Execute, [d EXCEPT !.queue = SubSeq(@, n + 1, Len(@))],
             SubSeq(d.queue, 1, n))

\* A caller that finds the ring full waits for the device to make room.
Queue(x, cmds) ==
    LET d == [x.dev EXCEPT !.queue = @ \o cmds]
    IN  [x EXCEPT !.dev = IF Len(d.queue) <= MaxQueue THEN d
                          ELSE Drain(d, Len(d.queue) - MaxQueue)]

SyncFIFO(x) == [x EXCEPT !.dev = Drain(@, Len(@.queue))]

\* Waits for the latest of the given fences, if it is still queued.
SyncToFence(x, fence) ==
    LET at == {i \in DOMAIN x.dev.queue :
                 "fence" \in DOMAIN x.dev.queue[i] /\ x.dev.queue[i].fence = fence}
    IN  IF at = {} THEN x ELSE [x EXCEPT !.dev = Drain(@, Max(at))]

-----------------------------------------------------------------------------
(* Start.                                                                  *)

\* The options after the boot arguments; QE implies the GL contexts.
processOptions(args) ==
    LET given == {"2d_context", "surface_connect"} \cup args
    IN  IF "qe" \in given THEN given \cup {"gl_context"} ELSE given

SVGAScreenInit(caps) == "screen_object" \in caps
SVGA3DInit(caps) == {"extended_fifo", "3d"} \subseteq caps
HaveGLBaseline(d3, caps) == d3 /\ "gmr" \in caps

start(args, caps, use) ==
    LET opts == processOptions(args)
        screen == "no_screen_object" \notin opts /\ SVGAScreenInit(caps)
        d3 == (screen \/ opts \cap {"svga3d", "gl_context"} # {})
              /\ SVGA3DInit(caps)
    IN  [opts |-> IF "gl_context" \in opts /\ ~HaveGLBaseline(d3, caps)
                  THEN opts \ {"gl_context", "qe"} ELSE opts,
         screen |-> screen, d3 |-> d3, gmr |-> "gmr" \in caps, use |-> use]

\* Whether a client of this type may connect; surfaces are the window
\* server's, which is the one task that connects them here.
newUserClient(type) ==
    CASE type = "surface" -> "surface_connect" \in hw.opts
      [] type = "2d"      -> "2d_context" \in hw.opts
      [] type = "dvd"     -> "dvd_context" \in hw.opts
      [] OTHER            -> "gl_context" \in hw.opts   \* GL, device, OCD

HaveFrontBuffer == hw.screen \/ hw.d3

\* Whether the clients of this behaviour ever use a feature.  This bounds the
\* product of the features, not the features: each is used in some setup.
May(feature) == feature \in hw.use

InitAccel ==
    /\ hw \in {start(u.args, u.caps, u.use) : u \in Setups}
    /\ acc = [vram |-> {}, lost |-> {}, wired |-> {}, gmr |-> {},
              streams |-> {}, sids |-> {}, count |-> 0, master |-> NoId,
              blitbug |-> "unknown", counter |-> 0, primary |-> FALSE]
    /\ dev = [queue |-> <<>>, host |-> {}, error |-> FALSE,
              gmr |-> [g \in GmrIds |-> NoId]]

-----------------------------------------------------------------------------
(* Pools.                                                                  *)

VRAMMalloc(x) ==
    {[ptr |-> c, x |-> [x EXCEPT !.acc.vram = @ \cup {c}]] :
        c \in Chunks \ x.acc.vram} \cup {[ptr |-> NoId, x |-> x]}

VRAMFree(x, ptr) == [x EXCEPT !.acc.vram = @ \ {ptr}]

\* A block that could not be grown stays allocated while the caller gets a
\* null pointer for it; such blocks are remembered in lost.
VRAMRealloc(x, ptr) ==
    {[ptr |-> c, x |-> [x EXCEPT !.acc.vram = (@ \ {ptr}) \cup {c}]] :
        c \in Chunks \ (x.acc.vram \ {ptr})}
    \cup {[ptr |-> NoId, x |-> [x EXCEPT !.acc.lost = @ \cup ({ptr} \ {NoId})]]}

AllocSurfaceID(x) == CHOOSE i \in SurfaceIds : i \notin x.acc.sids
FreeSurfaceID(x, sid) == [x EXCEPT !.acc.sids = @ \ {sid}]

\* Outcomes, none when all ids are held.
AllocStreamID(x) ==
    {[id |-> v, x |-> [x EXCEPT !.acc.streams = @ \cup {v}]] : v \in StreamIds \ x.acc.streams}
FreeStreamID(x, v) == [x EXCEPT !.acc.streams = @ \ {v}]
AllocGMRID(x) ==
    {[id |-> g, x |-> [x EXCEPT !.acc.gmr = @ \cup {g}]] : g \in GmrIds \ x.acc.gmr}
FreeGMRID(x, g) == [x EXCEPT !.acc.gmr = @ \ {g}]

\* createGMR: the region is defined through registers, at once.  It fails
\* without the capability, and when the descriptor is too long for it.
createGMR(x, g, md) ==
    {[ok |-> FALSE, x |-> x]}
    \cup (IF hw.gmr THEN {[ok |-> TRUE, x |-> [x EXCEPT !.dev.gmr[g] = md]]} ELSE {})
destroyGMR(x, g) == [x EXCEPT !.dev.gmr[g] = NoId]

-----------------------------------------------------------------------------
(* Host surfaces, presents, screens, overlays.                             *)

createSurface(x, sid) == Queue(x, <<BeginDefineSurface(sid)>>)
destroySurface(x, sid) == Queue(x, <<DestroySurface(sid)>>)
surfaceDMA2D(x, sid, ref, fence) == Queue(x, <<BeginSurfaceDMA(sid, ref, fence)>>)
surfaceCopy(x, src, dst) == Queue(x, <<BeginSurfaceCopy(src, dst)>>)
surfaceStretch(x, src, dst) == Queue(x, <<SurfaceStretchBlt(src, dst)>>)
blitSurfaceToScreen(x, sid) == Queue(x, <<BeginBlitSurfaceToScreen(sid)>>)
blitToScreen(x, ref, fence) == Queue(x, <<BlitGMRFB(ref, fence)>>)
blitFromScreen(x, ref, fence) == Queue(x, <<BlitGMRFB(ref, fence)>>)

\* FenceTracker: a present waits for the one PresentFences before it.
before(x) == x.acc.counter
after(x) == [x EXCEPT !.acc.counter = (@ + 1) % PresentFences]
surfacePresentAutoSync(x, sid) ==
    LET y == SyncToFence(x, before(x))
    IN  after(Queue(y, <<BeginPresent(sid, before(y))>>))

createMasterSurface(x) ==
    LET sid == AllocSurfaceID(x)
    IN  createSurface([x EXCEPT !.acc.sids = @ \cup {sid}, !.acc.master = sid], sid)
destroyMasterSurface(x) ==
    IF x.acc.master = NoId THEN x
    ELSE [FreeSurfaceID(destroySurface(x, x.acc.master), x.acc.master)
             EXCEPT !.acc.master = NoId]
retainMasterSurface(x) ==
    LET y == [x EXCEPT !.acc.count = @ + 1]
    IN  IF x.acc.count = 0 THEN createMasterSurface(y) ELSE y
releaseMasterSurface(x) ==
    IF x.acc.count = 0 THEN x
    ELSE LET y == [x EXCEPT !.acc.count = @ - 1]
         IN  IF x.acc.count = 1 THEN destroyMasterSurface(y) ELSE y

createPrimaryScreen(x) ==
    IF x.acc.primary THEN x
    ELSE [Queue(x, <<DefineScreen>>) EXCEPT !.acc.primary = TRUE]
isPrimaryScreenActive(x) == hw.screen /\ x.acc.primary

UpdateFramebufferAutoRing(x) == IF HaveFrontBuffer THEN x ELSE Queue(x, <<RectUpdate>>)
RectCopy(x) == IF HaveFrontBuffer THEN x ELSE Queue(x, <<RectCopyCmd>>)
CopyRegion(x) == IF HaveFrontBuffer THEN x ELSE Queue(x, <<RectCopyCmd>>)
RectFill(x) == Queue(x, <<RectFillCmd>>)

VideoSetRegsInRange(x, stream, fence) == Queue(x, <<VideoFlush(stream, fence)>>)
VideoSetReg(x, stream) == Queue(x, <<VideoFlush(stream, NoId)>>)

=============================================================================
