------------------------------ MODULE Context2D ------------------------------
(***************************************************************************)
(* VMsvga22DContext: the 2D contexts of the graphics plug-in, each of them *)
(* drawing to the framebuffer or to a surface it holds, together with the  *)
(* surfaces they share, the accelerator below them and the device.         *)
(***************************************************************************)
EXTENDS Surface

CONSTANTS Contexts      \* 2D contexts that can be opened

VARIABLES ctx           \* per context: open, cgs (bTargetIsCGSSurface), surf

vars == <<hw, acc, dev, sf, vtb, ctx>>

NewContext == [open |-> FALSE, cgs |-> FALSE, surf |-> NoId]

\* A call of the context that ends in the accelerator and in no surface.
OnDevice(c, x) ==
    /\ ctx[c].open
    /\ acc' = x.acc /\ dev' = x.dev
    /\ UNCHANGED <<hw, sf, vtb, ctx>>

Accel == [acc |-> acc, dev |-> dev]

\* A call of the context that ends in the surface it holds.  A surface whose
\* client has closed it has no provider any more, and must not be called.
Held(c) == ctx[c].open /\ ctx[c].cgs /\ ctx[c].surf # NoId
           /\ sf[ctx[c].surf].state = "open"
OnSurface(c, x) == Return(ctx[c].surf, x) /\ UNCHANGED ctx

\* newUserClient and start.
OpenContext(c) ==
    /\ newUserClient("2d") /\ May("context")
    /\ ~ctx[c].open
    /\ ctx' = [ctx EXCEPT ![c].open = TRUE]
    /\ UNCHANGED <<hw, acc, dev, sf, vtb>>

CloseContext(c) ==
    /\ ctx[c].open
    /\ ctx' = [ctx EXCEPT ![c] = NewContext]
    /\ UNCHANGED <<hw, acc, dev, sf, vtb>>

findSurfaceForID(s) == s \in {t \in Surfaces : sf[t].state = "open" /\ HaveID(t)}

\* The surface held before is let go first, whatever follows.
set_surface(c, s, yuv) ==
    /\ ctx[c].open
    /\ \/ /\ ~findSurfaceForID(s)
          /\ ctx' = [ctx EXCEPT ![c].cgs = s # NoId, ![c].surf = NoId]
          /\ UNCHANGED <<hw, acc, dev, sf, vtb>>
       \/ /\ findSurfaceForID(s)
          /\ ctx' = [ctx EXCEPT ![c].cgs = TRUE, ![c].surf = s]
          /\ \E x \in context_set_surface(Call(s), yuv) : Return(s, x)

swap_surface(c) ==
    Held(c) /\ \E x \in surface_flush_video(Call(ctx[c].surf)) : OnSurface(c, x)

scale_surface(c, fit) ==
    Held(c) /\ OnSurface(c, context_scale_surface(Call(ctx[c].surf), fit))

lock_memory(c) ==
    Held(c) /\ \E x \in context_lock_memory(Call(ctx[c].surf)) : OnSurface(c, x)

unlock_memory(c) ==
    Held(c) /\ OnSurface(c, context_unlock_memory(Call(ctx[c].surf)))

finish(c) == OnDevice(c, SyncFIFO(Accel))

\* From surface s, or from the framebuffer when s is NoId.
CopySurfaceRegion(c, s) ==
    /\ Held(c) /\ findSurfaceForID(s)
    /\ \E x \in copy_surface_region_to_self(Call(ctx[c].surf), sf[s], vtb[s]) :
          OnSurface(c, x)

CopyFramebufferRegion(c) ==
    Held(c) /\ \E x \in copy_framebuffer_region_to_self(Call(ctx[c].surf)) : OnSurface(c, x)

\* CopyRegion, RectCopy, RectFill and UpdateFramebuffer to the framebuffer.
DrawToFramebuffer(c) ==
    /\ \/ ~ctx[c].cgs /\ OnDevice(c, CopyRegion(Accel))
       \/ ~ctx[c].cgs /\ OnDevice(c, RectCopy(Accel))
       \/ ~ctx[c].cgs /\ OnDevice(c, RectFill(Accel))
       \/ OnDevice(c, UpdateFramebufferAutoRing(Accel))

-----------------------------------------------------------------------------

\* The device executes its next command.
DeviceStep ==
    /\ dev.queue # <<>>
    /\ dev' = Drain(dev, 1)
    /\ UNCHANGED <<hw, acc, sf, vtb, ctx>>

Init == InitAccel /\ InitSurface /\ ctx = [c \in Contexts |-> NewContext]

Fits == {"none", "fits", "grown"}

Draw(s) ==
    \/ \E fit \in Fits, offset \in {FALSE, May("offset")} : set_scale(s, fit, offset)
    \/ \E client \in {FALSE, May("client")}, grab \in {FALSE, May("desktop")},
          fit \in Fits, offset \in BOOLEAN :
          set_shape_backing_length_ext(s, client, fit, offset, grab)
    \/ May("read") /\ surface_read_lock(s)
    \/ surface_read_unlock(s)
    \/ surface_write_lock(s)
    \/ surface_write_unlock(s)
    \/ \E plain, ident \in BOOLEAN : surface_flush(s, plain, ident)

SurfaceStep(s) ==
    \/ /\ s \in Extra => May("extra")
       /\ \A c \in Contexts : ctx[c].surf # s
       /\ Open(s)
    \/ clientClose(s)
    \/ set_id_mode(s, IF May("desktop") THEN "desktop" ELSE "window")
    \/ May("draw") /\ Draw(s)

ContextStep(c) ==
    \/ OpenContext(c)
    \/ CloseContext(c)
    \/ \E s \in Surfaces \cup {NoId}, yuv \in {FALSE, May("video")} : set_surface(c, s, yuv)
    \/ swap_surface(c)
    \/ \E fit \in Fits : scale_surface(c, fit)
    \/ lock_memory(c)
    \/ unlock_memory(c)
    \/ finish(c)
    \/ \E s \in Surfaces : CopySurfaceRegion(c, s)
    \/ CopyFramebufferRegion(c)
    \/ DrawToFramebuffer(c)

Next ==
    \/ \E s \in Surfaces : SurfaceStep(s) /\ UNCHANGED ctx
    \/ \E c \in Contexts : ContextStep(c)
    \/ DeviceStep

Spec == Init /\ [][Next]_vars

-----------------------------------------------------------------------------
(* Properties.                                                             *)

Owned(r) ==
    \/ r.owner = NoId
    \/ /\ r.mem # NoId
       /\ IF r.gmr = VRAM THEN sf[r.owner].self = r.mem
          ELSE r.gmr \in GmrIds /\ dev.gmr[r.gmr] = r.mem /\ vtb[r.owner].md = r.mem

\* A transfer that the device has yet to make (a DMA of a host surface, a
\* blit through the guest framebuffer) names memory its surface still holds:
\* a backing is released, moved or unwired only behind the transfer's fence.
NoStrayDMA ==
    \A i \in DOMAIN dev.queue :
        dev.queue[i].op \in {"dma", "gmrfb"} => Owned(dev.queue[i].ref)

\* Blocks of video memory, regions, descriptors and overlay streams in use
\* are those that a surface holds, each held by one surface; the device knows
\* a region by the memory its holder wired.  Two paths are known to lose what
\* they held: a block whose growth fails and a stream that is on when its
\* surface is set up for video again.  Nothing else is lost.
ResourcesAccounted ==
    LET self == {s \in Surfaces : sf[s].self # NoId}
        held == {s \in Surfaces : vtb[s].gmr \in GmrIds}
        wired == {s \in Surfaces : vtb[s].md # NoId}
        shown == {s \in Surfaces : sf[s].enabled}
    IN  /\ acc.vram = {sf[s].self : s \in self} \cup (acc.lost \cap Chunks)
        /\ Cardinality(acc.vram) = Cardinality(self) + Cardinality(acc.lost \cap Chunks)
        /\ acc.gmr = {vtb[s].gmr : s \in held} /\ Cardinality(acc.gmr) = Cardinality(held)
        /\ \A g \in GmrIds \ acc.gmr : dev.gmr[g] = NoId
        /\ \A s \in held : dev.gmr[vtb[s].gmr] = vtb[s].md
        /\ acc.wired = {vtb[s].md : s \in wired} /\ Cardinality(acc.wired) = Cardinality(wired)
        /\ acc.streams = {sf[s].stream : s \in shown} \cup (acc.lost \cap StreamIds)
        /\ Cardinality(acc.streams) = Cardinality(shown) + Cardinality(acc.lost \cap StreamIds)

\* The master surface exists exactly while a surface has it, and no command
\* ever uses a host surface that is not defined at that point of the queue,
\* or defines one again: surfaces come, go and switch to video and back while
\* presents and copies of others are queued.
MasterCounted ==
    /\ acc.count = Cardinality({s \in Surfaces : sf[s].master})
    /\ acc.sids = {acc.master} \ {NoId}
    /\ (acc.master # NoId) = (acc.count > 0)
    /\ ~Drain(dev, Len(dev.queue)).error

\* What a client has mapped is the backing of this moment, or the black block
\* that a video surface shows instead: no map outlives the memory it maps.
MapsCurrent ==
    \A s \in Surfaces, i \in 0..1 :
        sf[s].map[i] \in {NoId, "trick", IF sf[s].self # NoId THEN sf[s].self ELSE vtb[s].md}

\* Who obtains the write lock of a surface whose buffer begins where its
\* source does will not draw over what a queued transfer has yet to read:
\* whatever shapes, scales and flushes came before, on the memory of the
\* client as on the driver's.  With an offset the lock does not wait, as is
\* meant for the window server's desktop; that set_scale gives an offset to
\* any surface is not meant, and leaves its transfers queued.
WriteLockWaits ==
    [][\A s \in Surfaces :
         "write" \in sf'[s].lock \ sf[s].lock /\ ~sf[s].offset =>
           \A i \in DOMAIN dev'.queue :
              dev'.queue[i].op \in {"dma", "gmrfb"} => dev'.queue[i].ref.owner # s]_vars

=============================================================================
