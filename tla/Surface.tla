------------------------------- MODULE Surface -------------------------------
(***************************************************************************)
(* VMsvga2Surface: the surfaces of the window server, their backing memory *)
(* and the ways their contents reach the screen.  Private methods are      *)
(* operators on a call state x (see AccelService) with the fields sf (the  *)
(* surface) and vtb (the transfer buffer inside its backing); external     *)
(* methods are actions.                                                    *)
(***************************************************************************)
EXTENDS VendorTransferBuffer

CONSTANTS Surfaces,     \* surface objects that can be created
          Extra         \* those that only some setups open

\* A null pointer is no surface.
ASSUME SurfaceAssumption == NoId \notin Surfaces

VARIABLES sf,           \* per surface, the object's fields
          vtb           \* per surface, its transfer buffer

surfaceVars == <<sf, vtb>>

\* A surface before it is started.  Of its geometry, fit tells whether the
\* source has a size, and whether the backing is large enough for it, and
\* offset whether the buffer begins elsewhere than the source (m_scale.
\* reserved[2] is not 0); what else the paths depend on (the pixel format,
\* the identity scale) is a choice where it is tested.
NewSurface ==
    [state |-> "none", wid |-> NoId, fit |-> "none", offset |-> FALSE, region |-> FALSE,
     client |-> FALSE, lock |-> {}, skip |-> FALSE, master |-> FALSE,
     screen |-> FALSE, direct |-> FALSE, video |-> FALSE, enabled |-> FALSE,
     stream |-> NoId, self |-> NoId, map |-> [i \in 0..1 |-> NoId]]

HaveID(s) == sf[s].wid # NoId

InitSurface ==
    /\ sf = [s \in Surfaces |-> NewSurface]
    /\ vtb = [s \in Surfaces |-> NewTransferBuffer(s)]

Call(s) == [acc |-> acc, dev |-> dev, sf |-> sf[s], vtb |-> vtb[s]]

\* The call on s has ended in x.
Return(s, x) ==
    /\ acc' = x.acc /\ dev' = x.dev
    /\ sf' = [sf EXCEPT ![s] = x.sf]
    /\ vtb' = [vtb EXCEPT ![s] = x.vtb]
    /\ UNCHANGED hw

-----------------------------------------------------------------------------
(* Backing.                                                                *)

haveFrontBuffer(x) == x.sf.screen \/ x.sf.master
isBackingValid(x) == x.sf.self # NoId \/ x.vtb.md # NoId
classifyBacking(x) ==
    IF x.sf.self # NoId THEN "kernel"
    ELSE IF x.vtb.md = NoId THEN "none"
    ELSE IF x.vtb.gart = 0 THEN "kernel" ELSE "client"
hasSourceGrown(x) == x.sf.fit = "grown"
isSourceValid(x) == x.sf.fit # "none"

\* The memory a transfer of the surface names.
Memory(x) == IF x.vtb.md # NoId THEN x.vtb.md ELSE x.sf.self
Ref(x) == [gmr |-> x.vtb.gmr, mem |-> Memory(x), owner |-> x.vtb.tag]

\* Faulty variant: the map of the 2D context is left in place.
releaseBackingMapOfClient(x, i) == IF i = 0 THEN [x EXCEPT !.sf.map[0] = NoId] ELSE x

releaseBackingMap(x, i) == [x EXCEPT !.sf.map[i] = NoId]

\* Faulty variant: the block of video memory is forgotten, not freed.
releaseBackingForgets(x) ==
    [discard(complete(x)) EXCEPT !.sf.self = NoId,
                                 !.sf.map = [i \in 0..1 |-> NoId],
                                 !.vtb = NewTransferBuffer(@.tag)]

releaseBacking(x) ==
    LET y == discard(complete(x))
        z == IF y.sf.self # NoId THEN VRAMFree(y, y.sf.self) ELSE y
    IN  [z EXCEPT !.sf.self = NoId,
                  !.sf.map = [i \in 0..1 |-> NoId],
                  !.vtb = NewTransferBuffer(@.tag)]

\* A new descriptor md over the backing, prepared; what follows a failure of
\* either is the same.
Describe(x, gart) ==
    {[ok |-> FALSE, x |-> x]} \cup
    UNION {{IF r.ok THEN [ok |-> TRUE, x |-> [r.x EXCEPT !.vtb.gart = gart,
                                                         !.vtb.fence = FALSE]]
            ELSE [ok |-> FALSE, x |-> discard(r.x)] :
            r \in prepare([x EXCEPT !.acc.wired = @ \cup {md}, !.vtb.md = md])} :
           md \in Wired \ x.acc.wired}

wrapClientBacking(x) ==
    IF classifyBacking(x) = "client" /\ x.vtb.gart = 1 THEN {[ok |-> TRUE, x |-> x]}
    ELSE LET y == IF classifyBacking(x) = "none" THEN x ELSE releaseBacking(x)
         IN  Describe([y EXCEPT !.sf.fit = "fits"], 1)

allocGMRBacking(x) == Describe(x, 0)

allocBacking(x) ==
    IF x.sf.client THEN wrapClientBacking(x)
    ELSE IF classifyBacking(x) = "kernel" /\ ~hasSourceGrown(x)
    THEN {[ok |-> TRUE, x |-> x]}
    ELSE LET y == CASE classifyBacking(x) = "kernel" ->
                         discard(complete(releaseBackingMap(releaseBackingMap(x, 0), 1)))
                    [] classifyBacking(x) = "client" -> releaseBacking(x)
                    [] OTHER -> x
         IN  UNION {LET z == [r.x EXCEPT !.sf.self = r.ptr, !.sf.fit = "fits"]
                    IN  IF r.ptr = NoId THEN allocGMRBacking(z)
                        ELSE {[ok |-> TRUE, x |-> [z EXCEPT !.vtb.gmr = VRAM,
                                                            !.vtb.fence = FALSE]]} :
                    r \in VRAMRealloc(y, y.sf.self)}

\* A map of the backing in a client's task; the first one made stays.
mapBacking(x, i) ==
    IF x.sf.map[i] # NoId THEN {[ok |-> TRUE, x |-> x]}
    ELSE {[ok |-> FALSE, x |-> x],
          [ok |-> TRUE, x |-> [x EXCEPT !.sf.map[i] =
                                   IF x.sf.self # NoId THEN x.sf.self ELSE x.vtb.md]]}

\* Backing and map, as the lock methods want them.
AllocAndMap(x, i) ==
    UNION {IF r.ok THEN mapBacking(r.x, i) ELSE {r} : r \in allocBacking(x)}

-----------------------------------------------------------------------------
(* Front buffers.                                                          *)

\* A page of video memory is written to a host surface and read back; what
\* comes back tells whether the host has the bug.
detectBlitBug(x) ==
    LET y == createSurface(x, BlitBugSurface)
    IN  {IF m.ptr = NoId
         THEN [destroySurface(m.x, BlitBugSurface) EXCEPT !.acc.blitbug = "bug"]
         ELSE LET ref == [gmr |-> VRAM, mem |-> m.ptr, owner |-> NoId]
                  dma == <<BeginSurfaceDMA(BlitBugSurface, ref, NoId)>>
              IN  [destroySurface(VRAMFree(SyncFIFO(Queue(m.x, dma \o dma)), m.ptr),
                                  BlitBugSurface) EXCEPT !.acc.blitbug = result] :
         m \in VRAMMalloc(y), result \in {"none", "bug"}}

Start3D(x) ==
    LET y == [x EXCEPT !.sf.screen = hw.screen]
        z == [retainMasterSurface(y) EXCEPT !.sf.master = TRUE]
        known == IF z.acc.blitbug = "unknown" THEN detectBlitBug(z) ELSE {z}
    IN  IF hw.screen \/ ~hw.d3 THEN {y}
        ELSE IF "direct_blit" \in hw.opts THEN {[z EXCEPT !.sf.direct = TRUE]}
        ELSE {[k EXCEPT !.sf.direct = k.acc.blitbug = "none"] : k \in known}

\* Faulty variant: the surface goes on believing it has the master surface.
Cleanup3DKeepsBit(x) ==
    IF ~haveFrontBuffer(x) THEN x
    ELSE [IF x.sf.master THEN releaseMasterSurface(x) ELSE x EXCEPT !.sf.screen = FALSE]

Cleanup3D(x) ==
    IF ~haveFrontBuffer(x) THEN x
    ELSE [IF x.sf.master THEN releaseMasterSurface(x) ELSE x
             EXCEPT !.sf.master = FALSE, !.sf.screen = FALSE]

-----------------------------------------------------------------------------
(* From the backing to the screen.                                         *)

doPresent(x) == surfacePresentAutoSync(x, x.acc.master)

DMAOutDirect(x) ==
    [surfaceDMA2D(x, x.acc.master, Ref(x), x.vtb.tag) EXCEPT !.vtb.fence = TRUE]

\* Through an auxiliary host surface that lives as long as the call.
Upload(x, aux) ==
    [surfaceDMA2D(createSurface(x, aux), aux, Ref(x), x.vtb.tag)
        EXCEPT !.vtb.fence = TRUE]

DMAOutWithCopy(x) ==
    LET aux == AllocSurfaceID(x)
    IN  destroySurface(surfaceCopy(Upload(x, aux), aux, x.acc.master), aux)

DMAOutStretchWithCopy(x) ==
    LET aux1 == AllocSurfaceID(x)
        aux0 == AllocSurfaceID([x EXCEPT !.acc.sids = @ \cup {aux1}])
        stretched == surfaceStretch(createSurface(Upload(x, aux1), aux0), aux1, aux0)
    IN  destroySurface(surfaceCopy(destroySurface(stretched, aux1),
                                   aux0, x.acc.master), aux0)

ScreenObjectOutDirect(x) ==
    [blitToScreen(x, Ref(x), x.vtb.tag) EXCEPT !.vtb.fence = TRUE]

ScreenObjectOutVia3D(x) ==
    LET aux == AllocSurfaceID(x)
    IN  destroySurface(blitSurfaceToScreen(Upload(x, aux), aux), aux)

\* The copy is the processor's; only the update is queued.
GFBOutDirect(x) == UpdateFramebufferAutoRing(x)

-----------------------------------------------------------------------------
(* Video overlays.                                                         *)

\* A block of memory the client sees instead of the frame; errors are ignored.
setup_trick_buffer(x) ==
    {x} \cup {[x EXCEPT !.sf.map[0] = m] : m \in {"trick", NoId}}

videoReshape(x) ==
    IF ~x.sf.video \/ ~x.sf.enabled THEN x
    ELSE [VideoSetRegsInRange(x, x.sf.stream, x.vtb.tag)
             EXCEPT !.vtb.fence = TRUE]

surface_video_off(x) ==
    IF ~x.sf.video \/ ~x.sf.enabled THEN x
    ELSE [FreeStreamID(VideoSetReg(x, x.sf.stream), x.sf.stream)
             EXCEPT !.sf.enabled = FALSE, !.sf.stream = NoId]

surface_flush_video(x) ==
    IF x.sf.wid = NoId \/ ~x.sf.region \/ ~isBackingValid(x) \/ ~x.sf.video THEN {x}
    ELSE IF x.sf.enabled
    THEN {[VideoSetRegsInRange(x, x.sf.stream, x.vtb.tag)
              EXCEPT !.vtb.fence = TRUE]}
    ELSE IF AllocStreamID(x) = {} THEN {[x EXCEPT !.sf.stream = NoId]}
    ELSE {[VideoSetRegsInRange([a.x EXCEPT !.sf.stream = a.id, !.sf.enabled = TRUE],
                               a.id, x.vtb.tag) EXCEPT !.vtb.fence = TRUE] :
          a \in AllocStreamID(x)}

-----------------------------------------------------------------------------
(* External methods.  Calls that are refused change nothing.               *)

\* newUserClient and the start of the client.
Open(s) ==
    /\ newUserClient("surface")
    /\ sf[s].state # "open"
    /\ \E x \in Start3D([Call(s) EXCEPT !.sf = [NewSurface EXCEPT !.state = "open"]]) :
          Return(s, x)

Cleanup(x) ==
    [releaseBacking(surface_video_off(Cleanup3D(x))) EXCEPT !.sf.region = FALSE]

clientClose(s) ==
    /\ sf[s].state = "open"
    /\ Return(s, [Cleanup(Call(s)) EXCEPT !.sf.state = "closed"])

\* The window server's own surface, the desktop, has window id 1.
set_id_mode(s, wid) ==
    LET x == Call(s)
        desktop == wid = "desktop"
    IN  /\ sf[s].state = "open"
        /\ desktop => haveFrontBuffer(x)
        /\ Return(s, [IF desktop /\ x.sf.screen THEN createPrimaryScreen(x) ELSE x
                         EXCEPT !.sf.wid = wid])

\* The client's scaling is taken as it is, on any surface.
set_scale(s, fit, offset) ==
    /\ sf[s].state = "open"
    /\ Return(s, [Call(s) EXCEPT !.sf.fit = fit, !.sf.offset = offset])

\* The four methods that set the shape end in this one.  A refusal after the
\* first tests leaves the surface without region and without client memory.
\* A shape with the identity scale puts the buffer where the source begins,
\* but for the desktop without packed backing: there it is a part of the
\* screen.  Without that bit the scale stays.
set_shape_backing_length_ext(s, client, fit, offset, grab) ==
    LET x == [Call(s) EXCEPT !.sf.region = FALSE, !.sf.client = FALSE]
        y == [x EXCEPT !.sf.client = client, !.sf.region = TRUE, !.sf.fit = fit, !.sf.offset = offset,
                       !.vtb.gart = IF client /\ @ # 0 THEN 2 ELSE @,
                       !.sf.skip = (sf[s].wid = "desktop" /\ grab) \/ @]
    IN  /\ sf[s].state = "open"
        /\ offset => sf[s].offset \/ (sf[s].wid = "desktop" /\ "packed_backing" \notin hw.opts)
        /\ \/ Return(s, x)
           \/ HaveID(s) /\ Return(s, [x EXCEPT !.vtb.gart = y.vtb.gart])
           \/ HaveID(s) /\ Return(s, videoReshape(y))

\* OSTestAndSet of one of three independent bits.
Lock(x, bit) == [x EXCEPT !.sf.lock = @ \cup {bit}]
Unlock(x, bit) == [x EXCEPT !.sf.lock = @ \ {bit}]

surface_read_lock(s) ==
    LET x == Call(s)
    IN  /\ sf[s].state = "open" /\ HaveID(s) /\ isSourceValid(x)
        /\ "read" \notin sf[s].lock
        /\ \E r \in IF sf[s].client THEN {[ok |-> TRUE, x |-> Lock(x, "read")]}
                    ELSE AllocAndMap(Lock(x, "read"), 0) :
              Return(s, IF r.ok THEN r.x ELSE Unlock(r.x, "read"))

surface_read_unlock(s) ==
    /\ "read" \in sf[s].lock
    /\ Return(s, Unlock(Call(s), "read"))

\* Faulty variant: a lock on the client's own memory returns without waiting.
surface_write_lockClientFree(s) ==
    LET x == IF sf[s].skip THEN [Call(s) EXCEPT !.sf.skip = FALSE]
             ELSE Lock(Call(s), "write")
    IN  /\ sf[s].state = "open" /\ HaveID(s) /\ isSourceValid(x)
        /\ sf[s].skip \/ "write" \notin sf[s].lock
        /\ \E r \in IF sf[s].client THEN {[ok |-> FALSE, x |-> x]}
                    ELSE AllocAndMap(x, 0) :
              Return(s, IF sf[s].client THEN r.x
                        ELSE IF ~r.ok THEN Unlock(r.x, "write")
                        ELSE IF sf[s].offset THEN r.x ELSE sync(r.x))

\* A surface whose buffer has an offset does not wait for its transfers: the
\* code knows the window server's desktop without packed backing by that,
\* though set_scale gives an offset to any surface.
surface_write_lock(s) ==
    LET x == IF sf[s].skip THEN [Call(s) EXCEPT !.sf.skip = FALSE]
             ELSE Lock(Call(s), "write")
    IN  /\ sf[s].state = "open" /\ HaveID(s) /\ isSourceValid(x)
        /\ sf[s].skip \/ "write" \notin sf[s].lock
        /\ \E r \in IF sf[s].client THEN {[ok |-> TRUE, x |-> x]}
                    ELSE AllocAndMap(x, 0) :
              Return(s, IF ~r.ok THEN Unlock(r.x, "write")
                        ELSE IF sf[s].offset THEN r.x ELSE sync(r.x))

surface_write_unlock(s) ==
    /\ "write" \in sf[s].lock
    /\ Return(s, Unlock(Call(s), "write"))

\* plain: the pixel format is the screen's; ident: the scale is the identity.
surface_flush(s, plain, ident) ==
    LET x == Call(s)
    IN  /\ sf[s].state = "open" /\ HaveID(s) /\ sf[s].region /\ isBackingValid(x)
        /\ ~sf[s].video
        /\ Return(s,
             IF sf[s].screen
             THEN IF plain /\ ident THEN ScreenObjectOutDirect(x)
                  ELSE IF hw.d3 THEN ScreenObjectOutVia3D(x) ELSE x
             ELSE IF sf[s].master
             THEN doPresent(IF ~ident THEN DMAOutStretchWithCopy(x)
                            ELSE IF plain /\ sf[s].direct THEN DMAOutDirect(x)
                            ELSE DMAOutWithCopy(x))
             ELSE IF plain /\ ident THEN GFBOutDirect(x) ELSE x)

-----------------------------------------------------------------------------
(* Methods the 2D contexts call, as sets of outcomes.                      *)

context_set_surface(x, yuv) ==
    IF ~yuv
    THEN LET y == [surface_video_off(x) EXCEPT !.sf.video = FALSE]
         IN  IF haveFrontBuffer(y) THEN {y} ELSE Start3D(y)
    ELSE IF "no_yuv" \in hw.opts THEN {x}
    ELSE {Cleanup3D([x EXCEPT !.sf.video = TRUE, !.sf.enabled = FALSE,
                              !.acc.lost = @ \cup (IF x.sf.enabled THEN {x.sf.stream} ELSE {})])}

context_scale_surface(x, fit) == [x EXCEPT !.sf.fit = fit, !.sf.offset = FALSE]

context_lock_memory(x) ==
    IF x.sf.wid = NoId \/ ~isSourceValid(x) \/ "context" \in x.sf.lock THEN {x}
    ELSE UNION {IF ~r.ok THEN {Unlock(r.x, "context")}
                ELSE IF x.sf.video /\ (hw.screen \/ ~hw.d3) THEN setup_trick_buffer(r.x)
                ELSE {r.x} : r \in AllocAndMap(Lock(x, "context"), 1)}

context_unlock_memory(x) == releaseBackingMap(Unlock(x, "context"), 1)

copy_framebuffer_region_to_self(x) ==
    IF x.sf.wid = NoId \/ ~isSourceValid(x) \/ x.sf.video THEN {x}
    ELSE {IF ~r.ok THEN r.x
          ELSE IF isPrimaryScreenActive(r.x)
          THEN sync([blitFromScreen(r.x, Ref(r.x), r.x.vtb.tag) EXCEPT !.vtb.fence = TRUE])
          ELSE IF r.x.sf.master THEN sync(DMAOutDirect(r.x))
          ELSE r.x : r \in allocBacking(x)}

\* The copy itself is the processor's.
copy_surface_region_to_self(x, source, sourceVtb) ==
    IF \/ x.sf.wid = NoId \/ ~isSourceValid(x) \/ source.wid = NoId
       \/ ~isBackingValid([sf |-> source, vtb |-> sourceVtb]) THEN {x}
    ELSE {r.x : r \in allocBacking(x)}

=============================================================================
