---------------------------- MODULE Context2DProofs ----------------------------
(***************************************************************************)
(* The surfaces and the 2D contexts, for any number of them and pools of   *)
(* any size.                                                               *)
(***************************************************************************)
EXTENDS Context2D, NaturalsInduction, WellFoundedInduction, SequenceTheorems, FiniteSetTheorems, TLAPS

-----------------------------------------------------------------------------
(* Shapes.  A call state has four fields, of which the accelerator's       *)
(* methods change the first two.                                           *)

SurfaceFields == {"state", "wid", "fit", "offset", "region", "client", "lock", "skip", "master",
                  "screen", "direct", "video", "enabled", "stream", "self", "map"}
BufferFields == {"gmr", "md", "gart", "fence", "tag"}

IsCall(x) ==
  /\ DOMAIN x = {"acc", "dev", "sf", "vtb"}
  /\ DOMAIN x.sf = SurfaceFields /\ DOMAIN x.vtb = BufferFields /\ DOMAIN x.sf.map = 0..1

\* Whatever happened in the accelerator, the surface is as it was.
Same(x, y) == DOMAIN y = DOMAIN x /\ y.sf = x.sf /\ y.vtb = x.vtb

LEMMA SameTrans ==
  ASSUME NEW x, NEW y, NEW z, Same(x, y), Same(y, z) PROVE Same(x, z)
BY DEF Same

LEMMA QueueSame == ASSUME NEW x, IsCall(x), NEW cmds PROVE Same(x, Queue(x, cmds))
BY DEF Same, IsCall, Queue

LEMMA SyncSame ==
  ASSUME NEW x, IsCall(x)
  PROVE  Same(x, SyncFIFO(x)) /\ \A f : Same(x, SyncToFence(x, f))
BY DEF Same, IsCall, SyncFIFO, SyncToFence

LEMMA PoolsSame ==
  ASSUME NEW x, IsCall(x)
  PROVE  /\ \A r \in VRAMMalloc(x) : Same(x, r.x)
         /\ \A p : Same(x, VRAMFree(x, p)) /\ \A r \in VRAMRealloc(x, p) : Same(x, r.x)
         /\ \A i : Same(x, FreeSurfaceID(x, i)) /\ Same(x, FreeStreamID(x, i)) /\ Same(x, FreeGMRID(x, i))
         /\ \A r \in AllocStreamID(x) \cup AllocGMRID(x) : Same(x, r.x)
         /\ \A g, md : Same(x, destroyGMR(x, g)) /\ \A r \in createGMR(x, g, md) : Same(x, r.x)
BY DEF Same, IsCall, VRAMMalloc, VRAMFree, VRAMRealloc, FreeSurfaceID, FreeStreamID, FreeGMRID,
       AllocStreamID, AllocGMRID, destroyGMR, createGMR

LEMMA SameIsCall == ASSUME NEW x, NEW y, IsCall(x), Same(x, y) PROVE IsCall(y)
BY DEF Same, IsCall

LEMMA MasterSame ==
  ASSUME NEW x, IsCall(x)
  PROVE  Same(x, retainMasterSurface(x)) /\ Same(x, releaseMasterSurface(x))
         /\ Same(x, createPrimaryScreen(x))
<1>1. \A n, m : Same(x, [x EXCEPT !.acc.count = n]) /\ Same(x, [x EXCEPT !.acc.sids = n, !.acc.master = m])
  BY DEF Same, IsCall
<1>2. \A y : IsCall(y) => Same(y, [y EXCEPT !.acc.master = NoId]) /\ Same(y, [y EXCEPT !.acc.primary = TRUE])
  BY DEF Same, IsCall
<1>3. ASSUME NEW y, IsCall(y) PROVE Same(y, createMasterSurface(y)) /\ Same(y, destroyMasterSurface(y))
  <2>1. Same(y, createMasterSurface(y))
    <3> DEFINE sid == AllocSurfaceID(y)
               z == [y EXCEPT !.acc.sids = @ \cup {sid}, !.acc.master = sid]
    <3>1. Same(y, z)
      BY <1>3 DEF Same, IsCall
    <3>2. createMasterSurface(y) = Queue(z, <<BeginDefineSurface(sid)>>)
      BY DEF createMasterSurface, createSurface
    <3> HIDE DEF z
    <3> QED
      BY <1>3, <3>1, <3>2, SameIsCall, QueueSame, SameTrans
  <2>2. Same(y, destroyMasterSurface(y))
    <3> DEFINE z == destroySurface(y, y.acc.master)
               w == FreeSurfaceID(z, y.acc.master)
    <3>1. Same(y, z) /\ IsCall(z)
      BY <1>3, QueueSame, SameIsCall DEF destroySurface
    <3>2. Same(y, w) /\ IsCall(w)
      BY <1>3, <3>1, PoolsSame, SameIsCall, SameTrans
    <3>3. destroyMasterSurface(y) = IF y.acc.master = NoId THEN y ELSE [w EXCEPT !.acc.master = NoId]
      BY DEF destroyMasterSurface
    <3> HIDE DEF w
    <3>4. Same(y, [w EXCEPT !.acc.master = NoId]) /\ Same(y, y)
      BY <1>2, <3>2, SameTrans DEF Same
    <3> QED
      BY <3>3, <3>4
  <2> QED
    BY <2>1, <2>2
<1>4. Same(x, x)
  BY DEF Same
<1>5. Same(x, retainMasterSurface(x))
  <2> DEFINE y == [x EXCEPT !.acc.count = @ + 1]
  <2>1. Same(x, y)
    BY <1>1
  <2>2. retainMasterSurface(x) = IF x.acc.count = 0 THEN createMasterSurface(y) ELSE y
    BY DEF retainMasterSurface
  <2> HIDE DEF y
  <2> QED
    BY <1>3, <2>1, <2>2, SameIsCall, SameTrans
<1>6. Same(x, releaseMasterSurface(x))
  <2> DEFINE y == [x EXCEPT !.acc.count = @ - 1]
  <2>1. Same(x, y)
    BY <1>1
  <2>2. releaseMasterSurface(x) \in {x, y, destroyMasterSurface(y)}
    BY DEF releaseMasterSurface
  <2> HIDE DEF y
  <2> QED
    BY <1>3, <1>4, <2>1, <2>2, SameIsCall, SameTrans
<1>7. Same(x, createPrimaryScreen(x))
  <2> DEFINE y == Queue(x, <<DefineScreen>>)
  <2>1. Same(x, y) /\ IsCall(y)
    BY QueueSame, SameIsCall
  <2>2. createPrimaryScreen(x) \in {x, [y EXCEPT !.acc.primary = TRUE]}
    BY DEF createPrimaryScreen
  <2> HIDE DEF y
  <2>3. Same(x, [y EXCEPT !.acc.primary = TRUE])
    BY <1>2, <2>1, SameTrans
  <2> QED
    BY <1>4, <2>2, <2>3
<1> QED
  BY <1>5, <1>6, <1>7

-----------------------------------------------------------------------------
(* Maps.                                                                   *)

Backing(x) == IF x.sf.self # NoId THEN x.sf.self ELSE x.vtb.md
Current(x) == IsCall(x) /\ \A i \in 0..1 : x.sf.map[i] \in {NoId, "trick", Backing(x)}
Unmapped(x) == IsCall(x) /\ \A i \in 0..1 : x.sf.map[i] \in {NoId, "trick"}

\* The backing and its maps are as they were.
Still(x, y) ==
  IsCall(y) /\ y.sf.map = x.sf.map /\ y.sf.self = x.sf.self /\ y.vtb.md = x.vtb.md

LEMMA StillTrans ==
  ASSUME NEW x, NEW y, NEW z, Still(x, y), Still(y, z) PROVE Still(x, z)
BY DEF Still

LEMMA StillCurrent ==
  ASSUME NEW x, NEW y, Still(x, y)
  PROVE  (Current(x) => Current(y)) /\ (Unmapped(x) => Unmapped(y))
BY DEF Still, Current, Unmapped, Backing

LEMMA SameStill == ASSUME NEW x, NEW y, IsCall(x), Same(x, y) PROVE Still(x, y) /\ IsCall(y)
BY DEF Same, Still, IsCall

LEMMA StillIsCall == ASSUME NEW x, NEW y, Still(x, y) PROVE IsCall(y)
BY DEF Still

\* The fields that say nothing of backing and maps.
LEMMA FieldsStill ==
  ASSUME NEW x, IsCall(x)
  PROVE  /\ Still(x, x)
         /\ \A v : /\ Still(x, [x EXCEPT !.sf.state = v]) /\ Still(x, [x EXCEPT !.sf.wid = v])
                   /\ Still(x, [x EXCEPT !.sf.fit = v]) /\ Still(x, [x EXCEPT !.sf.region = v])
                   /\ Still(x, [x EXCEPT !.sf.lock = v]) /\ Still(x, [x EXCEPT !.sf.skip = v])
                   /\ Still(x, [x EXCEPT !.sf.master = v]) /\ Still(x, [x EXCEPT !.sf.screen = v])
                   /\ Still(x, [x EXCEPT !.sf.direct = v]) /\ Still(x, [x EXCEPT !.sf.video = v])
                   /\ Still(x, [x EXCEPT !.sf.client = v])
                   /\ Still(x, [x EXCEPT !.sf.stream = v]) /\ Still(x, [x EXCEPT !.vtb.gmr = v])
                   /\ Still(x, [x EXCEPT !.vtb.gart = v]) /\ Still(x, [x EXCEPT !.vtb.fence = v])
                   /\ Still(x, [x EXCEPT !.acc.blitbug = v])
         /\ \A v, w : /\ Still(x, [x EXCEPT !.sf.master = v, !.sf.screen = w])
                      /\ Still(x, [x EXCEPT !.sf.enabled = v, !.sf.stream = w])
                      /\ Still(x, [x EXCEPT !.sf.stream = v, !.sf.enabled = w])
                      /\ Still(x, [x EXCEPT !.sf.region = v, !.sf.client = w])
                      /\ Still(x, [x EXCEPT !.sf.fit = v, !.sf.offset = w])
                      /\ Still(x, [x EXCEPT !.vtb.gart = v, !.vtb.fence = w])
                      /\ Still(x, [x EXCEPT !.vtb.gmr = v, !.vtb.fence = w])
<1> USE DEF Still, IsCall, SurfaceFields, BufferFields
<1>1. Still(x, x)
  OBVIOUS
<1>2. ASSUME NEW v
      PROVE  /\ Still(x, [x EXCEPT !.sf.state = v]) /\ Still(x, [x EXCEPT !.sf.wid = v])
             /\ Still(x, [x EXCEPT !.sf.fit = v]) /\ Still(x, [x EXCEPT !.sf.region = v])
             /\ Still(x, [x EXCEPT !.sf.lock = v]) /\ Still(x, [x EXCEPT !.sf.skip = v])
  OBVIOUS
<1>3. ASSUME NEW v
      PROVE  /\ Still(x, [x EXCEPT !.sf.master = v]) /\ Still(x, [x EXCEPT !.sf.screen = v])
             /\ Still(x, [x EXCEPT !.sf.direct = v]) /\ Still(x, [x EXCEPT !.sf.video = v])
             /\ Still(x, [x EXCEPT !.sf.client = v]) /\ Still(x, [x EXCEPT !.sf.stream = v])
  OBVIOUS
<1>4. ASSUME NEW v
      PROVE  /\ Still(x, [x EXCEPT !.vtb.gmr = v]) /\ Still(x, [x EXCEPT !.vtb.gart = v])
             /\ Still(x, [x EXCEPT !.vtb.fence = v]) /\ Still(x, [x EXCEPT !.acc.blitbug = v])
  OBVIOUS
<1>5. ASSUME NEW v, NEW w
      PROVE  /\ Still(x, [x EXCEPT !.sf.master = v, !.sf.screen = w])
             /\ Still(x, [x EXCEPT !.sf.enabled = v, !.sf.stream = w])
             /\ Still(x, [x EXCEPT !.sf.stream = v, !.sf.enabled = w])
             /\ Still(x, [x EXCEPT !.sf.region = v, !.sf.client = w])
             /\ Still(x, [x EXCEPT !.sf.fit = v, !.sf.offset = w])
  OBVIOUS
<1>6. ASSUME NEW v, NEW w
      PROVE  /\ Still(x, [x EXCEPT !.vtb.gart = v, !.vtb.fence = w])
             /\ Still(x, [x EXCEPT !.vtb.gmr = v, !.vtb.fence = w])
  OBVIOUS
<1> HIDE DEF Still, IsCall, SurfaceFields, BufferFields
<1> QED
  BY <1>1, <1>2, <1>3, <1>4, <1>5, <1>6

LEMMA SyncStill == ASSUME NEW x, IsCall(x) PROVE Still(x, sync(x))
<1>1. Still(x, SyncToFence(x, x.vtb.tag))
  BY SyncSame, SameStill
<1>2. Still(x, [SyncToFence(x, x.vtb.tag) EXCEPT !.vtb.fence = FALSE])
  BY <1>1, StillIsCall, FieldsStill, StillTrans, Zenon
<1> QED
  BY <1>2, FieldsStill, Zenon DEF sync

LEMMA CompleteStill == ASSUME NEW x, IsCall(x) PROVE Still(x, complete(x))
<1> DEFINE y == sync(x)
           z == destroyGMR(y, y.vtb.gmr)
           w == FreeGMRID(z, y.vtb.gmr)
<1>1. Still(x, y) /\ IsCall(y)
  BY SyncStill, StillIsCall
<1>2. Still(x, z) /\ IsCall(z)
  BY <1>1, PoolsSame, SameStill, StillTrans
<1>3. Still(x, w) /\ IsCall(w)
  BY <1>2, PoolsSame, SameStill, StillTrans
<1>4. Still(x, [w EXCEPT !.vtb.gmr = NoId])
  BY <1>3, FieldsStill, StillTrans, Zenon
<1>5. complete(x) \in {y, [w EXCEPT !.vtb.gmr = NoId]}
  BY DEF complete
<1> QED
  BY <1>1, <1>4, <1>5

LEMMA DiscardGives ==
  ASSUME NEW x, IsCall(x)
  PROVE  /\ IsCall(discard(x)) /\ discard(x).sf = x.sf /\ discard(x).vtb.md = NoId
BY DEF discard, IsCall, BufferFields

LEMMA ReleaseBackingGives ==
  ASSUME NEW x, IsCall(x), NEW y, y = releaseBacking(x)
  PROVE  /\ IsCall(y) /\ y.sf.self = NoId /\ y.vtb.md = NoId /\ \A i \in 0..1 : y.sf.map[i] = NoId
<1> DEFINE d == discard(complete(x))
           z == IF d.sf.self # NoId THEN VRAMFree(d, d.sf.self) ELSE d
<1>1. IsCall(d)
  BY CompleteStill, StillIsCall, DiscardGives
<1>2. IsCall(z)
  BY <1>1, PoolsSame, SameIsCall
<1>3. y = [z EXCEPT !.sf.self = NoId, !.sf.map = [i \in 0..1 |-> NoId], !.vtb = NewTransferBuffer(@.tag)]
  BY DEF releaseBacking
<1> HIDE DEF z
<1>4. /\ y.sf = [z.sf EXCEPT !.self = NoId, !.map = [i \in 0..1 |-> NoId]]
      /\ y.vtb = NewTransferBuffer(z.vtb.tag) /\ DOMAIN y = DOMAIN z
  BY <1>2, <1>3 DEF IsCall
<1>5. DOMAIN y.vtb = BufferFields /\ y.vtb.md = NoId
  BY <1>4 DEF BufferFields, NewTransferBuffer
<1>6. DOMAIN y.sf = SurfaceFields /\ y.sf.self = NoId /\ y.sf.map = [i \in 0..1 |-> NoId]
  BY <1>2, <1>4 DEF IsCall, SurfaceFields
<1> QED
  BY <1>2, <1>4, <1>5, <1>6 DEF IsCall

LEMMA PrepareStill == ASSUME NEW x, IsCall(x) PROVE \A r \in prepare(x) : Still(x, r.x)
<1> SUFFICES ASSUME NEW r \in prepare(x) PROVE Still(x, r.x)
  OBVIOUS
<1>1. CASE r.x = x \/ r.x = [x EXCEPT !.vtb.gmr = NoId]
  <2>1. Still(x, x) /\ Still(x, [x EXCEPT !.vtb.gmr = NoId])
    BY FieldsStill, Zenon
  <2> QED
    BY <1>1, <2>1
<1>2. CASE ~(r.x = x \/ r.x = [x EXCEPT !.vtb.gmr = NoId])
  <2>1. PICK a \in AllocGMRID(x) : \E c \in createGMR(a.x, a.id, x.vtb.md) :
          r.x \in {[c.x EXCEPT !.vtb.gmr = a.id], [FreeGMRID(c.x, a.id) EXCEPT !.vtb.gmr = NoId]}
    BY <1>2 DEF prepare
  <2> PICK c \in createGMR(a.x, a.id, x.vtb.md) :
          r.x \in {[c.x EXCEPT !.vtb.gmr = a.id], [FreeGMRID(c.x, a.id) EXCEPT !.vtb.gmr = NoId]}
    BY <2>1
  <2>2. Still(x, a.x) /\ IsCall(a.x)
    BY PoolsSame, SameStill
  <2>3. Still(x, c.x) /\ IsCall(c.x)
    BY <2>2, PoolsSame, SameStill, StillTrans
  <2>4. Still(x, FreeGMRID(c.x, a.id)) /\ IsCall(FreeGMRID(c.x, a.id))
    BY <2>3, PoolsSame, SameStill, StillTrans
  <2>5. Still(x, [c.x EXCEPT !.vtb.gmr = a.id]) /\ Still(x, [FreeGMRID(c.x, a.id) EXCEPT !.vtb.gmr = NoId])
    BY <2>3, <2>4, FieldsStill, StillTrans, Zenon
  <2> QED
    BY <2>1, <2>5
<1> QED
  BY <1>1, <1>2

\* A surface that has no map keeps that while it is given a descriptor, or not.
LEMMA DescribeCurrent ==
  ASSUME NEW x, Unmapped(x), NEW gart, NEW r \in Describe(x, gart)
  PROVE  Current(r.x)
<1>1. \A y : Unmapped(y) => Current(y)
  BY DEF Unmapped, Current
<1>2. CASE r.x = x
  BY <1>1, <1>2
<1>3. CASE r.x # x
  <2> DEFINE With(md) == [x EXCEPT !.acc.wired = @ \cup {md}, !.vtb.md = md]
             Made(p) == [p.x EXCEPT !.vtb.gart = gart, !.vtb.fence = FALSE]
             Out(p) == IF p.ok THEN [ok |-> TRUE, x |-> Made(p)] ELSE [ok |-> FALSE, x |-> discard(p.x)]
  <2>1. Describe(x, gart) = {[ok |-> FALSE, x |-> x]}
                            \cup UNION {{Out(p) : p \in prepare(With(md))} : md \in Wired \ x.acc.wired}
    BY Zenon DEF Describe
  <2>2. \A md : Unmapped(With(md))
    BY DEF Unmapped, IsCall, BufferFields
  <2> HIDE DEF With, Made
  <2>3. PICK md \in Wired : \E p \in prepare(With(md)) : r = Out(p)
    <3> HIDE DEF Out
    <3> QED
      BY <1>3, <2>1
  <2>4. PICK p \in prepare(With(md)) : r = Out(p)
    BY <2>3
  <2>5. r.x \in {Made(p), discard(p.x)}
    BY <2>4
  <2>6. Unmapped(p.x) /\ IsCall(p.x)
    BY <2>2, <2>4, PrepareStill, StillCurrent DEF Unmapped
  <2>7. Still(p.x, Made(p))
    BY <2>6, FieldsStill, Zenon DEF Made
  <2>8. Unmapped(Made(p))
    BY <2>6, <2>7, StillCurrent
  <2>9. Unmapped(discard(p.x))
    BY <2>6, DiscardGives DEF Unmapped
  <2> QED
    BY <1>1, <2>5, <2>8, <2>9
<1> QED
  BY <1>2, <1>3

\* Without a backing there is no map of one.
LEMMA NoneUnmapped ==
  ASSUME NEW x, Current(x), classifyBacking(x) = "none" PROVE Unmapped(x)
BY DEF Current, Unmapped, Backing, classifyBacking

LEMMA ReleasedUnmapped == ASSUME NEW x, IsCall(x) PROVE Unmapped(releaseBacking(x))
BY ReleaseBackingGives DEF Unmapped

LEMMA WrapCurrent ==
  ASSUME NEW x, Current(x), NEW r \in wrapClientBacking(x) PROVE Current(r.x)
<1> DEFINE y == IF classifyBacking(x) = "none" THEN x ELSE releaseBacking(x)
           z == [y EXCEPT !.sf.fit = "fits"]
<1>1. IsCall(x)
  BY DEF Current
<1>2. Unmapped(y)
  BY <1>1, NoneUnmapped, ReleasedUnmapped
<1>3. r = [ok |-> TRUE, x |-> x] \/ r \in Describe(z, 1)
  BY DEF wrapClientBacking
<1> HIDE DEF y
<1>4. Unmapped(z)
  <2>1. Still(y, z)
    BY <1>2, FieldsStill, Zenon DEF Unmapped
  <2> QED
    BY <1>2, <2>1, StillCurrent
<1> HIDE DEF z
<1> QED
  BY <1>3, <1>4, DescribeCurrent

\* VRAMRealloc has moved a surface whose maps are gone.
LEMMA ReallocCurrent ==
  ASSUME NEW y, Unmapped(y), NEW r \in VRAMRealloc(y, y.sf.self), NEW z,
         z = [r.x EXCEPT !.sf.self = r.ptr, !.sf.fit = "fits"],
         NEW p, p \in allocGMRBacking(z) \/ p = [ok |-> TRUE, x |-> [z EXCEPT !.vtb.gmr = VRAM, !.vtb.fence = FALSE]]
  PROVE  Current(p.x)
<1>1. Unmapped(r.x)
  <2>1. Still(y, r.x)
    BY PoolsSame, SameStill DEF Unmapped
  <2> QED
    BY <2>1, StillCurrent
<1>2. Unmapped(z)
  BY <1>1 DEF Unmapped, IsCall, SurfaceFields
<1>3. Unmapped([z EXCEPT !.vtb.gmr = VRAM, !.vtb.fence = FALSE])
  <2>1. Still(z, [z EXCEPT !.vtb.gmr = VRAM, !.vtb.fence = FALSE])
    BY <1>2, FieldsStill, Zenon DEF Unmapped
  <2> QED
    BY <1>2, <2>1, StillCurrent
<1>4. \A w : Unmapped(w) => Current(w)
  BY DEF Unmapped, Current
<1> QED
  BY <1>2, <1>3, <1>4, DescribeCurrent DEF allocGMRBacking

LEMMA UnmapGives ==
  ASSUME NEW x, IsCall(x), NEW i \in 0..1, NEW y, y = releaseBackingMap(x, i)
  PROVE  /\ IsCall(y) /\ y.sf.self = x.sf.self /\ y.vtb = x.vtb /\ y.sf.map[i] = NoId
         /\ \A k \in 0..1 \ {i} : y.sf.map[k] = x.sf.map[k]
BY DEF releaseBackingMap, IsCall, SurfaceFields

LEMMA AllocCurrent ==
  ASSUME NEW x, Current(x), NEW p \in allocBacking(x) PROVE Current(p.x)
<1> DEFINE a == releaseBackingMap(releaseBackingMap(x, 0), 1)
           y == CASE classifyBacking(x) = "kernel" -> discard(complete(a))
                  [] classifyBacking(x) = "client" -> releaseBacking(x)
                  [] OTHER -> x
           Z(r) == [r.x EXCEPT !.sf.self = r.ptr, !.sf.fit = "fits"]
           Plain(r) == [ok |-> TRUE, x |-> [Z(r) EXCEPT !.vtb.gmr = VRAM, !.vtb.fence = FALSE]]
           Out(r) == IF r.ptr = NoId THEN allocGMRBacking(Z(r)) ELSE {Plain(r)}
<1>1. IsCall(x)
  BY DEF Current
<1>2. classifyBacking(x) \in {"kernel", "none", "client"}
  BY DEF classifyBacking
<1>3. Unmapped(y)
  <2>1. Unmapped(a)
    <3> DEFINE b == releaseBackingMap(x, 0)
    <3>1. IsCall(b) /\ b.sf.map[0] = NoId
      BY <1>1, UnmapGives
    <3> HIDE DEF b
    <3>2. IsCall(a) /\ a.sf.map[0] = NoId /\ a.sf.map[1] = NoId
      BY <3>1, UnmapGives, 0 \in 0..1 \ {1}, 1 \in 0..1 DEF b
    <3> QED
      BY <3>2 DEF Unmapped
  <2>2. Unmapped(complete(a))
    BY <2>1, CompleteStill, StillCurrent DEF Unmapped
  <2>3. Unmapped(discard(complete(a)))
    BY <2>2, DiscardGives DEF Unmapped
  <2> HIDE DEF a
  <2> QED
    BY <1>1, <1>2, <2>3, NoneUnmapped, ReleasedUnmapped
<1>4. allocBacking(x) =
        IF x.sf.client THEN wrapClientBacking(x)
        ELSE IF classifyBacking(x) = "kernel" /\ ~hasSourceGrown(x) THEN {[ok |-> TRUE, x |-> x]}
        ELSE UNION {Out(r) : r \in VRAMRealloc(y, y.sf.self)}
  BY Zenon DEF allocBacking
<1> HIDE DEF y, Out
<1>5. CASE p \in wrapClientBacking(x) \/ p = [ok |-> TRUE, x |-> x]
  BY <1>5, WrapCurrent
<1>6. CASE \E r \in VRAMRealloc(y, y.sf.self) : p \in Out(r)
  <2>1. PICK r \in VRAMRealloc(y, y.sf.self) : p \in Out(r)
    BY <1>6
  <2>2. p \in allocGMRBacking(Z(r)) \/ p = Plain(r)
    BY <2>1 DEF Out
  <2> QED
    BY <1>3, <2>1, <2>2, ReallocCurrent
<1> QED
  BY <1>4, <1>5, <1>6

LEMMA MapCurrent ==
  ASSUME NEW x, Current(x), NEW i \in 0..1, NEW r \in mapBacking(x, i) PROVE Current(r.x)
<1> DEFINE y == [x EXCEPT !.sf.map[i] = IF x.sf.self # NoId THEN x.sf.self ELSE x.vtb.md]
<1>1. Current(y)
  BY DEF Current, Backing, IsCall, SurfaceFields
<1>2. r \in {[ok |-> TRUE, x |-> x], [ok |-> FALSE, x |-> x], [ok |-> TRUE, x |-> y]}
  BY DEF mapBacking
<1> HIDE DEF y
<1> QED
  BY <1>1, <1>2

LEMMA AllocAndMapCurrent ==
  ASSUME NEW x, Current(x), NEW i \in 0..1, NEW r \in AllocAndMap(x, i) PROVE Current(r.x)
<1>1. PICK p \in allocBacking(x) : r \in IF p.ok THEN mapBacking(p.x, i) ELSE {p}
  BY DEF AllocAndMap
<1>2. Current(p.x)
  BY <1>1, AllocCurrent
<1> QED
  BY <1>1, <1>2, MapCurrent

-----------------------------------------------------------------------------
(* Front buffers, presents and overlays leave the backing alone.           *)

LEMMA BlitBugStill == ASSUME NEW x, IsCall(x), NEW z \in detectBlitBug(x) PROVE Still(x, z)
<1> DEFINE y == createSurface(x, BlitBugSurface)
           Tested(m, v) ==
             IF m.ptr = NoId THEN [destroySurface(m.x, BlitBugSurface) EXCEPT !.acc.blitbug = "bug"]
             ELSE LET ref == [gmr |-> VRAM, mem |-> m.ptr, owner |-> NoId]
                      dma == <<BeginSurfaceDMA(BlitBugSurface, ref, NoId)>>
                  IN  [destroySurface(VRAMFree(SyncFIFO(Queue(m.x, dma \o dma)), m.ptr),
                                      BlitBugSurface) EXCEPT !.acc.blitbug = v]
<1>1. Still(x, y) /\ IsCall(y)
  BY QueueSame, SameStill DEF createSurface
<1>2. detectBlitBug(x) = {Tested(m, v) : m \in VRAMMalloc(y), v \in {"none", "bug"}}
  BY SMTT(30) DEF detectBlitBug
<1> HIDE DEF y, Tested
<1>3. PICK m \in VRAMMalloc(y), v \in {"none", "bug"} : z = Tested(m, v)
  BY <1>2
<1>4. Still(x, m.x) /\ IsCall(m.x)
  BY <1>1, PoolsSame, SameStill, StillTrans
<1>5. ASSUME NEW w, Still(x, w), NEW u
      PROVE  Still(x, [destroySurface(w, BlitBugSurface) EXCEPT !.acc.blitbug = u])
  <2>1. IsCall(w)
    BY <1>5, StillIsCall
  <2>2. Still(x, destroySurface(w, BlitBugSurface)) /\ IsCall(destroySurface(w, BlitBugSurface))
    BY <1>5, <2>1, QueueSame, SameStill, StillTrans DEF destroySurface
  <2> QED
    BY <2>2, FieldsStill, StillTrans, Zenon
<1>6. ASSUME NEW cmds
      PROVE  Still(x, VRAMFree(SyncFIFO(Queue(m.x, cmds)), m.ptr))
  <2>1. Still(x, Queue(m.x, cmds)) /\ IsCall(Queue(m.x, cmds))
    BY <1>4, QueueSame, SameStill, StillTrans
  <2>2. Still(x, SyncFIFO(Queue(m.x, cmds))) /\ IsCall(SyncFIFO(Queue(m.x, cmds)))
    BY <2>1, SyncSame, SameStill, StillTrans
  <2> QED
    BY <2>2, PoolsSame, SameStill, StillTrans
<1> QED
  BY <1>3, <1>4, <1>5, <1>6 DEF Tested

\* Whatever is done with the accelerator, and with the fields that say nothing
\* of the backing, leaves the backing as it was.
LEMMA AccelStill ==
  ASSUME NEW x, NEW y, Still(x, y)
  PROVE  /\ IsCall(y)
         /\ \A cmds : Still(x, Queue(y, cmds))
         /\ \A f : Still(x, SyncToFence(y, f))
         /\ \A v : Still(x, FreeStreamID(y, v))
         /\ Still(x, retainMasterSurface(y)) /\ Still(x, releaseMasterSurface(y))
         /\ Still(x, createPrimaryScreen(y)) /\ Still(x, sync(y))
<1>1. IsCall(y)
  BY StillIsCall
<1>2. \A z : Same(y, z) => Still(x, z)
  BY <1>1, SameStill, StillTrans
<1> QED
  BY <1>1, <1>2, QueueSame, SyncSame, PoolsSame, MasterSame, SyncStill, StillTrans

LEMMA SetStill ==
  ASSUME NEW x, NEW y, Still(x, y)
  PROVE  /\ \A v : /\ Still(x, [y EXCEPT !.sf.state = v]) /\ Still(x, [y EXCEPT !.sf.wid = v])
                   /\ Still(x, [y EXCEPT !.sf.fit = v]) /\ Still(x, [y EXCEPT !.sf.region = v])
                   /\ Still(x, [y EXCEPT !.sf.lock = v]) /\ Still(x, [y EXCEPT !.sf.skip = v])
                   /\ Still(x, [y EXCEPT !.sf.master = v]) /\ Still(x, [y EXCEPT !.sf.screen = v])
                   /\ Still(x, [y EXCEPT !.sf.direct = v]) /\ Still(x, [y EXCEPT !.sf.video = v])
                   /\ Still(x, [y EXCEPT !.sf.client = v]) /\ Still(x, [y EXCEPT !.sf.stream = v])
                   /\ Still(x, [y EXCEPT !.vtb.gart = v]) /\ Still(x, [y EXCEPT !.vtb.fence = v])
         /\ \A v, w : /\ Still(x, [y EXCEPT !.sf.master = v, !.sf.screen = w])
                      /\ Still(x, [y EXCEPT !.sf.enabled = v, !.sf.stream = w])
                      /\ Still(x, [y EXCEPT !.sf.stream = v, !.sf.enabled = w])
                      /\ Still(x, [y EXCEPT !.sf.region = v, !.sf.client = w])
                      /\ Still(x, [y EXCEPT !.sf.fit = v, !.sf.offset = w])
BY StillIsCall, FieldsStill, StillTrans, ZenonT(60)

LEMMA Start3DStill == ASSUME NEW x, IsCall(x), NEW z \in Start3D(x) PROVE Still(x, z)
<1> DEFINE y == [x EXCEPT !.sf.screen = hw.screen]
           w == [retainMasterSurface(y) EXCEPT !.sf.master = TRUE]
           known == IF w.acc.blitbug = "unknown" THEN detectBlitBug(w) ELSE {w}
           Judged(k) == [k EXCEPT !.sf.direct = k.acc.blitbug = "none"]
<1>1. Still(x, y)
  BY FieldsStill, Zenon
<1>2. Start3D(x) = IF hw.screen \/ ~hw.d3 THEN {y}
                   ELSE IF "direct_blit" \in hw.opts THEN {[w EXCEPT !.sf.direct = TRUE]}
                   ELSE {Judged(k) : k \in known}
  BY SMT DEF Start3D
<1> HIDE DEF y
<1>3. Still(x, w) /\ IsCall(w)
  BY <1>1, AccelStill, SetStill, StillIsCall, Zenon
<1> HIDE DEF w
<1>4. \A k \in known : Still(x, k)
  BY <1>3, BlitBugStill, StillTrans
<1> HIDE DEF known
<1>5. Still(x, [w EXCEPT !.sf.direct = TRUE])
  BY <1>3, SetStill, Zenon
<1>6. \A k \in known : Still(x, Judged(k))
  BY <1>4, SetStill, Zenon
<1> HIDE DEF Judged
<1> QED
  BY <1>1, <1>2, <1>5, <1>6

LEMMA Cleanup3DStill == ASSUME NEW x, IsCall(x) PROVE Still(x, Cleanup3D(x))
<1> DEFINE y == IF x.sf.master THEN releaseMasterSurface(x) ELSE x
<1>1. Still(x, x)
  BY FieldsStill, Zenon
<1>2. Still(x, y)
  BY <1>1, AccelStill, Zenon
<1>3. Cleanup3D(x) \in {x, [y EXCEPT !.sf.master = FALSE, !.sf.screen = FALSE]}
  BY DEF Cleanup3D
<1> HIDE DEF y
<1>4. Still(x, [y EXCEPT !.sf.master = FALSE, !.sf.screen = FALSE])
  BY <1>2, SetStill, Zenon
<1> QED
  BY <1>1, <1>3, <1>4

LEMMA PresentStill == ASSUME NEW x, NEW y, Still(x, y) PROVE Still(x, doPresent(y))
<1>1. \A z : Still(x, z) => Still(x, after(z))
  <2> SUFFICES ASSUME NEW z, Still(x, z) PROVE Still(x, after(z))
    OBVIOUS
  <2>1. IsCall(z) /\ Same(z, after(z))
    BY StillIsCall DEF Same, IsCall, after
  <2> QED
    BY <2>1, SameStill, StillTrans
<1> QED
  BY <1>1, AccelStill, Zenon DEF doPresent, surfacePresentAutoSync

LEMMA UploadStill ==
  ASSUME NEW x, IsCall(x)
  PROVE  \A aux : Still(x, Upload(x, aux))
BY FieldsStill, AccelStill, SetStill, Zenon DEF Upload, surfaceDMA2D, createSurface

LEMMA OutStill ==
  ASSUME NEW x, IsCall(x)
  PROVE  /\ Still(x, DMAOutDirect(x)) /\ Still(x, DMAOutWithCopy(x)) /\ Still(x, DMAOutStretchWithCopy(x))
         /\ Still(x, ScreenObjectOutDirect(x)) /\ Still(x, ScreenObjectOutVia3D(x))
         /\ Still(x, GFBOutDirect(x))
<1>1. Still(x, x)
  BY FieldsStill, Zenon
<1>2. Still(x, DMAOutDirect(x)) /\ Still(x, ScreenObjectOutDirect(x))
  BY <1>1, AccelStill, SetStill, Zenon DEF DMAOutDirect, ScreenObjectOutDirect, surfaceDMA2D, blitToScreen
<1>3. Still(x, DMAOutWithCopy(x)) /\ Still(x, ScreenObjectOutVia3D(x))
  BY UploadStill, AccelStill, Zenon
  DEF DMAOutWithCopy, ScreenObjectOutVia3D, destroySurface, surfaceCopy, blitSurfaceToScreen
<1>4. Still(x, DMAOutStretchWithCopy(x))
  BY UploadStill, AccelStill, Zenon
  DEF DMAOutStretchWithCopy, destroySurface, surfaceCopy, surfaceStretch, createSurface
<1>5. Still(x, GFBOutDirect(x))
  BY <1>1, AccelStill, Zenon DEF GFBOutDirect, UpdateFramebufferAutoRing
<1> QED
  BY <1>2, <1>3, <1>4, <1>5

LEMMA VideoStill ==
  ASSUME NEW x, NEW y, Still(x, y)
  PROVE  /\ Still(x, videoReshape(y)) /\ Still(x, surface_video_off(y))
         /\ \A z \in surface_flush_video(y) : Still(x, z)
<1>1. Still(x, videoReshape(y))
  BY AccelStill, SetStill, Zenon DEF videoReshape, VideoSetRegsInRange
<1>2. Still(x, surface_video_off(y))
  BY AccelStill, SetStill, Zenon DEF surface_video_off, VideoSetReg
<1>3. ASSUME NEW z \in surface_flush_video(y) PROVE Still(x, z)
  <2> DEFINE On(v, i) == [VideoSetRegsInRange(v, i, y.vtb.tag) EXCEPT !.vtb.fence = TRUE]
             Lit(a) == [a.x EXCEPT !.sf.stream = a.id, !.sf.enabled = TRUE]
  <2>1. surface_flush_video(y) =
          IF y.sf.wid = NoId \/ ~y.sf.region \/ ~isBackingValid(y) \/ ~y.sf.video THEN {y}
          ELSE IF y.sf.enabled THEN {On(y, y.sf.stream)}
          ELSE IF AllocStreamID(y) = {} THEN {[y EXCEPT !.sf.stream = NoId]}
          ELSE {On(Lit(a), a.id) : a \in AllocStreamID(y)}
    BY Zenon DEF surface_flush_video
  <2>2. \A v, i : Still(x, v) => Still(x, On(v, i))
    BY AccelStill, SetStill, Zenon DEF VideoSetRegsInRange
  <2>3. \A a \in AllocStreamID(y) : Still(x, Lit(a))
    BY AccelStill, PoolsSame, SameStill, StillTrans, SetStill, Zenon
  <2>4. Still(x, [y EXCEPT !.sf.stream = NoId])
    BY SetStill, Zenon
  <2> HIDE DEF On, Lit
  <2>5. CASE z \in {y, On(y, y.sf.stream), [y EXCEPT !.sf.stream = NoId]}
    BY <2>2, <2>4, <2>5
  <2>6. CASE z \in {On(Lit(a), a.id) : a \in AllocStreamID(y)}
    BY <2>2, <2>3, <2>6
  <2> QED
    BY <2>1, <2>5, <2>6
<1> QED
  BY <1>1, <1>2, <1>3

-----------------------------------------------------------------------------
(* The methods, one lemma each where one is more than a few fields.        *)

LEMMA CurrentGoesOn ==
  ASSUME NEW x, Current(x), NEW y, Still(x, y) PROVE Current(y) /\ IsCall(x) /\ IsCall(y)
BY StillCurrent, StillIsCall DEF Current

LEMMA LockStill ==
  ASSUME NEW x, NEW y, Still(x, y), NEW bit PROVE Still(x, Lock(y, bit)) /\ Still(x, Unlock(y, bit))
BY SetStill, Zenon DEF Lock, Unlock

LEMMA LockCurrent ==
  ASSUME NEW x, Current(x), NEW bit PROVE Current(Lock(x, bit)) /\ Current(Unlock(x, bit))
<1>1. Still(x, x)
  BY FieldsStill, Zenon DEF Current
<1> QED
  BY <1>1, LockStill, CurrentGoesOn

LEMMA ShapeStill ==
  ASSUME NEW x, IsCall(x), NEW client, NEW fit, NEW offset, NEW gart, NEW skip
  PROVE  Still(x, [x EXCEPT !.sf.client = client, !.sf.region = TRUE, !.sf.fit = fit, !.sf.offset = offset,
                            !.vtb.gart = gart, !.sf.skip = skip])
BY DEF Still, IsCall, SurfaceFields, BufferFields

LEMMA CleanupCurrent == ASSUME NEW x, IsCall(x) PROVE Current([Cleanup(x) EXCEPT !.sf.state = "closed"])
<1> DEFINE y == releaseBacking(surface_video_off(Cleanup3D(x)))
           z == [y EXCEPT !.sf.region = FALSE]
<1>1. IsCall(surface_video_off(Cleanup3D(x)))
  BY Cleanup3DStill, VideoStill, StillIsCall
<1>2. Current(y)
  BY <1>1, ReleasedUnmapped DEF Unmapped, Current
<1> HIDE DEF y
<1>3. Current(z)
  <2>1. Still(y, y)
    BY <1>2, FieldsStill, Zenon DEF Current
  <2>2. Still(y, z)
    BY <2>1, SetStill, Zenon
  <2> QED
    BY <1>2, <2>2, CurrentGoesOn
<1>4. Cleanup(x) = z
  BY DEF Cleanup, y
<1> HIDE DEF z
<1>5. Still(z, [z EXCEPT !.sf.state = "closed"])
  BY <1>3, FieldsStill, Zenon DEF Current
<1> QED
  BY <1>3, <1>4, <1>5, CurrentGoesOn

LEMMA SetSurfaceStill ==
  ASSUME NEW x, IsCall(x), NEW yuv, NEW z \in context_set_surface(x, yuv)
  PROVE  Still(x, z)
<1>1. Still(x, x)
  BY FieldsStill, Zenon
<1>2. CASE ~yuv
  <2> DEFINE y == [surface_video_off(x) EXCEPT !.sf.video = FALSE]
  <2>1. Still(x, y) /\ IsCall(y)
    BY <1>1, VideoStill, SetStill, StillIsCall, Zenon
  <2>2. z = y \/ z \in Start3D(y)
    BY <1>2 DEF context_set_surface
  <2> HIDE DEF y
  <2> QED
    BY <2>1, <2>2, Start3DStill, StillTrans
<1>3. CASE yuv
  <2> DEFINE lost == x.acc.lost \cup (IF x.sf.enabled THEN {x.sf.stream} ELSE {})
             y == [x EXCEPT !.sf.video = TRUE, !.sf.enabled = FALSE, !.acc.lost = lost]
  <2>1. \A u : Still(x, [x EXCEPT !.sf.video = TRUE, !.sf.enabled = FALSE, !.acc.lost = u])
    BY DEF Still, IsCall, SurfaceFields
  <2>2. Still(x, y)
    BY <2>1
  <2>3. z \in {x, Cleanup3D(y)}
    BY <1>3 DEF context_set_surface
  <2> HIDE DEF y
  <2> QED
    BY <1>1, <2>2, <2>3, Cleanup3DStill, StillTrans, StillIsCall
<1> QED
  BY <1>2, <1>3

LEMMA LockMemoryCurrent ==
  ASSUME NEW x, Current(x), NEW z \in context_lock_memory(x) PROVE Current(z)
<1>1. CASE z = x
  BY <1>1
<1>2. CASE z # x
  <2>1. PICK r \in AllocAndMap(Lock(x, "context"), 1) :
          z \in {Unlock(r.x, "context"), r.x} \cup setup_trick_buffer(r.x)
    BY <1>2 DEF context_lock_memory
  <2>2. Current(r.x)
    BY <2>1, LockCurrent, AllocAndMapCurrent
  <2>3. \A t \in setup_trick_buffer(r.x) : Current(t)
    <3> DEFINE y == r.x
    <3>1. \A m \in {"trick", NoId} : Current([y EXCEPT !.sf.map[0] = m])
      BY <2>2 DEF Current, IsCall, SurfaceFields, Backing
    <3> QED
      BY <2>2, <3>1 DEF setup_trick_buffer
  <2> QED
    BY <2>1, <2>2, <2>3, LockCurrent
<1> QED
  BY <1>1, <1>2

LEMMA UnlockMemoryCurrent == ASSUME NEW x, Current(x) PROVE Current(context_unlock_memory(x))
<1> DEFINE y == Unlock(x, "context")
<1>1. Current(y)
  BY LockCurrent
<1> HIDE DEF y
<1>2. Current(releaseBackingMap(y, 1))
  BY <1>1 DEF releaseBackingMap, Current, IsCall, SurfaceFields, Backing
<1> QED
  BY <1>2 DEF context_unlock_memory, y

LEMMA CopyCurrent ==
  ASSUME NEW x, Current(x)
  PROVE  /\ \A z \in copy_framebuffer_region_to_self(x) : Current(z)
         /\ \A source, b : \A z \in copy_surface_region_to_self(x, source, b) : Current(z)
<1>1. \A r \in allocBacking(x) : Current(r.x)
  BY AllocCurrent
<1>2. ASSUME NEW z \in copy_framebuffer_region_to_self(x) PROVE Current(z)
  <2> DEFINE Shot(y) == sync([blitFromScreen(y, Ref(y), y.vtb.tag) EXCEPT !.vtb.fence = TRUE])
  <2>1. ASSUME NEW y, Current(y) PROVE Current(Shot(y)) /\ Current(sync(DMAOutDirect(y)))
    <3>1. Still(y, y)
      BY <2>1, FieldsStill, Zenon DEF Current
    <3>2. Still(y, Shot(y))
      BY <3>1, AccelStill, SetStill, Zenon DEF blitFromScreen
    <3>3. Still(y, sync(DMAOutDirect(y)))
      BY <3>1, OutStill, AccelStill, Zenon DEF Current
    <3> QED
      BY <2>1, <3>2, <3>3, CurrentGoesOn
  <2>2. z = x \/ \E r \in allocBacking(x) : z \in {r.x, Shot(r.x), sync(DMAOutDirect(r.x))}
    BY DEF copy_framebuffer_region_to_self
  <2> HIDE DEF Shot
  <2> QED
    BY <1>1, <2>1, <2>2
<1>3. ASSUME NEW source, NEW b, NEW z \in copy_surface_region_to_self(x, source, b) PROVE Current(z)
  BY <1>1, <1>3 DEF copy_surface_region_to_self
<1> QED
  BY <1>2, <1>3

-----------------------------------------------------------------------------
(* The invariant, and its preservation by the end of a call.               *)

\* A surface f with its transfer buffer b: each map is none, the block a video
\* shows instead, or the backing of this moment.
Shows(f, b) ==
  /\ DOMAIN f = SurfaceFields /\ DOMAIN b = BufferFields /\ DOMAIN f.map = 0..1
  /\ \A i \in 0..1 : f.map[i] \in {NoId, "trick", IF f.self # NoId THEN f.self ELSE b.md}

MapsInv ==
  /\ DOMAIN sf = Surfaces /\ DOMAIN vtb = Surfaces
  /\ \A s \in Surfaces : Shows(sf[s], vtb[s])

LEMMA CallCurrent ==
  ASSUME MapsInv, NEW s \in Surfaces
  PROVE  Current(Call(s)) /\ IsCall(Call(s)) /\ Still(Call(s), Call(s))
<1>1. Current(Call(s)) /\ IsCall(Call(s))
  BY DEF MapsInv, Shows, Current, IsCall, Call, Backing
<1> QED
  BY <1>1, FieldsStill, Zenon

LEMMA ReturnKeeps ==
  ASSUME MapsInv, NEW s, NEW x, s \in Surfaces => Current(x), Return(s, x)
  PROVE  MapsInv'
<1>1. sf' = [sf EXCEPT ![s] = x.sf] /\ vtb' = [vtb EXCEPT ![s] = x.vtb]
  BY DEF Return
<1>2. s \in Surfaces => Shows(x.sf, x.vtb)
  BY DEF Current, IsCall, Backing, Shows
<1> QED
  BY <1>1, <1>2 DEF MapsInv

\* A call that leaves the backing as it was.
LEMMA StillKeeps ==
  ASSUME MapsInv, NEW s, NEW x, s \in Surfaces => Still(Call(s), x), Return(s, x)
  PROVE  MapsInv'
<1>1. s \in Surfaces => Current(x)
  BY CallCurrent, CurrentGoesOn
<1> QED
  BY <1>1, ReturnKeeps

LEMMA OpenKeeps == ASSUME MapsInv, NEW s \in Surfaces, Open(s) PROVE MapsInv'
<1> DEFINE x == [Call(s) EXCEPT !.sf = [NewSurface EXCEPT !.state = "open"]]
<1>1. PICK z \in Start3D(x) : Return(s, z)
  BY DEF Open
<1>2. Current(x)
  <2>1. x.sf = [NewSurface EXCEPT !.state = "open"] /\ x.vtb = vtb[s] /\ DOMAIN x = DOMAIN Call(s)
    BY DEF Call
  <2>2. DOMAIN x.sf = SurfaceFields /\ x.sf.map = [i \in 0..1 |-> NoId]
    BY <2>1 DEF NewSurface, SurfaceFields
  <2> HIDE DEF x
  <2> QED
    BY <2>1, <2>2, CallCurrent DEF Current, IsCall, Call
<1> HIDE DEF x
<1>3. Current(z)
  BY <1>2, Start3DStill, CurrentGoesOn DEF Current
<1> QED
  BY <1>1, <1>3, ReturnKeeps

LEMMA ShapeKeeps ==
  ASSUME MapsInv, NEW s \in Surfaces, NEW client, NEW fit, NEW offset, NEW grab,
         set_shape_backing_length_ext(s, client, fit, offset, grab)
  PROVE  MapsInv'
<1> DEFINE x == [Call(s) EXCEPT !.sf.region = FALSE, !.sf.client = FALSE]
           gart == IF client /\ x.vtb.gart # 0 THEN 2 ELSE x.vtb.gart
           skip == (sf[s].wid = "desktop" /\ grab) \/ x.sf.skip
           y == [x EXCEPT !.sf.client = client, !.sf.region = TRUE, !.sf.fit = fit, !.sf.offset = offset,
                          !.vtb.gart = gart, !.sf.skip = skip]
<1>1. \/ Return(s, x)
      \/ Return(s, [x EXCEPT !.vtb.gart = y.vtb.gart])
      \/ Return(s, videoReshape(y))
  BY Zenon DEF set_shape_backing_length_ext
<1>2. Still(Call(s), x) /\ IsCall(x)
  BY CallCurrent, SetStill, StillIsCall, Zenon
<1> HIDE DEF x, gart, skip
<1>3. Still(Call(s), y)
  BY <1>2, ShapeStill, StillTrans
<1> HIDE DEF y
<1>4. Still(Call(s), videoReshape(y))
  BY <1>3, VideoStill
<1>5. Still(Call(s), [x EXCEPT !.vtb.gart = y.vtb.gart])
  BY <1>2, SetStill, Zenon
<1> QED
  BY <1>1, <1>2, <1>4, <1>5, StillKeeps

LEMMA ReadLockKeeps ==
  ASSUME MapsInv, NEW s \in Surfaces, surface_read_lock(s) PROVE MapsInv'
<1> DEFINE x == Lock(Call(s), "read")
<1>1. PICK r \in {[ok |-> TRUE, x |-> x]} \cup AllocAndMap(x, 0) :
        Return(s, IF r.ok THEN r.x ELSE Unlock(r.x, "read"))
  BY Zenon DEF surface_read_lock
<1>2. Current(x)
  BY CallCurrent, LockCurrent
<1> HIDE DEF x
<1>3. Current(r.x)
  BY <1>1, <1>2, AllocAndMapCurrent
<1>4. Current(IF r.ok THEN r.x ELSE Unlock(r.x, "read"))
  BY <1>3, LockCurrent
<1> QED
  BY <1>1, <1>4, ReturnKeeps

LEMMA WriteLockKeeps ==
  ASSUME MapsInv, NEW s \in Surfaces, surface_write_lock(s) PROVE MapsInv'
<1> DEFINE x == IF sf[s].skip THEN [Call(s) EXCEPT !.sf.skip = FALSE] ELSE Lock(Call(s), "write")
           Out(r) == IF ~r.ok THEN Unlock(r.x, "write") ELSE IF sf[s].offset THEN r.x ELSE sync(r.x)
<1>1. PICK r \in {[ok |-> TRUE, x |-> x]} \cup AllocAndMap(x, 0) : Return(s, Out(r))
  BY Zenon DEF surface_write_lock
<1>2. Current(x)
  <2>1. Still(Call(s), [Call(s) EXCEPT !.sf.skip = FALSE])
    BY CallCurrent, SetStill, Zenon
  <2> QED
    BY <2>1, CallCurrent, LockCurrent, CurrentGoesOn
<1> HIDE DEF x
<1>3. Current(r.x)
  BY <1>1, <1>2, AllocAndMapCurrent
<1>4. Current(Out(r))
  <2>1. Still(r.x, sync(r.x))
    BY <1>3, SyncStill DEF Current
  <2> QED
    BY <1>3, <2>1, LockCurrent, CurrentGoesOn
<1> QED
  BY <1>1, <1>4, ReturnKeeps

LEMMA FlushKeeps ==
  ASSUME MapsInv, NEW s \in Surfaces, NEW plain, NEW ident, surface_flush(s, plain, ident)
  PROVE  MapsInv'
<1> DEFINE x == Call(s)
<1>1. \E z : /\ Return(s, z)
             /\ z \in {x, ScreenObjectOutDirect(x), ScreenObjectOutVia3D(x), GFBOutDirect(x),
                       doPresent(DMAOutStretchWithCopy(x)), doPresent(DMAOutDirect(x)),
                       doPresent(DMAOutWithCopy(x))}
  BY DEF surface_flush
<1>2. Still(x, x) /\ IsCall(x)
  BY CallCurrent
<1> HIDE DEF x
<1>3. /\ Still(x, doPresent(DMAOutStretchWithCopy(x))) /\ Still(x, doPresent(DMAOutDirect(x)))
      /\ Still(x, doPresent(DMAOutWithCopy(x)))
  BY <1>2, OutStill, PresentStill
<1>4. \E z : Return(s, z) /\ Still(x, z)
  BY <1>1, <1>2, <1>3, OutStill
<1> QED
  BY <1>4, StillKeeps DEF x

LEMMA SurfaceStepKeeps ==
  ASSUME MapsInv, NEW s \in Surfaces, SurfaceStep(s) PROVE MapsInv'
<1> DEFINE x == Call(s)
<1>1. Still(x, x) /\ Current(x) /\ IsCall(x)
  BY CallCurrent
<1>2. CASE Open(s)
  BY <1>2, OpenKeeps
<1>3. CASE clientClose(s)
  <2>1. Return(s, [Cleanup(x) EXCEPT !.sf.state = "closed"])
    BY <1>3 DEF clientClose
  <2> HIDE DEF x
  <2> QED
    BY <1>1, <2>1, CleanupCurrent, ReturnKeeps
<1>4. ASSUME NEW wid, set_id_mode(s, wid) PROVE MapsInv'
  <2> DEFINE y == IF wid = "desktop" /\ x.sf.screen THEN createPrimaryScreen(x) ELSE x
  <2>1. Return(s, [y EXCEPT !.sf.wid = wid])
    BY <1>4 DEF set_id_mode
  <2> HIDE DEF x
  <2>2. Still(x, y)
    BY <1>1, AccelStill, Zenon
  <2> HIDE DEF y
  <2>3. Still(x, [y EXCEPT !.sf.wid = wid])
    BY <2>2, SetStill, Zenon
  <2> QED
    BY <2>1, <2>3, StillKeeps DEF x
<1>5. ASSUME NEW fit, NEW offset, set_scale(s, fit, offset) PROVE MapsInv'
  <2>1. Return(s, [x EXCEPT !.sf.fit = fit, !.sf.offset = offset]) /\ Still(x, [x EXCEPT !.sf.fit = fit, !.sf.offset = offset])
    BY <1>1, <1>5, SetStill, Zenon DEF set_scale
  <2> QED
    BY <2>1, StillKeeps
<1>6. ASSUME NEW bit, Return(s, Unlock(x, bit)) PROVE MapsInv'
  <2>1. Still(x, Unlock(x, bit))
    BY <1>1, LockStill
  <2> QED
    BY <1>6, <2>1, StillKeeps
<1>7. CASE Draw(s)
  BY <1>5, <1>6, <1>7, ShapeKeeps, ReadLockKeeps, WriteLockKeeps, FlushKeeps
  DEF Draw, surface_read_unlock, surface_write_unlock
<1> QED
  BY <1>2, <1>3, <1>4, <1>7 DEF SurfaceStep

\* A call of a context on the surface it holds.
LEMMA HeldKeeps ==
  ASSUME MapsInv, NEW c,
         \/ swap_surface(c) \/ lock_memory(c) \/ unlock_memory(c) \/ CopyFramebufferRegion(c)
         \/ \E fit \in Fits : scale_surface(c, fit)
         \/ \E s \in Surfaces : CopySurfaceRegion(c, s)
  PROVE  MapsInv'
<1> DEFINE s == ctx[c].surf
           x == Call(s)
<1>1. s \in Surfaces => Still(x, x) /\ Current(x) /\ IsCall(x)
  BY CallCurrent
<1>2. ASSUME NEW z, OnSurface(c, z), s \in Surfaces => Current(z) \/ Still(x, z) PROVE MapsInv'
  <2>1. Return(s, z)
    BY <1>2 DEF OnSurface
  <2>2. s \in Surfaces => Current(z)
    BY <1>1, <1>2, CurrentGoesOn
  <2> HIDE DEF s
  <2> QED
    BY <2>1, <2>2, ReturnKeeps
<1>3. CASE swap_surface(c)
  <2>1. PICK z \in surface_flush_video(x) : OnSurface(c, z)
    BY <1>3 DEF swap_surface
  <2> HIDE DEF x
  <2> QED
    BY <1>1, <1>2, <2>1, VideoStill
<1>4. CASE lock_memory(c)
  <2>1. PICK z \in context_lock_memory(x) : OnSurface(c, z)
    BY <1>4 DEF lock_memory
  <2> HIDE DEF x
  <2> QED
    BY <1>1, <1>2, <2>1, LockMemoryCurrent
<1>5. CASE unlock_memory(c)
  <2>1. OnSurface(c, context_unlock_memory(x))
    BY <1>5 DEF unlock_memory
  <2> HIDE DEF x
  <2> QED
    BY <1>1, <1>2, <2>1, UnlockMemoryCurrent
<1>6. CASE CopyFramebufferRegion(c)
  <2>1. PICK z \in copy_framebuffer_region_to_self(x) : OnSurface(c, z)
    BY <1>6 DEF CopyFramebufferRegion
  <2> HIDE DEF x
  <2> QED
    BY <1>1, <1>2, <2>1, CopyCurrent
<1>7. ASSUME NEW fit, scale_surface(c, fit) PROVE MapsInv'
  <2>1. OnSurface(c, [x EXCEPT !.sf.fit = fit, !.sf.offset = FALSE])
    BY <1>7 DEF scale_surface, context_scale_surface
  <2> HIDE DEF x
  <2>2. s \in Surfaces => Still(x, [x EXCEPT !.sf.fit = fit, !.sf.offset = FALSE])
    BY <1>1, SetStill, Zenon
  <2> QED
    BY <1>2, <2>1, <2>2
<1>8. ASSUME NEW t, CopySurfaceRegion(c, t) PROVE MapsInv'
  <2>1. PICK z \in copy_surface_region_to_self(x, sf[t], vtb[t]) : OnSurface(c, z)
    BY <1>8 DEF CopySurfaceRegion
  <2> HIDE DEF x
  <2> QED
    BY <1>1, <1>2, <2>1, CopyCurrent
<1> QED
  BY <1>3, <1>4, <1>5, <1>6, <1>7, <1>8

LEMMA SetSurfaceKeeps ==
  ASSUME MapsInv, NEW c, NEW s, NEW yuv, set_surface(c, s, yuv) PROVE MapsInv'
<1>1. CASE UNCHANGED <<sf, vtb>>
  BY <1>1 DEF MapsInv
<1>2. CASE \E x \in context_set_surface(Call(s), yuv) : Return(s, x)
  <2>1. PICK x \in context_set_surface(Call(s), yuv) : Return(s, x)
    BY <1>2
  <2>2. s \in Surfaces => Still(Call(s), x)
    BY <2>1, CallCurrent, SetSurfaceStill
  <2> QED
    BY <2>1, <2>2, StillKeeps
<1> QED
  BY <1>1, <1>2 DEF set_surface

LEMMA ContextStepKeeps ==
  ASSUME MapsInv, NEW c, ContextStep(c) PROVE MapsInv'
<1>1. CASE UNCHANGED <<sf, vtb>>
  BY <1>1 DEF MapsInv
<1>2. OpenContext(c) \/ CloseContext(c) \/ finish(c) \/ DrawToFramebuffer(c) => UNCHANGED <<sf, vtb>>
  BY DEF OpenContext, CloseContext, finish, DrawToFramebuffer, OnDevice
<1> QED
  BY <1>1, <1>2, HeldKeeps, SetSurfaceKeeps DEF ContextStep

\* What a client has mapped of a surface is the backing the surface has at
\* that moment, or the block it is shown instead of a video frame: whatever
\* surfaces and contexts do between two calls, for any number of them, a map
\* never outlives the memory it maps (VMsvga2Surface::releaseBacking,
\* allocBacking and the lock methods).
THEOREM MapsStayCurrent == Spec => []MapsCurrent
<1>1. Init => MapsInv
  <2> SUFFICES ASSUME Init PROVE MapsInv
    OBVIOUS
  <2>1. \A s \in Surfaces : Shows(NewSurface, NewTransferBuffer(s))
    BY DEF Shows, NewSurface, NewTransferBuffer, SurfaceFields, BufferFields
  <2> QED
    BY <2>1 DEF Init, InitSurface, MapsInv
<1>2. MapsInv /\ [Next]_vars => MapsInv'
  <2> SUFFICES ASSUME MapsInv, [Next]_vars PROVE MapsInv'
    OBVIOUS
  <2>1. CASE UNCHANGED <<sf, vtb>>
    BY <2>1 DEF MapsInv
  <2>2. UNCHANGED vars \/ DeviceStep => UNCHANGED <<sf, vtb>>
    BY DEF vars, DeviceStep
  <2> QED
    BY <2>1, <2>2, SurfaceStepKeeps, ContextStepKeeps DEF Next
<1>3. MapsInv => MapsCurrent
  BY DEF MapsInv, Shows, MapsCurrent
<1> QED
  BY <1>1, <1>2, <1>3, PTL DEF Spec

-----------------------------------------------------------------------------
(* What surfaces hold, and what is queued for the device.                  *)

AccelFields == {"vram", "lost", "wired", "gmr", "streams", "sids", "count", "master", "blitbug",
                "counter", "primary"}
DeviceFields == {"queue", "host", "error", "gmr"}
IsDevice(d) == DOMAIN d = DeviceFields /\ (\E T : d.queue \in Seq(T)) /\ DOMAIN d.gmr = GmrIds
Shape(x) ==
  /\ DOMAIN x = {"acc", "dev", "sf", "vtb"} /\ DOMAIN x.sf = SurfaceFields
  /\ DOMAIN x.vtb = BufferFields /\ DOMAIN x.acc = AccelFields /\ IsDevice(x.dev)

\* Of the commands in a sequence, those that name memory.
Pending(queue) == {q \in {queue[i] : i \in DOMAIN queue} : q.op \in {"dma", "gmrfb"}}

\* A command q of the surface f with the transfer buffer b: it names the
\* backing of this moment, and b knows the fence behind it.
Mine(f, b, q) ==
  /\ b.fence /\ "fence" \in DOMAIN q /\ q.fence = b.tag
  /\ q.ref.owner = b.tag /\ q.ref.gmr = b.gmr
  /\ q.ref.mem = (IF b.md # NoId THEN b.md ELSE f.self) /\ q.ref.mem # NoId

-----------------------------------------------------------------------------
(* The device.  What it has executed of its queue is a fold over it.       *)

\* The greatest member of a set of numbers, and that there is one.
LEMMA MaxGives ==
  ASSUME NEW n \in Nat, NEW S \in SUBSET (1..n), S # {}
  PROVE  Max(S) \in S /\ \A k \in S : k <= Max(S)
<1> DEFINE T == {i \in Nat : \E k \in S : i = n - k}
<1>1. T # {} /\ T \subseteq Nat
  <2>1. PICK k \in S : TRUE
    OBVIOUS
  <2>2. n - k \in Nat
    OBVIOUS
  <2> QED BY <2>2
<1>2. PICK m \in T : \A k \in T : <<k, m>> \notin OpToRel(<, Nat)
  BY <1>1, WFMin, NatLessThanWellFounded, Zenon
<1>3. \A k \in T : m <= k
  <2>1. ASSUME NEW k \in T PROVE ~(k < m)
    <3>1. <<k, m>> \notin OpToRel(<, Nat)
      BY <1>2
    <3>2. k \in Nat /\ m \in Nat
      BY <1>1
    <3> QED BY <3>1, <3>2, Zenon DEF OpToRel
  <2> QED BY <1>1, <2>1
<1>4. n - m \in S /\ \A k \in S : k <= n - m
  <2>1. \A k \in S : n - k \in T
    OBVIOUS
  <2> QED BY <2>1, <1>3
<1>5. \E x \in S : \A y \in S : x >= y
  BY <1>4
<1> QED
  BY <1>5 DEF Max

LEMMA MaxIsTop ==
  ASSUME NEW n \in Nat, NEW S \in SUBSET (1..n), n \in S PROVE Max(S) = n
<1> DEFINE m == Max(S)
<1>1. m \in S /\ \A k \in S : k <= m
  BY MaxGives
<1> HIDE DEF m
<1>2. n <= m /\ m <= n
  BY <1>1
<1>3. m \in Nat
  BY <1>1
<1> QED
  BY <1>2, <1>3 DEF m

\* g is the function by which FoldLeft folds the commands with numbers in S.
Iter(base, seq, S, g) == g = [s \in SUBSET S |-> IF s = {} THEN base ELSE Execute(g[s \ {Max(s)}], seq[Max(s)])]

LEMMA FoldIs ==
  ASSUME NEW base, NEW seq
  PROVE  FoldLeft(Execute, base, seq) = (CHOOSE g : Iter(base, seq, DOMAIN seq, g))[DOMAIN seq]
BY Zenon DEF FoldLeft, MapThenFoldSet, Iter

LEMMA IterExists ==
  ASSUME NEW base, NEW seq, NEW n \in Nat
  PROVE  \E g : Iter(base, seq, 1..n, g)
<1> DEFINE Bad == {k \in Nat : ~\E g : Iter(base, seq, 1..k, g)}
<1> SUFFICES ASSUME Bad # {} PROVE FALSE
  OBVIOUS
<1>1. PICK m \in Bad : \A k \in Bad : <<k, m>> \notin OpToRel(<, Nat)
  BY WFMin, NatLessThanWellFounded, Zenon
<1>2. m \in Nat /\ \A k \in Bad : ~(k < m)
  <2>1. ASSUME NEW k \in Bad PROVE ~(k < m)
    <3>1. <<k, m>> \notin OpToRel(<, Nat)
      BY <1>1
    <3>2. k \in Nat /\ m \in Nat
      OBVIOUS
    <3> QED BY <3>1, <3>2, Zenon DEF OpToRel
  <2> QED BY <2>1
<1>3. m # 0
  <2> DEFINE g == [s \in {{}} |-> base]
  <2>1. SUBSET (1..0) = {{}}
    OBVIOUS
  <2>2. Iter(base, seq, 1..0, g)
    BY <2>1 DEF Iter
  <2> HIDE DEF g
  <2> QED
    BY <2>2
<1>4. m - 1 \in Nat /\ m - 1 \notin Bad
  BY <1>2, <1>3
<1>5. PICK g : Iter(base, seq, 1..(m - 1), g)
  BY <1>4
<1> DEFINE h == [s \in SUBSET (1..m) |-> IF m \in s THEN Execute(g[s \ {m}], seq[m]) ELSE g[s]]
<1>6. ASSUME NEW s \in SUBSET (1..m)
      PROVE  h[s] = IF s = {} THEN base ELSE Execute(h[s \ {Max(s)}], seq[Max(s)])
  <2>1. CASE m \in s
    <3>1. Max(s) = m
      BY <1>2, <2>1, MaxIsTop
    <3>2. s \ {m} \in SUBSET (1..m) /\ m \notin s \ {m} /\ s # {}
      BY <2>1
    <3> QED BY <2>1, <3>1, <3>2
  <2>2. CASE m \notin s
    <3>1. s \in SUBSET (1..(m - 1))
      BY <1>2, <2>2
    <3>2. g[s] = IF s = {} THEN base ELSE Execute(g[s \ {Max(s)}], seq[Max(s)])
      BY <1>5, <3>1 DEF Iter
    <3>3. \A t : t \in SUBSET s => h[t] = g[t]
      BY <2>2, <3>1
    <3> HIDE DEF h
    <3>4. h[s] = g[s] /\ h[s \ {Max(s)}] = g[s \ {Max(s)}]
      BY <3>3
    <3> QED BY <3>2, <3>4
  <2> QED BY <2>1, <2>2
<1>7. Iter(base, seq, 1..m, h)
  <2>1. h = [s \in SUBSET (1..m) |-> h[s]]
    OBVIOUS
  <2> HIDE DEF h
  <2> QED BY <1>6, <2>1 DEF Iter
<1> QED
  BY <1>1, <1>7

\* What every execution of a command keeps, a fold over commands keeps.
Untouched(d, e) == DOMAIN e = DOMAIN d /\ e.queue = d.queue /\ e.gmr = d.gmr

LEMMA ExecuteKeeps ==
  ASSUME NEW d, DOMAIN d = {"queue", "host", "error", "gmr"}, NEW c PROVE Untouched(d, Execute(d, c))
BY DEF Untouched, Execute

LEMMA FoldKeeps ==
  ASSUME NEW d, DOMAIN d = {"queue", "host", "error", "gmr"}, NEW n \in Nat, NEW seq, DOMAIN seq = 1..n
  PROVE  Untouched(d, FoldLeft(Execute, d, seq))
<1> DEFINE g == CHOOSE f : Iter(d, seq, 1..n, f)
           Bad == {k \in 0..n : ~Untouched(d, g[1..k])}
<1>1. Iter(d, seq, 1..n, g) /\ FoldLeft(Execute, d, seq) = g[1..n]
  BY IterExists, FoldIs
<1> HIDE DEF g
<1> SUFFICES ASSUME Bad # {} PROVE FALSE
  BY <1>1
<1>2. PICK m \in Bad : \A k \in Bad : <<k, m>> \notin OpToRel(<, Nat)
  <2>1. Bad \subseteq Nat
    OBVIOUS
  <2> QED BY <2>1, WFMin, NatLessThanWellFounded, Zenon
<1>3. m \in 0..n /\ \A k \in Bad : ~(k < m)
  <2>1. ASSUME NEW k \in Bad PROVE ~(k < m)
    <3>1. <<k, m>> \notin OpToRel(<, Nat)
      BY <1>2
    <3>2. k \in Nat /\ m \in Nat
      OBVIOUS
    <3> QED BY <3>1, <3>2, Zenon DEF OpToRel
  <2> QED BY <2>1
<1>4. m # 0
  <2>1. g[1..0] = d
    BY <1>1 DEF Iter
  <2> QED BY <2>1 DEF Untouched
<1>5. Untouched(d, g[1..(m - 1)])
  BY <1>3, <1>4
<1>6. g[1..m] = Execute(g[1..(m - 1)], seq[m])
  <2>1. Max(1..m) = m
    <3>1. 1..m \in SUBSET (1..m) /\ m \in 1..m /\ m \in Nat
      BY <1>3, <1>4
    <3> QED BY <3>1, MaxIsTop
  <2>2. (1..m) \ {m} = 1..(m - 1) /\ m \in 1..m /\ 1..m \in SUBSET (1..n)
    <3>1. m \in Nat /\ m <= n /\ 1 <= m
      BY <1>3, <1>4
    <3> QED BY <3>1
  <2> QED BY <1>1, <2>1, <2>2 DEF Iter
<1>7. Untouched(d, g[1..m])
  <2>1. DOMAIN g[1..(m - 1)] = {"queue", "host", "error", "gmr"}
    BY <1>5 DEF Untouched
  <2>2. Untouched(g[1..(m - 1)], Execute(g[1..(m - 1)], seq[m]))
    BY <2>1, ExecuteKeeps
  <2> QED BY <1>5, <1>6, <2>2 DEF Untouched
<1> QED
  BY <1>2, <1>7

LEMMA DrainGives ==
  ASSUME NEW d, DOMAIN d = {"queue", "host", "error", "gmr"}, NEW T, d.queue \in Seq(T),
         NEW n \in 0..Len(d.queue), NEW e, e = Drain(d, n)
  PROVE  /\ DOMAIN e = DOMAIN d /\ e.gmr = d.gmr
         /\ e.queue = SubSeq(d.queue, n + 1, Len(d.queue))
<1> DEFINE b == [d EXCEPT !.queue = SubSeq(@, n + 1, Len(@))]
           seq == SubSeq(d.queue, 1, n)
<1>1. DOMAIN b = DOMAIN d /\ b.gmr = d.gmr /\ b.queue = SubSeq(d.queue, n + 1, Len(d.queue))
  OBVIOUS
<1>2. DOMAIN seq = 1..n /\ n \in Nat
  OBVIOUS
<1>3. e = FoldLeft(Execute, b, seq)
  BY Zenon DEF Drain
<1> HIDE DEF b, seq
<1>4. Untouched(b, e)
  BY <1>1, <1>2, <1>3, FoldKeeps
<1> QED
  BY <1>1, <1>4 DEF Untouched

LEMMA DrainPending ==
  ASSUME NEW d, IsDevice(d), NEW n \in 0..Len(d.queue), NEW e, e = Drain(d, n)
  PROVE  /\ IsDevice(e) /\ e.gmr = d.gmr
         /\ \A q \in Pending(e.queue) : \E i \in DOMAIN d.queue : i > n /\ q = d.queue[i] /\ q \in Pending(d.queue)
<1> PICK T : d.queue \in Seq(T)
  BY DEF IsDevice
<1>1. /\ DOMAIN e = DOMAIN d /\ e.gmr = d.gmr
      /\ e.queue = SubSeq(d.queue, n + 1, Len(d.queue))
  BY DrainGives DEF IsDevice, DeviceFields
<1>2. e.queue \in Seq(T) /\ Len(e.queue) = Len(d.queue) - n
  BY <1>1
<1>3. \A i \in DOMAIN e.queue : n + i \in DOMAIN d.queue /\ n + i > n /\ e.queue[i] = d.queue[n + i]
  BY <1>1, <1>2
<1> QED
  BY <1>1, <1>2, <1>3, ZenonT(60) DEF IsDevice, Pending

\* Commands are queued behind what is there, of which the device may have
\* executed a part.
LEMMA QueueGives ==
  ASSUME NEW x, DOMAIN x.dev = DeviceFields, IsDevice(x.dev), "dev" \in DOMAIN x,
         NEW T, NEW cmds \in Seq(T), NEW y, y = Queue(x, cmds)
  PROVE  /\ y = [x EXCEPT !.dev = y.dev] /\ IsDevice(y.dev) /\ y.dev.gmr = x.dev.gmr
         /\ Pending(y.dev.queue) \subseteq Pending(x.dev.queue) \cup Pending(cmds)
<1> DEFINE d == [x.dev EXCEPT !.queue = @ \o cmds]
<1>1. DOMAIN d = DeviceFields /\ d.gmr = x.dev.gmr /\ d.queue = x.dev.queue \o cmds
  BY DEF DeviceFields
<1>2. PICK U : x.dev.queue \in Seq(U)
  BY DEF IsDevice
<1>3. d.queue \in Seq(U \cup T) /\ Len(d.queue) = Len(x.dev.queue) + Len(cmds) /\ Len(d.queue) \in Nat
  <2>1. x.dev.queue \in Seq(U \cup T) /\ cmds \in Seq(U \cup T)
    BY <1>2
  <2> QED BY <1>1, <2>1
<1>4. IsDevice(d)
  BY <1>1, <1>3 DEF IsDevice
<1>5. Pending(d.queue) \subseteq Pending(x.dev.queue) \cup Pending(cmds)
  <2> SUFFICES ASSUME NEW i \in DOMAIN d.queue
               PROVE  \/ \E j \in DOMAIN x.dev.queue : d.queue[i] = x.dev.queue[j]
                      \/ \E j \in DOMAIN cmds : d.queue[i] = cmds[j]
    BY DEF Pending
  <2>1. i \in 1..(Len(x.dev.queue) + Len(cmds))
    BY <1>3
  <2>2. x.dev.queue \in Seq(U \cup T) /\ cmds \in Seq(U \cup T)
    BY <1>2
  <2>3. CASE i <= Len(x.dev.queue)
    BY <1>1, <2>1, <2>2, <2>3
  <2>4. CASE i > Len(x.dev.queue)
    <3>1. i - Len(x.dev.queue) \in DOMAIN cmds /\ d.queue[i] = cmds[i - Len(x.dev.queue)]
      BY <1>1, <2>1, <2>2, <2>4
    <3> QED BY <3>1
  <2> QED BY <2>1, <2>2, <2>3, <2>4
<1>6. y = [x EXCEPT !.dev = IF Len(d.queue) <= MaxQueue THEN d ELSE Drain(d, Len(d.queue) - MaxQueue)]
  BY Zenon DEF Queue
<1> HIDE DEF d
<1>7. CASE Len(d.queue) <= MaxQueue
  BY <1>1, <1>4, <1>5, <1>6, <1>7
<1>8. CASE ~(Len(d.queue) <= MaxQueue)
  <2> DEFINE n == Len(d.queue) - MaxQueue
             e == Drain(d, n)
  <2>1. n \in 0..Len(d.queue)
    BY <1>3, <1>8, PoolAssumption
  <2> HIDE DEF n
  <2>2. IsDevice(e) /\ e.gmr = d.gmr /\ Pending(e.queue) \subseteq Pending(d.queue)
    BY <1>4, <2>1, DrainPending
  <2>3. y = [x EXCEPT !.dev = e]
    BY <1>6, <1>8 DEF n
  <2> HIDE DEF e
  <2> QED BY <1>1, <1>5, <2>2, <2>3
<1> QED
  BY <1>7, <1>8

\* Behind a fence there is nothing left that was queued before it.
LEMMA FenceGives ==
  ASSUME NEW x, IsDevice(x.dev), "dev" \in DOMAIN x, NEW f, NEW y, y = SyncToFence(x, f)
  PROVE  /\ y = x \/ y = [x EXCEPT !.dev = y.dev]
         /\ IsDevice(y.dev) /\ y.dev.gmr = x.dev.gmr
         /\ Pending(y.dev.queue) \subseteq Pending(x.dev.queue)
         /\ \A q \in Pending(y.dev.queue) : ~("fence" \in DOMAIN q /\ q.fence = f)
<1> DEFINE at == {i \in DOMAIN x.dev.queue :
                    "fence" \in DOMAIN x.dev.queue[i] /\ x.dev.queue[i].fence = f}
           n == Max(at)
<1>1. y = IF at = {} THEN x ELSE [x EXCEPT !.dev = Drain(@, n)]
  BY Zenon DEF SyncToFence
<1>2. PICK T : x.dev.queue \in Seq(T)
  BY DEF IsDevice
<1>3. CASE at = {}
  <2>1. y = x
    BY <1>1, <1>3
  <2>2. \A i \in DOMAIN x.dev.queue :
          ~("fence" \in DOMAIN x.dev.queue[i] /\ x.dev.queue[i].fence = f)
    BY <1>3
  <2> HIDE DEF at
  <2> QED BY <2>1, <2>2 DEF Pending
<1>4. CASE at # {}
  <2>1. at \in SUBSET (1..Len(x.dev.queue)) /\ Len(x.dev.queue) \in Nat
    BY <1>2
  <2>2. n \in at /\ \A k \in at : k <= n
    <3> HIDE DEF at
    <3> QED BY <1>4, <2>1, MaxGives
  <2>3. n \in 0..Len(x.dev.queue)
    BY <2>1, <2>2
  <2> DEFINE e == Drain(x.dev, n)
  <2> HIDE DEF n
  <2>4. /\ IsDevice(e) /\ e.gmr = x.dev.gmr
        /\ \A q \in Pending(e.queue) : \E i \in DOMAIN x.dev.queue : i > n /\ q = x.dev.queue[i]
                                                                      /\ q \in Pending(x.dev.queue)
    BY <2>3, DrainPending
  <2>5. y = [x EXCEPT !.dev = e]
    BY <1>1, <1>4
  <2> HIDE DEF e
  <2>6. y.dev = e
    BY <2>5
  <2>7. ASSUME NEW q \in Pending(e.queue) PROVE q \in Pending(x.dev.queue) /\ ~("fence" \in DOMAIN q /\ q.fence = f)
    <3>1. PICK i \in DOMAIN x.dev.queue : i > n /\ q = x.dev.queue[i] /\ q \in Pending(x.dev.queue)
      BY <2>4, <2>7
    <3>2. i \notin at
      BY <2>1, <2>2, <2>3, <3>1
    <3> QED BY <3>1, <3>2
  <2> QED BY <2>4, <2>5, <2>6, <2>7
<1> QED
  BY <1>3, <1>4

LEMMA SyncGives ==
  ASSUME NEW x, IsDevice(x.dev), "dev" \in DOMAIN x, NEW y, y = SyncFIFO(x)
  PROVE  /\ y = [x EXCEPT !.dev = y.dev] /\ IsDevice(y.dev) /\ y.dev.gmr = x.dev.gmr
         /\ Pending(y.dev.queue) \subseteq Pending(x.dev.queue)
<1> DEFINE n == Len(x.dev.queue)
           e == Drain(x.dev, n)
<1>1. n \in 0..Len(x.dev.queue)
  BY DEF IsDevice
<1>2. y = [x EXCEPT !.dev = e]
  BY DEF SyncFIFO
<1> HIDE DEF n
<1>3. IsDevice(e) /\ e.gmr = x.dev.gmr /\ Pending(e.queue) \subseteq Pending(x.dev.queue)
  BY <1>1, DrainPending
<1> HIDE DEF e
<1> QED
  BY <1>2, <1>3

-----------------------------------------------------------------------------
(* A call, against what the other surfaces hold.                           *)

\* Of some pool, have is in use: what others hold, what one of them holds
\* itself, and what is lost.
Part(have, others, own, lost, ids) ==
  /\ have = others \cup own \cup (lost \cap ids)
  /\ own \subseteq ids /\ others \subseteq ids
  /\ own \cap others = {} /\ own \cap lost = {} /\ others \cap lost = {}

Block(f) == {f.self} \ {NoId}
Descriptor(b) == {b.md} \ {NoId}
Region(b) == {b.gmr} \cap GmrIds
Stream(f) == IF f.enabled THEN {f.stream} ELSE {}

\* The call x of an open surface, R being the rest: the surface's tag, what
\* the others hold of each pool, the memory of their regions, their queued
\* commands, and whether a write lock was there when the call began.
Accounted(x, R) ==
  /\ Part(x.acc.vram, R.vram, Block(x.sf), x.acc.lost, Chunks)
  /\ Part(x.acc.wired, R.wired, Descriptor(x.vtb), {}, Wired)
  /\ Part(x.acc.gmr, R.gmr, Region(x.vtb), {}, GmrIds)
  /\ Part(x.acc.streams, R.streams, Stream(x.sf), x.acc.lost, StreamIds)
  /\ x.acc.lost \subseteq Chunks \cup StreamIds
Regions(x, R) ==
  /\ \A g \in R.gmr : x.dev.gmr[g] = R.map[g]
  /\ \A g \in GmrIds \ x.acc.gmr : x.dev.gmr[g] = NoId
  /\ x.vtb.gmr \in GmrIds => x.vtb.md # NoId /\ x.dev.gmr[x.vtb.gmr] = x.vtb.md
  /\ x.sf.self # NoId => x.vtb.gmr = VRAM /\ x.vtb.md = NoId
Core(x, R) ==
  /\ Shape(x) /\ Accounted(x, R) /\ Regions(x, R)
  /\ x.sf.state = "open" /\ x.vtb.tag = R.tag
  /\ x.sf.enabled => x.sf.video
  /\ "write" \in x.sf.lock => R.write

\* Nothing of the surface is queued.
Clear(x, R) == \A q \in Pending(x.dev.queue) : q \in R.queue \/ q.ref.owner = NoId
Bare(x, R) == Core(x, R) /\ Clear(x, R) /\ x.sf.self = NoId /\ x.vtb.md = NoId
Fine(x, R) ==
  /\ Core(x, R) /\ (x.vtb.md # NoId => x.vtb.gmr \in GmrIds)
  /\ \A q \in Pending(x.dev.queue) : q \in R.queue \/ q.ref.owner = NoId \/ Mine(x.sf, x.vtb, q)

\* A part of a call in which nothing is acquired, given up or drawn.
Plain(x, y) ==
  /\ Shape(y)
  /\ y.sf.state = x.sf.state /\ y.sf.self = x.sf.self /\ y.sf.enabled = x.sf.enabled
  /\ y.sf.stream = x.sf.stream /\ y.sf.video = x.sf.video
  /\ "write" \in y.sf.lock => "write" \in x.sf.lock
  /\ y.vtb.gmr = x.vtb.gmr /\ y.vtb.md = x.vtb.md /\ y.vtb.tag = x.vtb.tag
  /\ x.vtb.fence => y.vtb.fence
  /\ y.acc.vram = x.acc.vram /\ y.acc.lost = x.acc.lost /\ y.acc.wired = x.acc.wired
  /\ y.acc.gmr = x.acc.gmr /\ y.acc.streams = x.acc.streams
  /\ y.dev.gmr = x.dev.gmr
  /\ \A q \in Pending(y.dev.queue) : q \in Pending(x.dev.queue) \/ q.ref.owner = NoId

LEMMA PlainTrans ==
  ASSUME NEW x, NEW y, NEW z, Plain(x, y), Plain(y, z) PROVE Plain(x, z)
BY DEF Plain

LEMMA PlainShape == ASSUME NEW x, NEW y, Plain(x, y) PROVE Shape(y)
BY DEF Plain

LEMMA PlainKeeps ==
  ASSUME NEW x, NEW y, Plain(x, y), NEW R
  PROVE  /\ Core(x, R) => Core(y, R)
         /\ Clear(x, R) => Clear(y, R)
         /\ Bare(x, R) => Bare(y, R)
         /\ Fine(x, R) => Fine(y, R)
<1>1. Core(x, R) => Core(y, R)
  <2> SUFFICES ASSUME Core(x, R) PROVE Core(y, R)
    OBVIOUS
  <2>1. Accounted(y, R)
    <3>1. Block(y.sf) = Block(x.sf) /\ Descriptor(y.vtb) = Descriptor(x.vtb)
          /\ Region(y.vtb) = Region(x.vtb) /\ Stream(y.sf) = Stream(x.sf)
      BY DEF Plain, Block, Descriptor, Region, Stream
    <3>2. Accounted(x, R)
      BY DEF Core
    <3> QED BY <3>1, <3>2 DEF Accounted, Plain
  <2>2. Regions(y, R)
    BY DEF Plain, Regions, Core
  <2> QED BY <2>1, <2>2 DEF Core, Plain
<1>2. Clear(x, R) => Clear(y, R)
  BY DEF Plain, Clear
<1>3. Bare(x, R) => Bare(y, R)
  BY <1>1, <1>2 DEF Plain, Bare
<1>4. Fine(x, R) => Fine(y, R)
  <2> SUFFICES ASSUME Fine(x, R) PROVE Fine(y, R)
    OBVIOUS
  <2>1. Core(y, R) /\ (y.vtb.md # NoId => y.vtb.gmr \in GmrIds)
    BY <1>1 DEF Fine, Plain
  <2>2. \A q : Mine(x.sf, x.vtb, q) => Mine(y.sf, y.vtb, q)
    BY DEF Plain, Mine
  <2> QED BY <2>1, <2>2 DEF Fine, Plain
<1> QED
  BY <1>1, <1>2, <1>3, <1>4

\* The fields of no account.
LEMMA FieldsPlain ==
  ASSUME NEW x, Shape(x)
  PROVE  /\ Plain(x, x)
         /\ \A v : /\ Plain(x, [x EXCEPT !.sf.wid = v]) /\ Plain(x, [x EXCEPT !.sf.fit = v])
                   /\ Plain(x, [x EXCEPT !.sf.region = v]) /\ Plain(x, [x EXCEPT !.sf.skip = v])
                   /\ Plain(x, [x EXCEPT !.sf.master = v]) /\ Plain(x, [x EXCEPT !.sf.screen = v])
                   /\ Plain(x, [x EXCEPT !.sf.direct = v]) /\ Plain(x, [x EXCEPT !.sf.map = v])
                   /\ Plain(x, [x EXCEPT !.vtb.gart = v])
                   /\ Plain(x, [x EXCEPT !.acc.blitbug = v]) /\ Plain(x, [x EXCEPT !.acc.count = v])
                   /\ Plain(x, [x EXCEPT !.acc.master = v]) /\ Plain(x, [x EXCEPT !.acc.primary = v])
                   /\ Plain(x, [x EXCEPT !.acc.counter = v]) /\ Plain(x, [x EXCEPT !.acc.sids = v])
         /\ \A v, w : /\ Plain(x, [x EXCEPT !.sf.master = v, !.sf.screen = w])
                      /\ Plain(x, [x EXCEPT !.sf.region = v, !.sf.client = w])
                      /\ Plain(x, [x EXCEPT !.sf.fit = v, !.sf.offset = w])
                      /\ Plain(x, [x EXCEPT !.acc.sids = v, !.acc.master = w])
         /\ Plain(x, [x EXCEPT !.vtb.fence = TRUE])
<1> USE DEF Plain, Shape, IsDevice, SurfaceFields, BufferFields, AccelFields, DeviceFields
<1>1. Plain(x, x)
  OBVIOUS
<1>2. ASSUME NEW v
      PROVE  /\ Plain(x, [x EXCEPT !.sf.wid = v]) /\ Plain(x, [x EXCEPT !.sf.fit = v])
             /\ Plain(x, [x EXCEPT !.sf.region = v]) /\ Plain(x, [x EXCEPT !.sf.skip = v])
  OBVIOUS
<1>3. ASSUME NEW v
      PROVE  /\ Plain(x, [x EXCEPT !.sf.master = v]) /\ Plain(x, [x EXCEPT !.sf.screen = v])
             /\ Plain(x, [x EXCEPT !.sf.direct = v]) /\ Plain(x, [x EXCEPT !.sf.map = v])
             /\ Plain(x, [x EXCEPT !.vtb.gart = v])
  OBVIOUS
<1>4. ASSUME NEW v
      PROVE  /\ Plain(x, [x EXCEPT !.acc.blitbug = v]) /\ Plain(x, [x EXCEPT !.acc.count = v])
             /\ Plain(x, [x EXCEPT !.acc.master = v]) /\ Plain(x, [x EXCEPT !.acc.primary = v])
             /\ Plain(x, [x EXCEPT !.acc.counter = v]) /\ Plain(x, [x EXCEPT !.acc.sids = v])
  OBVIOUS
<1>5. ASSUME NEW v, NEW w
      PROVE  /\ Plain(x, [x EXCEPT !.sf.master = v, !.sf.screen = w])
             /\ Plain(x, [x EXCEPT !.sf.region = v, !.sf.client = w])
             /\ Plain(x, [x EXCEPT !.sf.fit = v, !.sf.offset = w])
             /\ Plain(x, [x EXCEPT !.acc.sids = v, !.acc.master = w])
  OBVIOUS
<1>6. Plain(x, [x EXCEPT !.vtb.fence = TRUE])
  OBVIOUS
<1> HIDE DEF Plain, Shape, IsDevice, SurfaceFields, BufferFields, AccelFields, DeviceFields
<1> QED
  BY <1>1, <1>2, <1>3, <1>4, <1>5, <1>6

\* Commands that name no memory of a surface.
LEMMA QueuePlain ==
  ASSUME NEW x, NEW y, Plain(x, y), NEW T, NEW cmds \in Seq(T),
         \A i \in DOMAIN cmds : cmds[i].op \notin {"dma", "gmrfb"} \/ cmds[i].ref.owner = NoId
  PROVE  Plain(x, Queue(y, cmds))
<1> DEFINE z == Queue(y, cmds)
<1>1. Shape(y)
  BY DEF Plain
<1>2. /\ z = [y EXCEPT !.dev = z.dev] /\ IsDevice(z.dev) /\ z.dev.gmr = y.dev.gmr
      /\ Pending(z.dev.queue) \subseteq Pending(y.dev.queue) \cup Pending(cmds)
  BY <1>1, QueueGives DEF Shape, IsDevice
<1>3. \A q \in Pending(cmds) : q.ref.owner = NoId
  BY DEF Pending
<1> HIDE DEF z
<1>4. Plain(y, z)
  <2>1. /\ DOMAIN z = DOMAIN y /\ z.sf = y.sf /\ z.vtb = y.vtb /\ z.acc = y.acc
    BY <1>1, <1>2 DEF Shape
  <2>2. Shape(z)
    BY <1>1, <1>2, <2>1 DEF Shape
  <2> QED BY <1>2, <1>3, <2>1, <2>2 DEF Plain
<1> QED
  BY <1>4, PlainTrans DEF z

LEMMA OnePlain ==
  ASSUME NEW x, NEW y, Plain(x, y), NEW c, c.op \notin {"dma", "gmrfb"}
  PROVE  Plain(x, Queue(y, <<c>>))
<1>1. <<c>> \in Seq({c})
  OBVIOUS
<1>2. \A i \in DOMAIN <<c>> : <<c>>[i] = c
  OBVIOUS
<1>3. \A i \in DOMAIN <<c>> : <<c>>[i].op \notin {"dma", "gmrfb"} \/ <<c>>[i].ref.owner = NoId
  BY <1>2
<1> QED
  BY <1>1, <1>3, QueuePlain

LEMMA CommandsPlain ==
  ASSUME NEW x, NEW y, Plain(x, y)
  PROVE  /\ \A a : /\ Plain(x, createSurface(y, a)) /\ Plain(x, destroySurface(y, a))
                   /\ Plain(x, blitSurfaceToScreen(y, a)) /\ Plain(x, VideoSetReg(y, a))
         /\ \A a, b : /\ Plain(x, surfaceCopy(y, a, b)) /\ Plain(x, surfaceStretch(y, a, b))
                      /\ Plain(x, VideoSetRegsInRange(y, a, b))
                      /\ Plain(x, Queue(y, <<BeginPresent(a, b)>>))
         /\ Plain(x, Queue(y, <<DefineScreen>>)) /\ Plain(x, Queue(y, <<RectUpdate>>))
<1>1. \A a, b : /\ BeginDefineSurface(a).op = "define" /\ DestroySurface(a).op = "destroy"
                /\ BeginBlitSurfaceToScreen(a).op = "show" /\ VideoFlush(a, b).op = "video"
                /\ BeginSurfaceCopy(a, b).op = "copy" /\ SurfaceStretchBlt(a, b).op = "copy"
                /\ BeginPresent(a, b).op = "present"
  BY DEF BeginDefineSurface, DestroySurface, BeginBlitSurfaceToScreen, VideoFlush, BeginSurfaceCopy,
         SurfaceStretchBlt, BeginPresent
<1>2. DefineScreen.op = "screen" /\ RectUpdate.op = "update"
  BY DEF DefineScreen, RectUpdate
<1> QED
  BY <1>1, <1>2, OnePlain DEF createSurface, destroySurface, blitSurfaceToScreen, VideoSetReg, surfaceCopy,
     surfaceStretch, VideoSetRegsInRange

\* Waiting draws nothing.
LEMMA WaitPlain ==
  ASSUME NEW x, NEW y, Plain(x, y)
  PROVE  Plain(x, SyncFIFO(y)) /\ \A f : Plain(x, SyncToFence(y, f))
<1>1. Shape(y) /\ Plain(y, y)
  BY FieldsPlain DEF Plain
<1>2. ASSUME NEW z, z = y \/ z = [y EXCEPT !.dev = z.dev], IsDevice(z.dev), z.dev.gmr = y.dev.gmr,
             Pending(z.dev.queue) \subseteq Pending(y.dev.queue)
      PROVE  Plain(y, z)
  <2>1. DOMAIN z = DOMAIN y /\ z.sf = y.sf /\ z.vtb = y.vtb /\ z.acc = y.acc
    BY <1>1, <1>2 DEF Shape
  <2>2. Shape(z)
    BY <1>1, <1>2, <2>1 DEF Shape
  <2> QED BY <1>2, <2>1, <2>2 DEF Plain
<1>3. Plain(y, SyncFIFO(y))
  <2> DEFINE z == SyncFIFO(y)
  <2>1. z = [y EXCEPT !.dev = z.dev] /\ IsDevice(z.dev) /\ z.dev.gmr = y.dev.gmr
        /\ Pending(z.dev.queue) \subseteq Pending(y.dev.queue)
    BY <1>1, SyncGives DEF Shape
  <2> QED BY <1>2, <2>1
<1>4. ASSUME NEW f PROVE Plain(y, SyncToFence(y, f))
  <2> DEFINE z == SyncToFence(y, f)
  <2>1. (z = y \/ z = [y EXCEPT !.dev = z.dev]) /\ IsDevice(z.dev) /\ z.dev.gmr = y.dev.gmr
        /\ Pending(z.dev.queue) \subseteq Pending(y.dev.queue)
    BY <1>1, FenceGives DEF Shape
  <2> HIDE DEF z
  <2> QED BY <1>2, <2>1 DEF z
<1> QED
  BY <1>3, <1>4, PlainTrans

LEMMA PutPlain ==
  ASSUME NEW x, NEW y, Plain(x, y)
  PROVE  /\ \A v : /\ Plain(x, [y EXCEPT !.sf.wid = v]) /\ Plain(x, [y EXCEPT !.sf.fit = v])
                   /\ Plain(x, [y EXCEPT !.sf.region = v]) /\ Plain(x, [y EXCEPT !.sf.skip = v])
                   /\ Plain(x, [y EXCEPT !.sf.master = v]) /\ Plain(x, [y EXCEPT !.sf.screen = v])
                   /\ Plain(x, [y EXCEPT !.sf.direct = v]) /\ Plain(x, [y EXCEPT !.sf.map = v])
                   /\ Plain(x, [y EXCEPT !.vtb.gart = v])
                   /\ Plain(x, [y EXCEPT !.acc.blitbug = v]) /\ Plain(x, [y EXCEPT !.acc.count = v])
                   /\ Plain(x, [y EXCEPT !.acc.master = v]) /\ Plain(x, [y EXCEPT !.acc.primary = v])
                   /\ Plain(x, [y EXCEPT !.acc.counter = v]) /\ Plain(x, [y EXCEPT !.acc.sids = v])
         /\ \A v, w : /\ Plain(x, [y EXCEPT !.sf.master = v, !.sf.screen = w])
                      /\ Plain(x, [y EXCEPT !.sf.region = v, !.sf.client = w])
                      /\ Plain(x, [y EXCEPT !.sf.fit = v, !.sf.offset = w])
                      /\ Plain(x, [y EXCEPT !.acc.sids = v, !.acc.master = w])
         /\ Plain(x, [y EXCEPT !.vtb.fence = TRUE])
BY PlainShape, FieldsPlain, PlainTrans, ZenonT(60)

LEMMA MasterPlain ==
  ASSUME NEW x, NEW y, Plain(x, y)
  PROVE  Plain(x, retainMasterSurface(y)) /\ Plain(x, releaseMasterSurface(y))
         /\ Plain(x, createPrimaryScreen(y))
<1>1. ASSUME NEW z, Plain(x, z) PROVE Plain(x, createMasterSurface(z)) /\ Plain(x, destroyMasterSurface(z))
  <2>1. Plain(x, createMasterSurface(z))
    BY <1>1, PutPlain, CommandsPlain, Zenon DEF createMasterSurface
  <2>2. Plain(x, FreeSurfaceID(destroySurface(z, z.acc.master), z.acc.master))
    BY <1>1, PutPlain, CommandsPlain, Zenon DEF FreeSurfaceID
  <2>3. Plain(x, destroyMasterSurface(z))
    BY <1>1, <2>2, PutPlain, Zenon DEF destroyMasterSurface
  <2> QED BY <2>1, <2>3
<1>2. Plain(x, [y EXCEPT !.acc.count = @ + 1]) /\ Plain(x, [y EXCEPT !.acc.count = @ - 1])
  BY PutPlain, Zenon
<1>3. Plain(x, retainMasterSurface(y))
  BY <1>1, <1>2, Zenon DEF retainMasterSurface
<1>4. Plain(x, releaseMasterSurface(y))
  BY <1>1, <1>2, Zenon DEF releaseMasterSurface
<1>5. Plain(x, createPrimaryScreen(y))
  BY CommandsPlain, PutPlain, Zenon DEF createPrimaryScreen
<1> QED
  BY <1>3, <1>4, <1>5

LEMMA PresentPlain == ASSUME NEW x, NEW y, Plain(x, y) PROVE Plain(x, doPresent(y))
<1>1. \A z : Plain(x, z) => Plain(x, after(z))
  BY PutPlain, Zenon DEF after
<1> QED
  BY <1>1, WaitPlain, CommandsPlain, Zenon DEF doPresent, surfacePresentAutoSync

-----------------------------------------------------------------------------
(* Giving up a backing.                                                    *)

LEMMA SyncClear ==
  ASSUME NEW x, NEW R, Fine(x, R)
  PROVE  Fine(sync(x), R) /\ Clear(sync(x), R) /\ sync(x).sf = x.sf /\ sync(x).vtb.md = x.vtb.md
         /\ sync(x).vtb.gmr = x.vtb.gmr
<1>1. Shape(x)
  BY DEF Fine, Core
<1>2. CASE ~x.vtb.fence
  <2>1. sync(x) = x
    BY <1>2 DEF sync
  <2>2. Clear(x, R)
    BY <1>2 DEF Fine, Clear, Mine
  <2> QED BY <2>1, <2>2
<1>3. CASE x.vtb.fence
  <2> DEFINE y == SyncToFence(x, x.vtb.tag)
             z == [y EXCEPT !.vtb.fence = FALSE]
  <2>1. Plain(x, y)
    BY <1>1, FieldsPlain, WaitPlain
  <2>2. (y = x \/ y = [x EXCEPT !.dev = y.dev])
        /\ \A q \in Pending(y.dev.queue) : ~("fence" \in DOMAIN q /\ q.fence = x.vtb.tag)
    BY <1>1, FenceGives DEF Shape
  <2>3. sync(x) = z
    BY <1>3 DEF sync
  <2> HIDE DEF y
  <2>4. Fine(y, R) /\ Shape(y) /\ y.sf = x.sf /\ y.vtb = x.vtb
    BY <1>1, <2>1, <2>2, PlainKeeps DEF Plain, Shape
  <2>5. Clear(y, R)
    BY <2>2, <2>4 DEF Fine, Clear, Mine
  <2>6. /\ Shape(z) /\ z.sf = y.sf /\ z.acc = y.acc /\ z.dev = y.dev /\ z.vtb.md = y.vtb.md
        /\ z.vtb.gmr = y.vtb.gmr /\ z.vtb.tag = y.vtb.tag
    BY <2>4 DEF Shape, BufferFields
  <2> HIDE DEF z
  <2>7. Core(z, R)
    BY <2>4, <2>6 DEF Fine, Core, Accounted, Regions, Descriptor, Region
  <2>8. Clear(z, R)
    BY <2>5, <2>6 DEF Clear
  <2>9. Fine(z, R)
    BY <2>4, <2>6, <2>7, <2>8 DEF Fine, Clear
  <2> QED BY <2>3, <2>4, <2>6, <2>8, <2>9
<1> QED
  BY <1>2, <1>3

LEMMA CompleteGives ==
  ASSUME NEW x, NEW R, Fine(x, R), NEW y, y = complete(x)
  PROVE  Core(y, R) /\ Clear(y, R) /\ y.vtb.gmr \notin GmrIds /\ y.sf = x.sf /\ y.vtb.md = x.vtb.md
<1> DEFINE z == sync(x)
<1>1. Fine(z, R) /\ Clear(z, R) /\ z.sf = x.sf /\ z.vtb.md = x.vtb.md
  BY SyncClear
<1>2. y = IF z.vtb.gmr \notin GmrIds THEN z
          ELSE [FreeGMRID(destroyGMR(z, z.vtb.gmr), z.vtb.gmr) EXCEPT !.vtb.gmr = NoId]
  BY DEF complete
<1> HIDE DEF z
<1>3. CASE z.vtb.gmr \notin GmrIds
  BY <1>1, <1>2, <1>3 DEF Fine
<1>4. CASE z.vtb.gmr \in GmrIds
  <2> DEFINE g == z.vtb.gmr
  <2>1. Core(z, R) /\ Shape(z)
    BY <1>1 DEF Fine, Core
  <2>2. y = [FreeGMRID(destroyGMR(z, g), g) EXCEPT !.vtb.gmr = NoId]
    BY <1>2, <1>4
  <2>3. /\ DOMAIN y = DOMAIN z /\ y.sf = z.sf /\ y.vtb = [z.vtb EXCEPT !.gmr = NoId]
        /\ y.acc = [z.acc EXCEPT !.gmr = @ \ {g}] /\ y.dev = [z.dev EXCEPT !.gmr[g] = NoId]
    BY <2>1, <2>2 DEF destroyGMR, FreeGMRID, Shape
  <2>4. /\ Shape(y) /\ y.dev.queue = z.dev.queue /\ y.vtb.gmr = NoId /\ y.vtb.md = z.vtb.md
        /\ y.vtb.tag = z.vtb.tag /\ y.acc.gmr = z.acc.gmr \ {g} /\ y.acc.vram = z.acc.vram
        /\ y.acc.lost = z.acc.lost /\ y.acc.wired = z.acc.wired /\ y.acc.streams = z.acc.streams
        /\ y.dev.gmr = [z.dev.gmr EXCEPT ![g] = NoId]
    BY <2>1, <2>3 DEF Shape, IsDevice, BufferFields, AccelFields, DeviceFields
  <2>5. NoId \notin GmrIds
    BY PoolAssumption
  <2>6. Accounted(y, R)
    <3>1. Region(y.vtb) = {} /\ Region(z.vtb) = {g} /\ Descriptor(y.vtb) = Descriptor(z.vtb)
      BY <1>4, <2>4, <2>5 DEF Region, Descriptor
    <3>2. Accounted(z, R)
      BY <2>1 DEF Core
    <3> QED BY <2>3, <2>4, <3>1, <3>2 DEF Accounted, Part
  <2>7. Regions(y, R)
    <3>1. g \notin R.gmr /\ R.gmr \subseteq GmrIds /\ DOMAIN z.dev.gmr = GmrIds
      BY <1>4, <2>1 DEF Core, Accounted, Part, Region, Shape, IsDevice
    <3>2. Regions(z, R) /\ z.sf.self = NoId
      BY <1>4, <2>1, PoolAssumption DEF Core, Regions
    <3> QED BY <2>3, <2>4, <2>5, <3>1, <3>2 DEF Regions
  <2>8. Core(y, R)
    BY <2>1, <2>3, <2>4, <2>6, <2>7 DEF Core
  <2>9. Clear(y, R)
    BY <1>1, <2>4 DEF Clear
  <2> QED BY <1>1, <2>3, <2>4, <2>5, <2>8, <2>9
<1> QED
  BY <1>3, <1>4

LEMMA DiscardHolds ==
  ASSUME NEW x, NEW R, Core(x, R), Clear(x, R), x.vtb.gmr \notin GmrIds, NEW y, y = discard(x)
  PROVE  Core(y, R) /\ Clear(y, R) /\ y.vtb.gmr \notin GmrIds /\ y.sf = x.sf /\ y.vtb.md = NoId
<1>1. Shape(x)
  BY DEF Core
<1>2. /\ DOMAIN y = DOMAIN x /\ y.sf = x.sf /\ y.vtb = [x.vtb EXCEPT !.md = NoId]
      /\ y.acc = [x.acc EXCEPT !.wired = @ \ {x.vtb.md}] /\ y.dev = x.dev
  BY <1>1 DEF discard, Shape
<1>3. /\ Shape(y) /\ y.vtb.gmr = x.vtb.gmr /\ y.vtb.md = NoId /\ y.vtb.tag = x.vtb.tag
      /\ y.acc.gmr = x.acc.gmr /\ y.acc.vram = x.acc.vram /\ y.acc.lost = x.acc.lost
      /\ y.acc.wired = x.acc.wired \ {x.vtb.md} /\ y.acc.streams = x.acc.streams
  BY <1>1, <1>2 DEF Shape, BufferFields, AccelFields
<1>4. Accounted(y, R)
  <2>1. Region(y.vtb) = Region(x.vtb) /\ Descriptor(y.vtb) = {}
    BY <1>3 DEF Region, Descriptor
  <2>2. Accounted(x, R) /\ NoId \notin Wired
    BY PoolAssumption DEF Core
  <2> QED BY <1>2, <1>3, <2>1, <2>2 DEF Accounted, Part, Descriptor
<1>5. Regions(y, R)
  BY <1>2, <1>3 DEF Core, Regions
<1> QED
  BY <1>2, <1>3, <1>4, <1>5 DEF Core, Clear

LEMMA ReleaseGives ==
  ASSUME NEW x, NEW R, Fine(x, R), NEW y, y = releaseBacking(x)
  PROVE  Bare(y, R) /\ Fine(y, R) /\ y.sf.enabled = x.sf.enabled
<1> DEFINE c == complete(x)
           d == discard(c)
           z == IF d.sf.self # NoId THEN VRAMFree(d, d.sf.self) ELSE d
<1>1. Core(c, R) /\ Clear(c, R) /\ c.vtb.gmr \notin GmrIds /\ c.sf = x.sf
  BY CompleteGives
<1>2. Core(d, R) /\ Clear(d, R) /\ d.vtb.gmr \notin GmrIds /\ d.sf = x.sf /\ d.vtb.md = NoId
  <2> HIDE DEF c
  <2> QED BY <1>1, DiscardHolds
<1>3. y = [z EXCEPT !.sf.self = NoId, !.sf.map = [i \in 0..1 |-> NoId], !.vtb = NewTransferBuffer(@.tag)]
  BY DEF releaseBacking
<1> HIDE DEF d
<1>4. Shape(d)
  BY <1>2 DEF Core
<1>5. /\ DOMAIN z = DOMAIN d /\ z.sf = d.sf /\ z.vtb = d.vtb /\ z.dev = d.dev
      /\ DOMAIN z.acc = AccelFields /\ z.acc.vram = d.acc.vram \ Block(d.sf)
      /\ z.acc.gmr = d.acc.gmr /\ z.acc.lost = d.acc.lost
      /\ z.acc.wired = d.acc.wired /\ z.acc.streams = d.acc.streams
  <2>1. CASE d.sf.self = NoId
    <3>1. z = d /\ Block(d.sf) = {}
      BY <2>1 DEF Block
    <3> QED BY <1>4, <3>1 DEF Shape
  <2>2. CASE d.sf.self # NoId
    <3>1. z = VRAMFree(d, d.sf.self) /\ Block(d.sf) = {d.sf.self}
      BY <2>2 DEF Block
    <3> QED BY <1>4, <3>1 DEF VRAMFree, Shape, AccelFields
  <2> QED BY <2>1, <2>2
<1> HIDE DEF z
<1>6. /\ DOMAIN y = DOMAIN d /\ y.dev = d.dev /\ y.acc = z.acc
      /\ y.sf = [d.sf EXCEPT !.self = NoId, !.map = [i \in 0..1 |-> NoId]]
      /\ y.vtb = NewTransferBuffer(d.vtb.tag)
  BY <1>3, <1>4, <1>5 DEF Shape
<1>7. /\ Shape(y) /\ y.vtb.gmr = NoId /\ y.vtb.md = NoId /\ y.vtb.tag = d.vtb.tag
      /\ y.sf.self = NoId /\ y.sf.state = d.sf.state /\ y.sf.enabled = d.sf.enabled
      /\ y.sf.stream = d.sf.stream /\ y.sf.video = d.sf.video /\ y.sf.lock = d.sf.lock
      /\ y.acc.gmr = d.acc.gmr /\ y.acc.vram = d.acc.vram \ Block(d.sf) /\ y.acc.lost = d.acc.lost
      /\ y.acc.wired = d.acc.wired /\ y.acc.streams = d.acc.streams
  BY <1>4, <1>5, <1>6 DEF Shape, NewTransferBuffer, SurfaceFields, BufferFields
<1>8. Accounted(y, R)
  <2>1. Region(y.vtb) = {} /\ Region(d.vtb) = {} /\ Descriptor(y.vtb) = {} /\ Descriptor(d.vtb) = {}
        /\ Block(y.sf) = {} /\ Stream(y.sf) = Stream(d.sf)
    BY <1>2, <1>7, PoolAssumption DEF Region, Descriptor, Block, Stream
  <2>2. Accounted(d, R)
    BY <1>2 DEF Core
  <2> QED BY <1>7, <2>1, <2>2 DEF Accounted, Part
<1>9. Regions(y, R)
  BY <1>2, <1>6, <1>7, PoolAssumption DEF Core, Regions
<1>10. Core(y, R) /\ Clear(y, R)
  BY <1>2, <1>6, <1>7, <1>8, <1>9 DEF Core, Clear
<1> QED
  BY <1>2, <1>7, <1>10 DEF Bare, Fine, Clear

-----------------------------------------------------------------------------
(* Obtaining a backing.                                                    *)

\* A surface with a descriptor that has no region yet.
Wanting(x, R) ==
  Core(x, R) /\ Clear(x, R) /\ x.sf.self = NoId /\ x.vtb.md # NoId /\ x.vtb.gmr \notin GmrIds

LEMMA WantingStays ==
  ASSUME NEW x, NEW R, Wanting(x, R), NEW y, y = [x EXCEPT !.vtb.gmr = NoId]
  PROVE  Wanting(y, R)
<1>1. Shape(x)
  BY DEF Wanting, Core
<1>2. /\ Shape(y) /\ y.sf = x.sf /\ y.acc = x.acc /\ y.dev = x.dev
      /\ y.vtb.gmr = NoId /\ y.vtb.md = x.vtb.md /\ y.vtb.tag = x.vtb.tag
  BY <1>1 DEF Shape, BufferFields
<1>3. Region(y.vtb) = Region(x.vtb) /\ Descriptor(y.vtb) = Descriptor(x.vtb) /\ NoId \notin GmrIds
  BY <1>2, PoolAssumption DEF Wanting, Region, Descriptor
<1>4. Accounted(y, R)
  BY <1>2, <1>3 DEF Wanting, Core, Accounted
<1>5. Regions(y, R)
  BY <1>2, <1>3 DEF Wanting, Core, Regions
<1> QED
  BY <1>2, <1>3, <1>4, <1>5 DEF Wanting, Core, Clear

LEMMA RegionMade ==
  ASSUME NEW x, NEW R, Wanting(x, R), NEW g \in GmrIds \ x.acc.gmr,
         NEW y, Shape(y), y.sf = x.sf,
         y.vtb.gmr = g, y.vtb.md = x.vtb.md, y.vtb.tag = x.vtb.tag,
         y.acc.gmr = x.acc.gmr \cup {g}, y.acc.vram = x.acc.vram, y.acc.lost = x.acc.lost,
         y.acc.wired = x.acc.wired, y.acc.streams = x.acc.streams,
         y.dev.queue = x.dev.queue, y.dev.gmr = [x.dev.gmr EXCEPT ![g] = x.vtb.md]
  PROVE  Fine(y, R) /\ Clear(y, R)
<1>1. Region(y.vtb) = {g} /\ Region(x.vtb) = {} /\ Descriptor(y.vtb) = Descriptor(x.vtb)
  BY DEF Wanting, Region, Descriptor
<1>2. Accounted(y, R)
  BY <1>1 DEF Wanting, Core, Accounted, Part
<1>3. g \notin R.gmr /\ R.gmr \subseteq GmrIds /\ DOMAIN x.dev.gmr = GmrIds
  BY DEF Wanting, Core, Accounted, Part, Shape, IsDevice
<1>4. Regions(y, R)
  BY <1>3 DEF Wanting, Core, Regions
<1> QED
  BY <1>2, <1>4 DEF Wanting, Core, Clear, Fine

LEMMA PrepareGives ==
  ASSUME NEW x, NEW R, Wanting(x, R), NEW r \in prepare(x)
  PROVE  /\ r.x.sf = x.sf /\ r.x.vtb.md = x.vtb.md /\ r.ok \in BOOLEAN
         /\ r.ok => Fine(r.x, R) /\ Clear(r.x, R)
         /\ ~r.ok => Wanting(r.x, R)
<1>1. Shape(x)
  BY DEF Wanting, Core
<1>2. CASE r = [ok |-> FALSE, x |-> [x EXCEPT !.vtb.gmr = NoId]]
  <2>1. Wanting(r.x, R) /\ ~r.ok /\ r.ok \in BOOLEAN
    BY <1>2, WantingStays
  <2>2. r.x.sf = x.sf /\ r.x.vtb.md = x.vtb.md
    BY <1>1, <1>2 DEF Shape, BufferFields
  <2> QED BY <2>1, <2>2
<1>3. CASE r # [ok |-> FALSE, x |-> [x EXCEPT !.vtb.gmr = NoId]]
  <2>1. PICK a \in AllocGMRID(x) : \E c \in createGMR(a.x, a.id, x.vtb.md) :
          r = IF c.ok THEN [ok |-> TRUE, x |-> [c.x EXCEPT !.vtb.gmr = a.id]]
              ELSE [ok |-> FALSE, x |-> [FreeGMRID(c.x, a.id) EXCEPT !.vtb.gmr = NoId]]
    BY <1>3 DEF Wanting, prepare
  <2>2. PICK c \in createGMR(a.x, a.id, x.vtb.md) :
          r = IF c.ok THEN [ok |-> TRUE, x |-> [c.x EXCEPT !.vtb.gmr = a.id]]
              ELSE [ok |-> FALSE, x |-> [FreeGMRID(c.x, a.id) EXCEPT !.vtb.gmr = NoId]]
    BY <2>1
  <2>3. PICK g \in GmrIds \ x.acc.gmr : a = [id |-> g, x |-> [x EXCEPT !.acc.gmr = @ \cup {g}]]
    BY DEF AllocGMRID
  <2>4. a.id = g /\ a.x = [x EXCEPT !.acc.gmr = @ \cup {g}]
    BY <2>3
  <2>5. /\ DOMAIN a.x = DOMAIN x /\ a.x.sf = x.sf /\ a.x.vtb = x.vtb /\ a.x.dev = x.dev
        /\ a.x.acc = [x.acc EXCEPT !.gmr = @ \cup {g}]
    BY <1>1, <2>4 DEF Shape
  <2>6. CASE c = [ok |-> FALSE, x |-> a.x]
    <3> DEFINE f == FreeGMRID(a.x, g)
    <3>1. r.x = [f EXCEPT !.vtb.gmr = NoId] /\ r.ok = FALSE
      BY <2>2, <2>4, <2>6
    <3>2. /\ DOMAIN f = DOMAIN x /\ f.sf = x.sf /\ f.vtb = x.vtb /\ f.dev = x.dev
          /\ DOMAIN f.acc = AccelFields /\ f.acc.gmr = (x.acc.gmr \cup {g}) \ {g}
          /\ f.acc.vram = x.acc.vram /\ f.acc.lost = x.acc.lost
          /\ f.acc.wired = x.acc.wired /\ f.acc.streams = x.acc.streams
      BY <1>1, <2>5 DEF FreeGMRID, Shape, AccelFields
    <3> HIDE DEF f
    <3>3. Wanting(f, R)
      <4>1. f.acc.gmr = x.acc.gmr
        BY <3>2
      <4>2. Plain(x, f)
        <5>1. Shape(f)
          BY <1>1, <3>2 DEF Shape
        <5> QED BY <3>2, <4>1, <5>1 DEF Plain
      <4> QED BY <3>2, <4>2, PlainKeeps DEF Wanting
    <3>4. Wanting(r.x, R)
      BY <3>1, <3>3, WantingStays
    <3>5. r.x.sf = x.sf /\ r.x.vtb.md = x.vtb.md
      BY <1>1, <3>1, <3>2 DEF Shape, BufferFields
    <3> QED BY <3>1, <3>4, <3>5
  <2>7. CASE c = [ok |-> TRUE, x |-> [a.x EXCEPT !.dev.gmr[g] = x.vtb.md]]
    <3> DEFINE m == [a.x EXCEPT !.dev.gmr[g] = x.vtb.md]
    <3>1. r.x = [m EXCEPT !.vtb.gmr = g] /\ r.ok = TRUE
      BY <2>2, <2>4, <2>7
    <3>2. /\ DOMAIN m = DOMAIN x /\ m.sf = x.sf /\ m.vtb = x.vtb /\ m.acc = a.x.acc
          /\ m.dev = [x.dev EXCEPT !.gmr[g] = x.vtb.md]
      BY <1>1, <2>5 DEF Shape
    <3> HIDE DEF m
    <3>3. /\ DOMAIN r.x = DOMAIN x /\ r.x.sf = x.sf /\ r.x.vtb = [x.vtb EXCEPT !.gmr = g]
          /\ r.x.acc = [x.acc EXCEPT !.gmr = @ \cup {g}]
          /\ r.x.dev = [x.dev EXCEPT !.gmr[g] = x.vtb.md]
      BY <1>1, <2>5, <3>1, <3>2 DEF Shape
    <3>4. /\ Shape(r.x) /\ r.x.vtb.gmr = g /\ r.x.vtb.md = x.vtb.md /\ r.x.vtb.tag = x.vtb.tag
          /\ r.x.acc.gmr = x.acc.gmr \cup {g} /\ r.x.acc.vram = x.acc.vram
          /\ r.x.acc.lost = x.acc.lost /\ r.x.acc.wired = x.acc.wired
          /\ r.x.acc.streams = x.acc.streams /\ r.x.dev.queue = x.dev.queue
          /\ r.x.dev.gmr = [x.dev.gmr EXCEPT ![g] = x.vtb.md]
      BY <1>1, <3>3 DEF Shape, IsDevice, BufferFields, AccelFields, DeviceFields
    <3>5. Fine(r.x, R) /\ Clear(r.x, R)
      BY <3>3, <3>4, RegionMade
    <3> QED BY <3>1, <3>3, <3>4, <3>5
  <2> QED
    BY <2>4, <2>6, <2>7 DEF createGMR
<1> QED
  BY <1>2, <1>3

LEMMA DescribeGives ==
  ASSUME NEW x, NEW R, Bare(x, R), x.vtb.gmr \notin GmrIds, NEW gart, NEW r \in Describe(x, gart)
  PROVE  Fine(r.x, R) /\ r.ok \in BOOLEAN /\ (r.ok => isBackingValid(r.x))
<1>1. Shape(x)
  BY DEF Bare, Core
<1>2. CASE r = [ok |-> FALSE, x |-> x]
  BY <1>2 DEF Bare, Fine, Clear
<1>3. CASE r # [ok |-> FALSE, x |-> x]
  <2> DEFINE With(md) == [x EXCEPT !.acc.wired = @ \cup {md}, !.vtb.md = md]
             Made(p) == [p.x EXCEPT !.vtb.gart = gart, !.vtb.fence = FALSE]
             Out(p) == IF p.ok THEN [ok |-> TRUE, x |-> Made(p)] ELSE [ok |-> FALSE, x |-> discard(p.x)]
  <2>1. Describe(x, gart) = {[ok |-> FALSE, x |-> x]}
                            \cup UNION {{Out(p) : p \in prepare(With(md))} : md \in Wired \ x.acc.wired}
    BY Zenon DEF Describe
  <2>2. ASSUME NEW md \in Wired \ x.acc.wired PROVE Wanting(With(md), R)
    <3> DEFINE y == With(md)
    <3>1. /\ DOMAIN y = DOMAIN x /\ y.sf = x.sf /\ y.dev = x.dev
          /\ y.vtb = [x.vtb EXCEPT !.md = md] /\ y.acc = [x.acc EXCEPT !.wired = @ \cup {md}]
      BY <1>1 DEF Shape
    <3> HIDE DEF y
    <3>2. /\ Shape(y) /\ y.vtb.gmr = x.vtb.gmr /\ y.vtb.md = md /\ y.vtb.tag = x.vtb.tag
          /\ y.acc.gmr = x.acc.gmr /\ y.acc.vram = x.acc.vram /\ y.acc.lost = x.acc.lost
          /\ y.acc.wired = x.acc.wired \cup {md} /\ y.acc.streams = x.acc.streams
      BY <1>1, <3>1 DEF Shape, BufferFields, AccelFields
    <3>3. md # NoId /\ Region(y.vtb) = Region(x.vtb) /\ Descriptor(y.vtb) = {md} /\ Descriptor(x.vtb) = {}
      BY <3>2, PoolAssumption DEF Bare, Region, Descriptor
    <3>4. Accounted(y, R)
      BY <3>1, <3>2, <3>3 DEF Bare, Core, Accounted, Part
    <3>5. Regions(y, R)
      BY <3>1, <3>2 DEF Bare, Core, Regions
    <3>6. Wanting(y, R)
      BY <3>1, <3>2, <3>3, <3>4, <3>5 DEF Bare, Core, Clear, Wanting
    <3> QED BY <3>6 DEF y
  <2>3. PICK md \in Wired \ x.acc.wired : \E p \in prepare(With(md)) : r = Out(p)
    <3> HIDE DEF Out, With
    <3> QED BY <1>3, <2>1
  <2> DEFINE w == With(md)
  <2>4. Wanting(w, R)
    BY <2>2
  <2>5. PICK p \in prepare(w) : r = Out(p)
    BY <2>3
  <2> HIDE DEF w, Made
  <2>6. /\ p.ok \in BOOLEAN /\ (p.ok => Fine(p.x, R) /\ Clear(p.x, R)) /\ (~p.ok => Wanting(p.x, R))
        /\ p.x.vtb.md = w.vtb.md /\ w.vtb.md # NoId
    BY <2>4, PrepareGives DEF Wanting
  <2>7. CASE p.ok
    <3>1. r.ok = TRUE /\ r.x = Made(p)
      BY <2>5, <2>7
    <3> DEFINE y == p.x
               z == Made(p)
    <3>2. Fine(y, R) /\ Clear(y, R) /\ Shape(y) /\ y.vtb.md # NoId
      BY <2>6, <2>7 DEF Fine, Core
    <3>3. /\ Shape(z) /\ z.sf = y.sf /\ z.acc = y.acc /\ z.dev = y.dev /\ z.vtb.md = y.vtb.md
          /\ z.vtb.gmr = y.vtb.gmr /\ z.vtb.tag = y.vtb.tag
      BY <3>2 DEF Made, Shape, BufferFields
    <3> HIDE DEF y, z
    <3>4. Core(z, R)
      BY <3>2, <3>3 DEF Fine, Core, Accounted, Regions, Descriptor, Region
    <3>5. Fine(z, R)
      BY <3>2, <3>3, <3>4 DEF Fine, Clear
    <3> QED BY <3>1, <3>2, <3>3, <3>5 DEF isBackingValid, z
  <2>8. CASE ~p.ok
    <3>1. r.ok = FALSE /\ r.x = discard(p.x)
      BY <2>5, <2>8
    <3>2. Core(r.x, R) /\ Clear(r.x, R) /\ r.x.vtb.md = NoId
      BY <2>6, <2>8, <3>1, DiscardHolds DEF Wanting
    <3> QED BY <3>1, <3>2 DEF Fine, Clear
  <2> QED BY <2>6, <2>7, <2>8
<1> QED
  BY <1>2, <1>3

LEMMA UnmapPlain ==
  ASSUME NEW x, NEW y, Plain(x, y), NEW i PROVE Plain(x, releaseBackingMap(y, i))
<1>1. releaseBackingMap(y, i) = [y EXCEPT !.sf.map = [@ EXCEPT ![i] = NoId]]
  BY DEF releaseBackingMap
<1>2. Plain(x, [y EXCEPT !.sf.map = [y.sf.map EXCEPT ![i] = NoId]])
  BY PutPlain, Zenon
<1> QED
  BY <1>1, <1>2

\* A surface without region and descriptor, of which nothing is queued.
Emptied(x, R) == Core(x, R) /\ Clear(x, R) /\ x.vtb.md = NoId /\ x.vtb.gmr \notin GmrIds

LEMMA NoneEmptied ==
  ASSUME NEW x, NEW R, Fine(x, R), ~isBackingValid(x) PROVE Emptied(x, R) /\ Bare(x, R)
BY DEF Fine, Emptied, Bare, Clear, Core, Regions, Mine, isBackingValid

LEMMA ReleasedEmptied ==
  ASSUME NEW x, NEW R, Fine(x, R)
  PROVE  Emptied(releaseBacking(x), R) /\ Bare(releaseBacking(x), R)
<1>1. Bare(releaseBacking(x), R)
  BY ReleaseGives
<1> QED
  BY <1>1 DEF Bare, Emptied, Core, Regions

LEMMA WrapGives ==
  ASSUME NEW x, NEW R, Fine(x, R), NEW r \in wrapClientBacking(x)
  PROVE  Fine(r.x, R) /\ r.ok \in BOOLEAN /\ (r.ok => isBackingValid(r.x))
<1> DEFINE y == IF classifyBacking(x) = "none" THEN x ELSE releaseBacking(x)
           z == [y EXCEPT !.sf.fit = "fits"]
<1>1. \/ classifyBacking(x) = "client" /\ r = [ok |-> TRUE, x |-> x]
      \/ r \in Describe(z, 1)
  BY DEF wrapClientBacking
<1>2. Bare(y, R) /\ y.vtb.gmr \notin GmrIds
  <2>1. CASE classifyBacking(x) = "none"
    <3>1. ~isBackingValid(x)
      BY <2>1 DEF classifyBacking, isBackingValid
    <3> QED BY <2>1, <3>1, NoneEmptied DEF Emptied
  <2>2. CASE classifyBacking(x) # "none"
    BY <2>2, ReleasedEmptied DEF Emptied
  <2> QED BY <2>1, <2>2
<1> HIDE DEF y
<1>3. Plain(y, z)
  BY <1>2, FieldsPlain, Zenon DEF Bare, Core
<1> HIDE DEF z
<1>4. Bare(z, R) /\ z.vtb.gmr \notin GmrIds
  BY <1>2, <1>3, PlainKeeps DEF Plain
<1>5. classifyBacking(x) = "client" => isBackingValid(x)
  BY DEF classifyBacking, isBackingValid
<1>6. CASE r \in Describe(z, 1)
  BY <1>4, <1>6, DescribeGives
<1>7. CASE classifyBacking(x) = "client" /\ r = [ok |-> TRUE, x |-> x]
  <2>1. r.x = x /\ r.ok = TRUE
    BY <1>7
  <2> QED BY <1>5, <1>7, <2>1
<1> QED
  BY <1>1, <1>6, <1>7

LEMMA ReallocGives ==
  ASSUME NEW y, NEW R, Emptied(y, R), NEW r \in VRAMRealloc(y, y.sf.self),
         NEW z, z = [r.x EXCEPT !.sf.self = r.ptr, !.sf.fit = "fits"],
         NEW p, p = [z EXCEPT !.vtb.gmr = VRAM, !.vtb.fence = FALSE]
  PROVE  /\ r.ptr = NoId => Bare(z, R) /\ z.vtb.gmr \notin GmrIds
         /\ r.ptr # NoId => Fine(p, R) /\ isBackingValid(p)
<1> DEFINE s == y.sf.self
<1>1. Shape(y)
  BY DEF Emptied, Core
<1>2. Accounted(y, R) /\ s \in Chunks \cup {NoId} /\ (s # NoId => s \in y.acc.vram /\ s \notin R.vram /\ s \notin y.acc.lost)
  BY DEF Emptied, Core, Accounted, Part, Block
<1>3. CASE r.ptr = NoId
  <2>1. r.x = [y EXCEPT !.acc.lost = @ \cup ({s} \ {NoId})]
    BY <1>3, PoolAssumption DEF VRAMRealloc
  <2>2. /\ DOMAIN r.x = DOMAIN y /\ r.x.sf = y.sf /\ r.x.vtb = y.vtb /\ r.x.dev = y.dev
        /\ r.x.acc = [y.acc EXCEPT !.lost = @ \cup ({s} \ {NoId})]
    BY <1>1, <2>1 DEF Shape
  <2>3. /\ DOMAIN z = DOMAIN y /\ z.vtb = y.vtb /\ z.dev = y.dev /\ z.acc = r.x.acc
        /\ z.sf = [y.sf EXCEPT !.self = NoId, !.fit = "fits"]
    BY <1>1, <1>3, <2>2 DEF Shape
  <2>4. /\ Shape(z) /\ z.sf.self = NoId /\ z.sf.state = y.sf.state /\ z.sf.enabled = y.sf.enabled
        /\ z.sf.stream = y.sf.stream /\ z.sf.video = y.sf.video /\ z.sf.lock = y.sf.lock
        /\ z.acc.gmr = y.acc.gmr /\ z.acc.vram = y.acc.vram
        /\ z.acc.lost = y.acc.lost \cup ({s} \ {NoId})
        /\ z.acc.wired = y.acc.wired /\ z.acc.streams = y.acc.streams
    BY <1>1, <2>2, <2>3 DEF Shape, SurfaceFields, AccelFields
  <2>5. Block(z.sf) = {} /\ Block(y.sf) = {s} \ {NoId} /\ Stream(z.sf) = Stream(y.sf)
    BY <2>4 DEF Block, Stream
  <2>6. Accounted(z, R)
    <3>1. s \notin StreamIds
      BY <1>2, PoolAssumption
    <3>2. /\ Part(z.acc.wired, R.wired, Descriptor(z.vtb), {}, Wired)
          /\ Part(z.acc.gmr, R.gmr, Region(z.vtb), {}, GmrIds)
      BY <1>2, <2>3, <2>4 DEF Accounted
    <3>3. Part(z.acc.streams, R.streams, Stream(z.sf), z.acc.lost, StreamIds)
      BY <1>2, <2>4, <2>5, <3>1 DEF Accounted, Part
    <3>4. Part(z.acc.vram, R.vram, Block(z.sf), z.acc.lost, Chunks)
      BY <1>2, <2>4, <2>5 DEF Accounted, Part
    <3>5. z.acc.lost \subseteq Chunks \cup StreamIds
      BY <1>2, <2>4 DEF Accounted
    <3> QED BY <3>2, <3>3, <3>4, <3>5 DEF Accounted
  <2>7. Regions(z, R)
    BY <2>3, <2>4 DEF Emptied, Core, Regions
  <2> QED
    BY <1>3, <2>3, <2>4, <2>6, <2>7 DEF Emptied, Bare, Core, Clear
<1>4. CASE r.ptr # NoId
  <2> DEFINE c == r.ptr
  <2>1. c \in Chunks \ (y.acc.vram \ {s}) /\ r.x = [y EXCEPT !.acc.vram = (@ \ {s}) \cup {c}]
    BY <1>4 DEF VRAMRealloc
  <2>2. /\ DOMAIN r.x = DOMAIN y /\ r.x.sf = y.sf /\ r.x.vtb = y.vtb /\ r.x.dev = y.dev
        /\ r.x.acc = [y.acc EXCEPT !.vram = (@ \ {s}) \cup {c}]
    BY <1>1, <2>1 DEF Shape
  <2>3. /\ DOMAIN z = DOMAIN y /\ z.vtb = y.vtb /\ z.dev = y.dev /\ z.acc = r.x.acc
        /\ z.sf = [y.sf EXCEPT !.self = c, !.fit = "fits"]
    BY <1>1, <2>2 DEF Shape
  <2>4. /\ DOMAIN p = DOMAIN y /\ p.sf = z.sf /\ p.dev = y.dev /\ p.acc = z.acc
        /\ p.vtb = [y.vtb EXCEPT !.gmr = VRAM, !.fence = FALSE]
    BY <1>1, <2>3 DEF Shape
  <2>5. /\ Shape(p) /\ p.sf.self = c /\ p.sf.state = y.sf.state /\ p.sf.enabled = y.sf.enabled
        /\ p.sf.stream = y.sf.stream /\ p.sf.video = y.sf.video /\ p.sf.lock = y.sf.lock
        /\ p.acc.gmr = y.acc.gmr /\ p.acc.vram = (y.acc.vram \ {s}) \cup {c}
        /\ p.acc.lost = y.acc.lost
        /\ p.acc.wired = y.acc.wired /\ p.acc.streams = y.acc.streams
        /\ p.vtb.gmr = VRAM /\ p.vtb.md = NoId /\ p.vtb.tag = y.vtb.tag
    <3>1. Shape(y) /\ DOMAIN p = DOMAIN y /\ p.dev = y.dev /\ y.vtb.md = NoId
      BY <1>1, <2>4, <2>3 DEF Emptied
    <3>2. p.sf = [y.sf EXCEPT !.self = c, !.fit = "fits"]
      BY <2>3, <2>4
    <3>3. p.vtb = [y.vtb EXCEPT !.gmr = VRAM, !.fence = FALSE]
      BY <2>3, <2>4
    <3>4. p.acc = [y.acc EXCEPT !.vram = (@ \ {s}) \cup {c}]
      BY <2>2, <2>3, <2>4
    <3>5. DOMAIN y.sf = SurfaceFields /\ DOMAIN y.vtb = BufferFields /\ DOMAIN y.acc = AccelFields
      BY <3>1 DEF Shape
    <3>6. /\ DOMAIN p.sf = SurfaceFields /\ p.sf.self = c /\ p.sf.state = y.sf.state
          /\ p.sf.enabled = y.sf.enabled /\ p.sf.stream = y.sf.stream
          /\ p.sf.video = y.sf.video /\ p.sf.lock = y.sf.lock
      <4>1. \A f \in SurfaceFields :
               p.sf[f] = IF f = "fit" THEN "fits" ELSE IF f = "self" THEN c ELSE y.sf[f]
        BY <3>2, <3>5
      <4>2. {"self", "state", "enabled", "stream", "video", "lock"} \subseteq SurfaceFields
        BY DEF SurfaceFields
      <4>3. DOMAIN p.sf = SurfaceFields
        BY <3>2, <3>5
      <4> QED
        BY <4>1, <4>2, <4>3
    <3>7. /\ DOMAIN p.vtb = BufferFields
          /\ p.vtb.gmr = VRAM /\ p.vtb.md = NoId /\ p.vtb.tag = y.vtb.tag
      <4>1. \A f \in BufferFields :
               p.vtb[f] = IF f = "fence" THEN FALSE ELSE IF f = "gmr" THEN VRAM ELSE y.vtb[f]
        BY <3>3, <3>5
      <4>2. {"gmr", "md", "tag"} \subseteq BufferFields
        BY DEF BufferFields
      <4>3. DOMAIN p.vtb = BufferFields
        BY <3>3, <3>5
      <4> QED
        BY <3>1, <4>1, <4>2, <4>3
    <3>8. /\ DOMAIN p.acc = AccelFields
          /\ p.acc.gmr = y.acc.gmr /\ p.acc.vram = (y.acc.vram \ {s}) \cup {c}
          /\ p.acc.lost = y.acc.lost
          /\ p.acc.wired = y.acc.wired /\ p.acc.streams = y.acc.streams
      BY <3>4, <3>5 DEF AccelFields
    <3> QED
      BY <3>1, <3>6, <3>7, <3>8 DEF Shape
  <2>6. /\ Block(p.sf) = {c} /\ Block(y.sf) = {s} \ {NoId} /\ Stream(p.sf) = Stream(y.sf)
        /\ Region(p.vtb) = Region(y.vtb) /\ Descriptor(p.vtb) = Descriptor(y.vtb)
    BY <1>4, <2>5, PoolAssumption, SMTT(60) DEF Emptied, Block, Stream, Region, Descriptor
  <2>7. Accounted(p, R)
    <3>1. Part(p.acc.vram, R.vram, {c}, p.acc.lost, Chunks)
      <4>1. Part(y.acc.vram, R.vram, {s} \ {NoId}, y.acc.lost, Chunks)
        BY <1>2, <2>6 DEF Accounted
      <4>2. NoId \notin y.acc.vram /\ NoId \notin Chunks
        BY <4>1, PoolAssumption DEF Part
      <4> DEFINE v == y.acc.vram
                 l == y.acc.lost
      <4>3. /\ v = R.vram \cup ({s} \ {NoId}) \cup (l \cap Chunks) /\ R.vram \subseteq Chunks
            /\ ({s} \ {NoId}) \cap R.vram = {} /\ ({s} \ {NoId}) \cap l = {} /\ R.vram \cap l = {}
        BY <4>1 DEF Part
      <4>4. c \in Chunks /\ (c = s \/ c \notin v) /\ c # NoId
        BY <1>4, <2>1
      <4>5. c \notin R.vram /\ c \notin l
        <5>1. CASE c = s
          BY <4>3, <4>4, <5>1
        <5>2. CASE c \notin v
          BY <4>3, <4>4, <5>2
        <5> QED BY <4>4, <5>1, <5>2
      <4>6. v \ {s} = R.vram \cup (l \cap Chunks)
        <5>1. CASE s = NoId
          BY <4>2, <4>3, <5>1, PoolAssumption
        <5>2. CASE s # NoId
          BY <4>3, <5>2
        <5> QED BY <5>1, <5>2
      <4>7. p.acc.vram = R.vram \cup {c} \cup (l \cap Chunks) /\ p.acc.lost = l
        BY <2>5, <4>6
      <4> HIDE DEF c, v, l
      <4> QED BY <4>3, <4>4, <4>5, <4>7 DEF Part
    <3> QED BY <1>2, <2>5, <2>6, <3>1 DEF Accounted
  <2>8. Regions(p, R)
    BY <2>4, <2>5, PoolAssumption DEF Emptied, Core, Regions
  <2>9. Core(p, R) /\ Clear(p, R)
    BY <2>4, <2>5, <2>7, <2>8 DEF Emptied, Core, Clear
  <2> QED
    BY <1>4, <2>5, <2>9 DEF Fine, Clear, isBackingValid
<1> QED
  BY <1>3, <1>4

LEMMA AllocGives ==
  ASSUME NEW x, NEW R, Fine(x, R), NEW p \in allocBacking(x)
  PROVE  Fine(p.x, R) /\ p.ok \in BOOLEAN /\ (p.ok => isBackingValid(p.x))
<1> DEFINE a == releaseBackingMap(releaseBackingMap(x, 0), 1)
           y == CASE classifyBacking(x) = "kernel" -> discard(complete(a))
                  [] classifyBacking(x) = "client" -> releaseBacking(x)
                  [] OTHER -> x
           Z(r) == [r.x EXCEPT !.sf.self = r.ptr, !.sf.fit = "fits"]
           P(r) == [Z(r) EXCEPT !.vtb.gmr = VRAM, !.vtb.fence = FALSE]
           Out(r) == IF r.ptr = NoId THEN allocGMRBacking(Z(r)) ELSE {[ok |-> TRUE, x |-> P(r)]}
<1>1. Shape(x)
  BY DEF Fine, Core
<1>2. classifyBacking(x) \in {"kernel", "none", "client"}
  BY DEF classifyBacking
<1>3. classifyBacking(x) # "none" <=> isBackingValid(x)
  BY DEF classifyBacking, isBackingValid
<1>4. Emptied(y, R)
  <2>1. Fine(a, R)
    <3>1. Plain(x, a)
      BY <1>1, FieldsPlain, UnmapPlain
    <3> QED BY <3>1, PlainKeeps
  <2> DEFINE b == complete(a)
  <2>2. Core(b, R) /\ Clear(b, R) /\ b.vtb.gmr \notin GmrIds
    <3> HIDE DEF a
    <3> QED BY <2>1, CompleteGives
  <2> HIDE DEF b
  <2>3. Emptied(discard(b), R)
    BY <2>2, DiscardHolds DEF Emptied
  <2> HIDE DEF a
  <2> QED BY <1>2, <1>3, <2>3, NoneEmptied, ReleasedEmptied DEF b
<1>5. allocBacking(x) =
        IF x.sf.client THEN wrapClientBacking(x)
        ELSE IF classifyBacking(x) = "kernel" /\ ~hasSourceGrown(x) THEN {[ok |-> TRUE, x |-> x]}
        ELSE UNION {Out(r) : r \in VRAMRealloc(y, y.sf.self)}
  BY Zenon DEF allocBacking
<1> HIDE DEF y, Out
<1>6. \/ p \in wrapClientBacking(x)
      \/ classifyBacking(x) = "kernel" /\ p = [ok |-> TRUE, x |-> x]
      \/ \E r \in VRAMRealloc(y, y.sf.self) : p \in Out(r)
  BY <1>5
<1>7. CASE p \in wrapClientBacking(x)
  BY <1>7, WrapGives
<1>8. CASE classifyBacking(x) = "kernel" /\ p = [ok |-> TRUE, x |-> x]
  BY <1>3, <1>8
<1>9. CASE \E r \in VRAMRealloc(y, y.sf.self) : p \in Out(r)
  <2>1. PICK r \in VRAMRealloc(y, y.sf.self) : p \in Out(r)
    BY <1>9
  <2> DEFINE z == Z(r)
             q == P(r)
  <2>2. /\ r.ptr = NoId => Bare(z, R) /\ z.vtb.gmr \notin GmrIds
        /\ r.ptr # NoId => Fine(q, R) /\ isBackingValid(q)
    BY <1>4, ReallocGives
  <2>3. IF r.ptr = NoId THEN p \in Describe(z, 0) ELSE p = [ok |-> TRUE, x |-> q]
    BY <2>1 DEF Out, allocGMRBacking
  <2> HIDE DEF z, q
  <2>4. CASE r.ptr = NoId
    BY <2>2, <2>3, <2>4, DescribeGives
  <2>5. CASE r.ptr # NoId
    <3>1. p.x = q /\ p.ok = TRUE
      BY <2>3, <2>5
    <3> QED BY <2>2, <2>5, <3>1
  <2> QED BY <2>4, <2>5
<1> QED
  BY <1>6, <1>7, <1>8, <1>9

LEMMA MapGives ==
  ASSUME NEW x, NEW R, Fine(x, R), NEW i, NEW r \in mapBacking(x, i)
  PROVE  Fine(r.x, R) /\ r.ok \in BOOLEAN
<1> DEFINE m == IF x.sf.self # NoId THEN x.sf.self ELSE x.vtb.md
           y == [x EXCEPT !.sf.map[i] = m]
<1>1. Plain(x, y)
  <2>1. Plain(x, [x EXCEPT !.sf.map = [x.sf.map EXCEPT ![i] = m]])
    BY FieldsPlain, Zenon DEF Fine, Core
  <2>2. y = [x EXCEPT !.sf.map = [x.sf.map EXCEPT ![i] = m]]
    OBVIOUS
  <2> QED BY <2>1, <2>2
<1>2. r \in {[ok |-> TRUE, x |-> x], [ok |-> FALSE, x |-> x], [ok |-> TRUE, x |-> y]}
  BY DEF mapBacking
<1> HIDE DEF y
<1>3. Fine(y, R)
  BY <1>1, PlainKeeps
<1>4. CASE r = [ok |-> TRUE, x |-> x]
  BY <1>4
<1>5. CASE r = [ok |-> FALSE, x |-> x]
  BY <1>5
<1>6. CASE r = [ok |-> TRUE, x |-> y]
  <2>1. r.x = y /\ r.ok = TRUE
    BY <1>6
  <2> QED BY <1>3, <2>1
<1> QED
  BY <1>2, <1>4, <1>5, <1>6

LEMMA AllocAndMapGives ==
  ASSUME NEW x, NEW R, Fine(x, R), NEW i, NEW r \in AllocAndMap(x, i)
  PROVE  Fine(r.x, R) /\ r.ok \in BOOLEAN
<1>1. PICK p \in allocBacking(x) : r \in IF p.ok THEN mapBacking(p.x, i) ELSE {p}
  BY DEF AllocAndMap
<1>2. Fine(p.x, R) /\ p.ok \in BOOLEAN
  BY <1>1, AllocGives
<1> QED
  BY <1>1, <1>2, MapGives

-----------------------------------------------------------------------------
(* Front buffers and drawing.                                              *)

\* The test for the blit bug gives back the block it takes.
LEMMA BlitBugPlain ==
  ASSUME NEW x, Shape(x), NEW R, Accounted(x, R), NEW z \in detectBlitBug(x) PROVE Plain(x, z)
<1> DEFINE y == createSurface(x, BlitBugSurface)
           Dma(m) == <<BeginSurfaceDMA(BlitBugSurface, [gmr |-> VRAM, mem |-> m.ptr, owner |-> NoId], NoId)>>
           After(m) == VRAMFree(SyncFIFO(Queue(m.x, Dma(m) \o Dma(m))), m.ptr)
           Out(m, b) == IF m.ptr = NoId
                        THEN [destroySurface(m.x, BlitBugSurface) EXCEPT !.acc.blitbug = "bug"]
                        ELSE [destroySurface(After(m), BlitBugSurface) EXCEPT !.acc.blitbug = b]
<1>1. Plain(x, y)
  BY FieldsPlain, CommandsPlain
<1>2. detectBlitBug(x) = {Out(m, b) : m \in VRAMMalloc(y), b \in {"none", "bug"}}
  BY DEF detectBlitBug
<1> HIDE DEF Out
<1>3. PICK m \in VRAMMalloc(y), b \in {"none", "bug"} : z = Out(m, b)
  BY <1>2
<1> HIDE DEF y
<1>4. CASE m.ptr = NoId
  <2>1. m.x = y
    BY <1>4, PoolAssumption DEF VRAMMalloc
  <2>2. z = [destroySurface(y, BlitBugSurface) EXCEPT !.acc.blitbug = "bug"]
    BY <1>3, <1>4, <2>1 DEF Out
  <2> QED BY <1>1, <2>2, CommandsPlain, PutPlain, Zenon
<1>5. CASE m.ptr # NoId
  <2> DEFINE c == m.ptr
             w == SyncFIFO(Queue(m.x, Dma(m) \o Dma(m)))
             v == VRAMFree(w, c)
  <2>1. c \in Chunks \ y.acc.vram /\ m.x = [y EXCEPT !.acc.vram = @ \cup {c}]
    BY <1>5 DEF VRAMMalloc
  <2>2. Shape(y)
    BY <1>1, PlainShape
  <2>3. /\ Shape(m.x) /\ m.x.sf = y.sf /\ m.x.vtb = y.vtb /\ m.x.dev = y.dev
        /\ m.x.acc = [y.acc EXCEPT !.vram = @ \cup {c}]
    BY <2>1, <2>2 DEF Shape, AccelFields
  <2>4. Plain(m.x, w)
    <3> DEFINE d == Dma(m)[1]
    <3>1. d.ref.owner = NoId
      BY DEF BeginSurfaceDMA
    <3> HIDE DEF d
    <3>2. <<d>> \in Seq({d})
      OBVIOUS
    <3> DEFINE cmds == Dma(m) \o Dma(m)
    <3>3. Dma(m) = <<d>>
      BY DEF d
    <3>4. cmds \in Seq({d})
      BY <3>2, <3>3
    <3> HIDE DEF cmds
    <3>5. \A i \in DOMAIN cmds : cmds[i] = d
      BY <3>4
    <3>6. Plain(m.x, Queue(m.x, cmds))
      <4>1. Plain(m.x, m.x)
        BY <2>3, FieldsPlain
      <4>2. \A i \in DOMAIN cmds : cmds[i].op \notin {"dma", "gmrfb"} \/ cmds[i].ref.owner = NoId
        BY <3>1, <3>5
      <4> QED BY <3>4, <4>1, <4>2, QueuePlain
    <3> QED BY <3>6, WaitPlain DEF cmds
  <2> HIDE DEF w
  <2>5. /\ Shape(v) /\ v.sf = w.sf /\ v.vtb = w.vtb /\ v.dev = w.dev
        /\ v.acc = [w.acc EXCEPT !.vram = @ \ {c}]
    BY <2>4 DEF Plain, Shape, VRAMFree, AccelFields
  <2>6. /\ v.acc.vram = y.acc.vram /\ v.acc.lost = y.acc.lost /\ v.acc.wired = y.acc.wired
        /\ v.acc.gmr = y.acc.gmr /\ v.acc.streams = y.acc.streams
    <3>1. /\ v.acc.vram = w.acc.vram \ {c} /\ v.acc.lost = w.acc.lost /\ v.acc.wired = w.acc.wired
          /\ v.acc.gmr = w.acc.gmr /\ v.acc.streams = w.acc.streams
      BY <2>4, <2>5 DEF Plain, Shape, AccelFields
    <3>2. /\ m.x.acc.vram = y.acc.vram \cup {c} /\ m.x.acc.lost = y.acc.lost
          /\ m.x.acc.wired = y.acc.wired /\ m.x.acc.gmr = y.acc.gmr /\ m.x.acc.streams = y.acc.streams
      BY <2>2, <2>3 DEF Shape, AccelFields
    <3> QED BY <2>1, <2>4, <3>1, <3>2 DEF Plain
  <2>7. Plain(y, v)
    BY <2>3, <2>4, <2>5, <2>6 DEF Plain
  <2>8. z = [destroySurface(v, BlitBugSurface) EXCEPT !.acc.blitbug = b]
    BY <1>3, <1>5 DEF Out, w
  <2> HIDE DEF v
  <2>9. Plain(x, v)
    BY <1>1, <2>7, PlainTrans
  <2> QED BY <2>8, <2>9, CommandsPlain, PutPlain, Zenon
<1> QED
  BY <1>4, <1>5

LEMMA Start3DPlain ==
  ASSUME NEW x, Shape(x), NEW R, Accounted(x, R), NEW r \in Start3D(x) PROVE Plain(x, r)
<1> DEFINE y == [x EXCEPT !.sf.screen = hw.screen]
           z == [retainMasterSurface(y) EXCEPT !.sf.master = TRUE]
<1>1. Plain(x, y)
  BY FieldsPlain, Zenon
<1>2. Plain(x, z)
  BY <1>1, MasterPlain, PutPlain, Zenon
<1> HIDE DEF y, z
<1>3. \/ r = y
      \/ r = [z EXCEPT !.sf.direct = TRUE]
      \/ \E k \in detectBlitBug(z) \cup {z} : r = [k EXCEPT !.sf.direct = k.acc.blitbug = "none"]
  BY DEF Start3D, y, z
<1>4. ASSUME NEW k \in detectBlitBug(z) \cup {z} PROVE Plain(x, k)
  <2>1. Accounted(z, R) /\ Shape(z)
    <3>1. Shape(z)
      BY <1>2, PlainShape
    <3>2. Block(z.sf) = Block(x.sf) /\ Descriptor(z.vtb) = Descriptor(x.vtb)
          /\ Region(z.vtb) = Region(x.vtb) /\ Stream(z.sf) = Stream(x.sf)
      BY <1>2 DEF Plain, Block, Descriptor, Region, Stream
    <3> QED BY <1>2, <3>1, <3>2 DEF Accounted, Plain
  <2> QED BY <1>2, <1>4, <2>1, BlitBugPlain, PlainTrans
<1>5. ASSUME NEW k, Plain(x, k) PROVE \A v : Plain(x, [k EXCEPT !.sf.direct = v])
  BY <1>5, PutPlain, Zenon
<1>6. CASE r = y
  BY <1>1, <1>6
<1>7. CASE r = [z EXCEPT !.sf.direct = TRUE]
  BY <1>2, <1>5, <1>7
<1>8. CASE \E k \in detectBlitBug(z) \cup {z} : r = [k EXCEPT !.sf.direct = k.acc.blitbug = "none"]
  <2>1. PICK k \in detectBlitBug(z) \cup {z} : r = [k EXCEPT !.sf.direct = k.acc.blitbug = "none"]
    BY <1>8
  <2>2. Plain(x, [k EXCEPT !.sf.direct = k.acc.blitbug = "none"])
    BY <1>4, <1>5, Zenon
  <2> QED BY <2>1, <2>2
<1> QED
  BY <1>3, <1>6, <1>7, <1>8

LEMMA Cleanup3DPlain == ASSUME NEW x, NEW y, Plain(x, y) PROVE Plain(x, Cleanup3D(y))
<1> DEFINE z == IF y.sf.master THEN releaseMasterSurface(y) ELSE y
<1>1. Plain(x, z)
  BY MasterPlain
<1> HIDE DEF z
<1>2. Plain(x, [z EXCEPT !.sf.master = FALSE, !.sf.screen = FALSE])
  BY <1>1, PutPlain, Zenon
<1> QED
  BY <1>2 DEF Cleanup3D, z

\* A transfer of the surface: it names the backing of this moment, and its
\* fence is remembered.
LEMMA TransferFine ==
  ASSUME NEW x, NEW R, Fine(x, R), NEW y, Plain(x, y), isBackingValid(x),
         NEW c, "fence" \in DOMAIN c, c.fence = x.vtb.tag, c.ref = Ref(x),
         NEW z, z = [Queue(y, <<c>>) EXCEPT !.vtb.fence = TRUE]
  PROVE  Fine(z, R)
<1> DEFINE q == Queue(y, <<c>>)
<1>1. Shape(y) /\ Fine(y, R)
  BY PlainKeeps DEF Plain
<1>2. <<c>> \in Seq({c}) /\ \A i \in DOMAIN <<c>> : <<c>>[i] = c
  OBVIOUS
<1>3. /\ q = [y EXCEPT !.dev = q.dev] /\ IsDevice(q.dev) /\ q.dev.gmr = y.dev.gmr
      /\ Pending(q.dev.queue) \subseteq Pending(y.dev.queue) \cup Pending(<<c>>)
  BY <1>1, <1>2, QueueGives DEF Shape, IsDevice
<1>4. Pending(<<c>>) \subseteq {c}
  BY <1>2 DEF Pending
<1> HIDE DEF q
<1>5. /\ DOMAIN z = DOMAIN y /\ z.sf = y.sf /\ z.vtb = [y.vtb EXCEPT !.fence = TRUE] /\ z.acc = y.acc
      /\ z.dev = q.dev
  BY <1>1, <1>3 DEF Shape, q
<1>6. /\ Shape(z) /\ z.vtb.fence = TRUE /\ z.vtb.gmr = y.vtb.gmr /\ z.vtb.md = y.vtb.md
      /\ z.vtb.tag = y.vtb.tag
  BY <1>1, <1>3, <1>5 DEF Shape, BufferFields
<1>7. Core(z, R)
  <2>1. Region(z.vtb) = Region(y.vtb) /\ Descriptor(z.vtb) = Descriptor(y.vtb)
    BY <1>6 DEF Region, Descriptor
  <2>2. Accounted(z, R)
    BY <1>1, <1>5, <2>1 DEF Fine, Core, Accounted
  <2>3. Regions(z, R)
    BY <1>1, <1>3, <1>5, <1>6 DEF Fine, Core, Regions
  <2> QED BY <1>1, <1>5, <1>6, <2>2, <2>3 DEF Fine, Core
<1>8. Mine(z.sf, z.vtb, c)
  BY <1>5, <1>6 DEF Mine, Ref, Memory, Plain, isBackingValid
<1>9. \A p : Mine(y.sf, y.vtb, p) => Mine(z.sf, z.vtb, p)
  BY <1>5, <1>6 DEF Mine
<1>10. \A p \in Pending(z.dev.queue) : p \in R.queue \/ p.ref.owner = NoId \/ Mine(z.sf, z.vtb, p)
  <2> TAKE p \in Pending(z.dev.queue)
  <2>1. p \in Pending(y.dev.queue) \/ p = c
    BY <1>3, <1>4, <1>5
  <2>2. CASE p = c
    BY <1>8, <2>2
  <2>3. CASE p \in Pending(y.dev.queue)
    BY <1>1, <1>9, <2>3 DEF Fine
  <2> QED BY <2>1, <2>2, <2>3
<1> QED
  BY <1>1, <1>6, <1>7, <1>10 DEF Fine

\* The four ways a surface is drawn, and what follows the transfer.
LEMMA DrawFine ==
  ASSUME NEW x, NEW R, Fine(x, R), isBackingValid(x)
  PROVE  /\ Fine(DMAOutDirect(x), R) /\ Fine(ScreenObjectOutDirect(x), R)
         /\ Fine(DMAOutWithCopy(x), R) /\ Fine(DMAOutStretchWithCopy(x), R)
         /\ Fine(ScreenObjectOutVia3D(x), R)
         /\ Fine([blitFromScreen(x, Ref(x), x.vtb.tag) EXCEPT !.vtb.fence = TRUE], R)
<1>1. Shape(x) /\ Plain(x, x)
  BY FieldsPlain DEF Fine, Core
<1>2. \A a : /\ BeginSurfaceDMA(a, Ref(x), x.vtb.tag).ref = Ref(x)
             /\ BeginSurfaceDMA(a, Ref(x), x.vtb.tag).fence = x.vtb.tag
             /\ "fence" \in DOMAIN BeginSurfaceDMA(a, Ref(x), x.vtb.tag)
  BY DEF BeginSurfaceDMA
<1>3. /\ BlitGMRFB(Ref(x), x.vtb.tag).ref = Ref(x) /\ BlitGMRFB(Ref(x), x.vtb.tag).fence = x.vtb.tag
      /\ "fence" \in DOMAIN BlitGMRFB(Ref(x), x.vtb.tag)
  BY DEF BlitGMRFB
<1>4. Fine(DMAOutDirect(x), R)
  BY <1>1, <1>2, TransferFine DEF DMAOutDirect, surfaceDMA2D
<1>5. /\ Fine(ScreenObjectOutDirect(x), R)
      /\ Fine([blitFromScreen(x, Ref(x), x.vtb.tag) EXCEPT !.vtb.fence = TRUE], R)
  BY <1>1, <1>3, TransferFine DEF ScreenObjectOutDirect, blitToScreen, blitFromScreen
<1>6. ASSUME NEW a PROVE Fine(Upload(x, a), R)
  <2>1. Plain(x, createSurface(x, a))
    BY <1>1, CommandsPlain
  <2> QED BY <1>2, <2>1, TransferFine DEF Upload, surfaceDMA2D
<1>7. ASSUME NEW a, NEW y, Plain(Upload(x, a), y) PROVE Fine(y, R)
  BY <1>6, <1>7, PlainKeeps
<1>8. \A a : Plain(Upload(x, a), Upload(x, a))
  BY <1>6, FieldsPlain DEF Fine, Core
<1>9. Fine(DMAOutWithCopy(x), R)
  BY <1>7, <1>8, CommandsPlain, Zenon DEF DMAOutWithCopy
<1>10. Fine(DMAOutStretchWithCopy(x), R)
  BY <1>7, <1>8, CommandsPlain, Zenon DEF DMAOutStretchWithCopy
<1>11. Fine(ScreenObjectOutVia3D(x), R)
  BY <1>7, <1>8, CommandsPlain, Zenon DEF ScreenObjectOutVia3D
<1> QED
  BY <1>4, <1>5, <1>9, <1>10, <1>11

-----------------------------------------------------------------------------
(* Overlays.                                                               *)

LEMMA ReshapePlain == ASSUME NEW x, NEW y, Plain(x, y) PROVE Plain(x, videoReshape(y))
BY CommandsPlain, PutPlain, Zenon DEF videoReshape

\* A call that differs from another in its stream only.
LEMMA StreamFine ==
  ASSUME NEW x, NEW R, Fine(x, R), NEW y, Shape(y), y.vtb = x.vtb, y.dev = x.dev,
         y.sf.state = x.sf.state, y.sf.self = x.sf.self, y.sf.lock = x.sf.lock,
         y.acc.vram = x.acc.vram, y.acc.wired = x.acc.wired, y.acc.gmr = x.acc.gmr,
         y.sf.enabled => y.sf.video,
         y.acc.lost = x.acc.lost \cup (y.acc.lost \cap StreamIds),
         Part(y.acc.streams, R.streams, Stream(y.sf), y.acc.lost, StreamIds)
  PROVE  Fine(y, R)
<1>1. Block(y.sf) = Block(x.sf)
  BY DEF Block
<1>2. Accounted(x, R) /\ Core(x, R)
  BY DEF Fine, Core
<1>3. Part(y.acc.vram, R.vram, Block(y.sf), y.acc.lost, Chunks)
  BY <1>1, <1>2, PoolAssumption DEF Accounted, Part
<1>4. Accounted(y, R)
  BY <1>2, <1>3 DEF Accounted
<1>5. Regions(y, R)
  BY <1>2 DEF Core, Regions
<1>6. Core(y, R)
  BY <1>2, <1>4, <1>5 DEF Core
<1>7. \A q : Mine(x.sf, x.vtb, q) => Mine(y.sf, y.vtb, q)
  BY DEF Mine
<1> QED
  BY <1>6, <1>7 DEF Fine

LEMMA VideoOffGives ==
  ASSUME NEW x, NEW R, Fine(x, R), NEW y, y = surface_video_off(x)
  PROVE  Fine(y, R) /\ ~y.sf.enabled
<1>1. Shape(x) /\ Plain(x, x) /\ (x.sf.enabled => x.sf.video)
  BY FieldsPlain DEF Fine, Core
<1>2. CASE ~x.sf.video \/ ~x.sf.enabled
  BY <1>1, <1>2 DEF surface_video_off
<1>3. CASE x.sf.video /\ x.sf.enabled
  <2> DEFINE v == x.sf.stream
             q == VideoSetReg(x, v)
             f == FreeStreamID(q, v)
  <2>1. Plain(x, q) /\ Fine(q, R)
    BY <1>1, CommandsPlain, PlainKeeps
  <2>2. y = [f EXCEPT !.sf.enabled = FALSE, !.sf.stream = NoId]
    BY <1>3 DEF surface_video_off
  <2> HIDE DEF q
  <2>3. q.sf.enabled /\ q.sf.stream = v /\ Shape(q)
    BY <1>3, <2>1 DEF Plain
  <2>4. /\ DOMAIN f = DOMAIN q /\ f.sf = q.sf /\ f.vtb = q.vtb /\ f.dev = q.dev
        /\ f.acc = [q.acc EXCEPT !.streams = @ \ {v}]
    BY <2>3 DEF FreeStreamID, Shape
  <2> HIDE DEF f
  <2>5. /\ DOMAIN y = DOMAIN q /\ y.vtb = q.vtb /\ y.dev = q.dev /\ y.acc = f.acc
        /\ y.sf = [q.sf EXCEPT !.enabled = FALSE, !.stream = NoId]
    BY <2>2, <2>3, <2>4 DEF Shape
  <2>6. /\ Shape(y) /\ y.sf.state = q.sf.state /\ y.sf.self = q.sf.self /\ y.sf.lock = q.sf.lock
        /\ y.sf.enabled = FALSE /\ y.acc.vram = q.acc.vram /\ y.acc.wired = q.acc.wired
        /\ y.acc.gmr = q.acc.gmr /\ y.acc.lost = q.acc.lost /\ y.acc.streams = q.acc.streams \ {v}
    BY <2>3, <2>4, <2>5 DEF Shape, SurfaceFields, AccelFields
  <2>7. Stream(y.sf) = {} /\ Stream(q.sf) = {v}
    BY <2>3, <2>6 DEF Stream
  <2>8. Part(y.acc.streams, R.streams, Stream(y.sf), y.acc.lost, StreamIds)
    BY <2>1, <2>6, <2>7 DEF Fine, Core, Accounted, Part
  <2>9. y.acc.lost = q.acc.lost \cup (y.acc.lost \cap StreamIds)
    BY <2>6
  <2> QED BY <2>1, <2>5, <2>6, <2>8, <2>9, StreamFine
<1> QED
  BY <1>2, <1>3

LEMMA FlushVideoFine ==
  ASSUME NEW x, NEW R, Fine(x, R), NEW r \in surface_flush_video(x) PROVE Fine(r, R)
<1>1. Shape(x) /\ Plain(x, x)
  BY FieldsPlain DEF Fine, Core
<1> DEFINE On(a) == [a.x EXCEPT !.sf.stream = a.id, !.sf.enabled = TRUE]
           Shown(y, v) == [VideoSetRegsInRange(y, v, x.vtb.tag) EXCEPT !.vtb.fence = TRUE]
<1>2. ASSUME NEW y, Shape(y), NEW v PROVE Plain(y, Shown(y, v))
  <2>1. Plain(y, y)
    BY <1>2, FieldsPlain
  <2>2. Plain(y, VideoSetRegsInRange(y, v, x.vtb.tag))
    BY <2>1, CommandsPlain, Zenon
  <2> QED BY <2>2, PutPlain, Zenon
<1> HIDE DEF On, Shown
<1>3. \/ r = x
      \/ r = Shown(x, x.sf.stream)
      \/ x.sf.video /\ ~x.sf.enabled /\ r = [x EXCEPT !.sf.stream = NoId]
      \/ x.sf.video /\ ~x.sf.enabled /\ \E a \in AllocStreamID(x) : r = Shown(On(a), a.id)
  BY DEF surface_flush_video, On, Shown
<1>4. CASE r = Shown(x, x.sf.stream)
  BY <1>1, <1>2, <1>4, PlainKeeps
<1>5. CASE x.sf.video /\ ~x.sf.enabled /\ r = [x EXCEPT !.sf.stream = NoId]
  <2>1. /\ Shape(r) /\ r.vtb = x.vtb /\ r.dev = x.dev /\ r.acc = x.acc
        /\ r.sf.state = x.sf.state /\ r.sf.self = x.sf.self /\ r.sf.lock = x.sf.lock
        /\ r.sf.enabled = x.sf.enabled
    BY <1>1, <1>5 DEF Shape, SurfaceFields
  <2>2. Stream(r.sf) = {} /\ Stream(x.sf) = {}
    BY <1>5, <2>1 DEF Stream
  <2>3. Part(r.acc.streams, R.streams, Stream(r.sf), r.acc.lost, StreamIds)
    BY <2>1, <2>2 DEF Fine, Core, Accounted
  <2>4. r.acc.lost = x.acc.lost \cup (r.acc.lost \cap StreamIds)
    BY <2>1
  <2> QED BY <1>5, <2>1, <2>3, <2>4, StreamFine
<1>6. CASE x.sf.video /\ ~x.sf.enabled /\ \E a \in AllocStreamID(x) : r = Shown(On(a), a.id)
  <2>1. PICK a \in AllocStreamID(x) : r = Shown(On(a), a.id)
    BY <1>6
  <2> DEFINE v == a.id
             y == On(a)
  <2>2. v \in StreamIds \ x.acc.streams /\ a.x = [x EXCEPT !.acc.streams = @ \cup {v}]
    BY DEF AllocStreamID
  <2>3. /\ DOMAIN a.x = DOMAIN x /\ a.x.sf = x.sf /\ a.x.vtb = x.vtb /\ a.x.dev = x.dev
        /\ a.x.acc = [x.acc EXCEPT !.streams = @ \cup {v}]
    BY <1>1, <2>2 DEF Shape
  <2>4. /\ DOMAIN y = DOMAIN x /\ y.vtb = x.vtb /\ y.dev = x.dev /\ y.acc = a.x.acc
        /\ y.sf = [x.sf EXCEPT !.stream = v, !.enabled = TRUE]
    BY <1>1, <2>3 DEF Shape, On
  <2> HIDE DEF y
  <2>5. /\ Shape(y) /\ y.sf.state = x.sf.state /\ y.sf.self = x.sf.self /\ y.sf.lock = x.sf.lock
        /\ y.sf.enabled = TRUE /\ y.sf.stream = v /\ y.sf.video = x.sf.video
        /\ y.acc.vram = x.acc.vram /\ y.acc.wired = x.acc.wired
        /\ y.acc.gmr = x.acc.gmr /\ y.acc.lost = x.acc.lost /\ y.acc.streams = x.acc.streams \cup {v}
    BY <1>1, <2>3, <2>4 DEF Shape, SurfaceFields, AccelFields
  <2>6. Stream(y.sf) = {v} /\ Stream(x.sf) = {}
    BY <1>6, <2>5 DEF Stream
  <2>7. Part(y.acc.streams, R.streams, Stream(y.sf), y.acc.lost, StreamIds)
    BY <2>2, <2>5, <2>6 DEF Fine, Core, Accounted, Part
  <2>8. y.acc.lost = x.acc.lost \cup (y.acc.lost \cap StreamIds)
    BY <2>5
  <2>9. Fine(y, R)
    BY <1>6, <2>4, <2>5, <2>7, <2>8, StreamFine
  <2>10. r = Shown(y, v)
    BY <2>1 DEF y
  <2> QED BY <1>2, <2>5, <2>9, <2>10, PlainKeeps
<1> QED
  BY <1>3, <1>4, <1>5, <1>6

LEMMA SetSurfaceFine ==
  ASSUME NEW x, NEW R, Fine(x, R), NEW yuv, NEW r \in context_set_surface(x, yuv) PROVE Fine(r, R)
<1> DEFINE o == surface_video_off(x)
           y == [o EXCEPT !.sf.video = FALSE]
           w == [x EXCEPT !.sf.video = TRUE, !.sf.enabled = FALSE,
                          !.acc.lost = @ \cup (IF x.sf.enabled THEN {x.sf.stream} ELSE {})]
<1>1. Shape(x)
  BY DEF Fine, Core
<1>2. Fine(y, R)
  <2>1. Fine(o, R) /\ ~o.sf.enabled
    BY VideoOffGives
  <2> HIDE DEF o
  <2>2. Shape(o)
    BY <2>1 DEF Fine, Core
  <2>3. /\ Shape(y) /\ y.vtb = o.vtb /\ y.dev = o.dev /\ y.acc = o.acc
        /\ y.sf.state = o.sf.state /\ y.sf.self = o.sf.self /\ y.sf.lock = o.sf.lock
        /\ y.sf.enabled = o.sf.enabled
    BY <2>2 DEF Shape, SurfaceFields
  <2> HIDE DEF y
  <2>4. Stream(y.sf) = {} /\ Stream(o.sf) = {}
    BY <2>1, <2>3 DEF Stream
  <2>5. Part(y.acc.streams, R.streams, Stream(y.sf), y.acc.lost, StreamIds)
    BY <2>1, <2>3, <2>4 DEF Fine, Core, Accounted
  <2>6. y.acc.lost = o.acc.lost \cup (y.acc.lost \cap StreamIds)
    BY <2>3
  <2> QED BY <2>1, <2>3, <2>5, <2>6, StreamFine
<1>3. Fine(w, R)
  <2>1. /\ DOMAIN w = DOMAIN x /\ w.vtb = x.vtb /\ w.dev = x.dev
        /\ w.sf = [x.sf EXCEPT !.video = TRUE, !.enabled = FALSE]
        /\ w.acc = [x.acc EXCEPT !.lost = @ \cup Stream(x.sf)]
    BY <1>1 DEF Shape, Stream
  <2> HIDE DEF w
  <2>2. /\ Shape(w) /\ w.sf.state = x.sf.state /\ w.sf.self = x.sf.self /\ w.sf.lock = x.sf.lock
        /\ w.sf.enabled = FALSE /\ w.acc.vram = x.acc.vram /\ w.acc.wired = x.acc.wired
        /\ w.acc.gmr = x.acc.gmr /\ w.acc.lost = x.acc.lost \cup Stream(x.sf)
        /\ w.acc.streams = x.acc.streams
    BY <1>1, <2>1 DEF Shape, SurfaceFields, AccelFields
  <2>3. Part(x.acc.streams, R.streams, Stream(x.sf), x.acc.lost, StreamIds)
    BY DEF Fine, Core, Accounted
  <2>4. Stream(w.sf) = {}
    BY <2>2 DEF Stream
  <2>5. Part(w.acc.streams, R.streams, Stream(w.sf), w.acc.lost, StreamIds)
    BY <2>2, <2>3, <2>4 DEF Part
  <2>6. w.acc.lost = x.acc.lost \cup (w.acc.lost \cap StreamIds)
    BY <2>2, <2>3 DEF Part
  <2> QED BY <2>1, <2>2, <2>5, <2>6, StreamFine
<1>4. r \in {x, Cleanup3D(w), y} \/ r \in Start3D(y)
  BY DEF context_set_surface
<1> HIDE DEF y, w
<1>5. Plain(w, Cleanup3D(w))
  BY <1>3, FieldsPlain, Cleanup3DPlain DEF Fine, Core
<1>6. r \in Start3D(y) => Plain(y, r)
  BY <1>2, Start3DPlain DEF Fine, Core
<1> QED
  BY <1>2, <1>3, <1>4, <1>5, <1>6, PlainKeeps

-----------------------------------------------------------------------------
(* Locks, copies and the end of a surface.                                 *)

LEMMA LockPlain ==
  ASSUME NEW x, Shape(x), NEW bit
  PROVE  Plain(x, Unlock(x, bit)) /\ (bit # "write" => Plain(x, Lock(x, bit)))
BY DEF Plain, Shape, Lock, Unlock, IsDevice, SurfaceFields

LEMMA LockFine ==
  ASSUME NEW x, NEW R, Fine(x, R), R.write PROVE Fine(Lock(x, "write"), R)
<1> DEFINE y == Lock(x, "write")
<1>1. Shape(x)
  BY DEF Fine, Core
<1>2. /\ Shape(y) /\ y.vtb = x.vtb /\ y.dev = x.dev /\ y.acc = x.acc
      /\ y.sf.state = x.sf.state /\ y.sf.self = x.sf.self /\ y.sf.enabled = x.sf.enabled
      /\ y.sf.stream = x.sf.stream /\ y.sf.video = x.sf.video
  BY <1>1 DEF Shape, SurfaceFields, Lock
<1> HIDE DEF y
<1>3. Block(y.sf) = Block(x.sf) /\ Stream(y.sf) = Stream(x.sf)
  BY <1>2 DEF Block, Stream
<1>4. Core(y, R)
  BY <1>2, <1>3 DEF Fine, Core, Accounted, Regions
<1>5. \A q : Mine(x.sf, x.vtb, q) => Mine(y.sf, y.vtb, q)
  BY <1>2 DEF Mine
<1>6. Fine(y, R)
  BY <1>2, <1>4, <1>5 DEF Fine
<1> QED
  BY <1>6 DEF y

LEMMA LockMemoryFine ==
  ASSUME NEW x, NEW R, Fine(x, R), NEW z \in context_lock_memory(x) PROVE Fine(z, R)
<1> DEFINE l == Lock(x, "context")
           Out(r) == IF ~r.ok THEN {Unlock(r.x, "context")}
                     ELSE IF x.sf.video /\ (hw.screen \/ ~hw.d3) THEN setup_trick_buffer(r.x)
                     ELSE {r.x}
<1>1. Fine(l, R)
  BY LockPlain, PlainKeeps DEF Fine, Core
<1>2. context_lock_memory(x) \in {{x}, UNION {Out(r) : r \in AllocAndMap(l, 1)}}
  BY Zenon DEF context_lock_memory
<1> HIDE DEF l, Out
<1>3. CASE z = x
  BY <1>3
<1>4. CASE z # x
  <2>1. PICK r \in AllocAndMap(l, 1) : z \in Out(r)
    BY <1>2, <1>4
  <2>2. Fine(r.x, R)
    BY <1>1, AllocAndMapGives
  <2>3. z = Unlock(r.x, "context") \/ z \in setup_trick_buffer(r.x) \/ z = r.x
    BY <2>1 DEF Out
  <2>4. Plain(r.x, Unlock(r.x, "context"))
    BY <2>2, LockPlain DEF Fine, Core
  <2>5. ASSUME z \in setup_trick_buffer(r.x) PROVE Plain(r.x, z)
    <3> DEFINE y == r.x
    <3>1. Shape(y)
      BY <2>2 DEF Fine, Core
    <3>2. z = y \/ \E m \in {"trick", NoId} : z = [y EXCEPT !.sf.map = [@ EXCEPT ![0] = m]]
      BY <2>5 DEF setup_trick_buffer
    <3> HIDE DEF y
    <3>3. \A m : Plain(y, [y EXCEPT !.sf.map = [@ EXCEPT ![0] = m]])
      BY <3>1, FieldsPlain, Zenon
    <3>4. Plain(y, y)
      BY <3>1, FieldsPlain
    <3>5. Plain(y, z)
      BY <3>2, <3>3, <3>4, Zenon
    <3> QED BY <3>5 DEF y
  <2> QED BY <2>2, <2>3, <2>4, <2>5, PlainKeeps
<1> QED
  BY <1>3, <1>4

LEMMA UnlockMemoryFine ==
  ASSUME NEW x, NEW R, Fine(x, R) PROVE Fine(context_unlock_memory(x), R)
BY LockPlain, UnmapPlain, PlainKeeps DEF Fine, Core, context_unlock_memory

LEMMA CopyFine ==
  ASSUME NEW x, NEW R, Fine(x, R)
  PROVE  /\ \A z \in copy_framebuffer_region_to_self(x) : Fine(z, R)
         /\ \A f, b : \A z \in copy_surface_region_to_self(x, f, b) : Fine(z, R)
<1>1. \A r \in allocBacking(x) : Fine(r.x, R) /\ (r.ok => isBackingValid(r.x))
  BY AllocGives
<1>2. ASSUME NEW f, NEW b, NEW z \in copy_surface_region_to_self(x, f, b) PROVE Fine(z, R)
  <2>1. z = x \/ \E r \in allocBacking(x) : z = r.x
    BY <1>2 DEF copy_surface_region_to_self
  <2> QED BY <1>1, <2>1
<1>3. ASSUME NEW z \in copy_framebuffer_region_to_self(x) PROVE Fine(z, R)
  <2> DEFINE From(y) == [blitFromScreen(y, Ref(y), y.vtb.tag) EXCEPT !.vtb.fence = TRUE]
             Out(r) == IF ~r.ok THEN r.x
                       ELSE IF isPrimaryScreenActive(r.x) THEN sync(From(r.x))
                       ELSE IF r.x.sf.master THEN sync(DMAOutDirect(r.x)) ELSE r.x
  <2>1. copy_framebuffer_region_to_self(x) \in {{x}, {Out(r) : r \in allocBacking(x)}}
    BY Zenon DEF copy_framebuffer_region_to_self
  <2> HIDE DEF Out
  <2>2. z = x \/ \E r \in allocBacking(x) : z = Out(r)
    BY <1>3, <2>1
  <2>3. ASSUME NEW r \in allocBacking(x), z = Out(r) PROVE Fine(z, R)
    <3>1. Fine(r.x, R) /\ (r.ok => isBackingValid(r.x))
      BY <1>1, <2>3
    <3>2. r.ok => Fine(From(r.x), R) /\ Fine(DMAOutDirect(r.x), R)
      BY <3>1, DrawFine
    <3> HIDE DEF From
    <3>3. \/ z = r.x \/ (r.ok /\ z = sync(From(r.x))) \/ (r.ok /\ z = sync(DMAOutDirect(r.x)))
      BY <2>3 DEF Out
    <3> QED BY <3>1, <3>2, <3>3, SyncClear
  <2> QED BY <2>2, <2>3
<1> QED
  BY <1>2, <1>3

LEMMA CleanupGives ==
  ASSUME NEW x, NEW R, Fine(x, R), NEW y, y = Cleanup(x)
  PROVE  Bare(y, R) /\ ~y.sf.enabled
<1> DEFINE a == Cleanup3D(x)
           b == surface_video_off(a)
           c == releaseBacking(b)
<1>1. Fine(a, R)
  BY FieldsPlain, Cleanup3DPlain, PlainKeeps DEF Fine, Core
<1> HIDE DEF a
<1>2. Fine(b, R) /\ ~b.sf.enabled
  BY <1>1, VideoOffGives
<1> HIDE DEF b
<1>3. Bare(c, R) /\ ~c.sf.enabled
  BY <1>2, ReleaseGives
<1>4. y = [c EXCEPT !.sf.region = FALSE]
  BY DEF Cleanup, a, b
<1> HIDE DEF c
<1>5. Plain(c, y)
  <2>1. Shape(c)
    BY <1>3 DEF Bare, Core
  <2>2. Plain(c, [c EXCEPT !.sf.region = FALSE])
    BY <2>1, FieldsPlain, Zenon
  <2> QED BY <1>4, <2>2
<1> QED
  BY <1>3, <1>5, PlainKeeps DEF Plain

-----------------------------------------------------------------------------
(* All surfaces together.                                                  *)

\* have is what the surfaces hold, F telling for each, and what is lost.
All(F) == UNION {F[t] : t \in Surfaces}
Pool(have, F, lost, ids) ==
  /\ have = All(F) \cup (lost \cap ids)
  /\ \A t \in Surfaces : F[t] \subseteq ids /\ F[t] \cap lost = {}
  /\ \A t, u \in Surfaces : t # u => F[t] \cap F[u] = {}

Others(F, s) == UNION {F[t] : t \in Surfaces \ {s}}

LEMMA OthersGives ==
  ASSUME NEW s \in Surfaces, NEW F
  PROVE  All(F) = Others(F, s) \cup F[s]
<1>1. \A e : e \in All(F) <=> \E t \in Surfaces : e \in F[t]
  BY DEF All
<1>2. \A e : e \in Others(F, s) <=> \E t \in Surfaces \ {s} : e \in F[t]
  BY DEF Others
<1>3. \A e : e \in All(F) <=> e \in Others(F, s) \cup F[s]
  BY <1>1, <1>2
<1> QED
  BY <1>3

LEMMA PoolPart ==
  ASSUME NEW s \in Surfaces, NEW have, NEW F, NEW lost, NEW ids, Pool(have, F, lost, ids)
  PROVE  Part(have, Others(F, s), F[s], lost, ids)
<1>1. have = Others(F, s) \cup F[s] \cup (lost \cap ids)
  BY OthersGives DEF Pool
<1>2. Others(F, s) \subseteq ids /\ F[s] \subseteq ids
  BY DEF Pool, Others
<1>3. F[s] \cap Others(F, s) = {}
  <2> SUFFICES ASSUME NEW e \in F[s], NEW t \in Surfaces \ {s}, e \in F[t] PROVE FALSE
    BY DEF Others
  <2> QED BY DEF Pool
<1>4. F[s] \cap lost = {} /\ Others(F, s) \cap lost = {}
  <2> SUFFICES ASSUME NEW t \in Surfaces, NEW e \in F[t], e \in lost PROVE FALSE
    BY DEF Others
  <2> QED BY DEF Pool
<1> QED
  BY <1>1, <1>2, <1>3, <1>4 DEF Part

LEMMA PartPool ==
  ASSUME NEW s \in Surfaces, NEW have, NEW F, NEW lost, NEW ids, Pool(have, F, lost, ids),
         NEW now, NEW G, NEW gone, Part(now, Others(F, s), G[s], gone, ids),
         \A t \in Surfaces \ {s} : G[t] = F[t]
  PROVE  Pool(now, G, gone, ids)
<1>1. Others(F, s) = Others(G, s)
  BY Zenon DEF Others
<1>2. now = All(G) \cup (gone \cap ids)
  <2>1. now = Others(G, s) \cup G[s] \cup (gone \cap ids)
    BY <1>1 DEF Part
  <2> QED BY <2>1, OthersGives
<1>3. ASSUME NEW t \in Surfaces PROVE G[t] \subseteq ids /\ G[t] \cap gone = {}
  <2>1. CASE t = s
    BY <2>1 DEF Part
  <2>2. CASE t # s
    <3>1. G[t] \subseteq Others(F, s)
      BY <2>2 DEF Others
    <3> QED BY <3>1 DEF Part
  <2> QED BY <2>1, <2>2
<1>4. ASSUME NEW t \in Surfaces \ {s} PROVE G[t] \cap G[s] = {}
  <2>1. G[t] \subseteq Others(F, s)
    BY DEF Others
  <2> QED BY <2>1 DEF Part
<1>5. ASSUME NEW t \in Surfaces, NEW u \in Surfaces, t # u PROVE G[t] \cap G[u] = {}
  <2>1. CASE t = s
    BY <1>4, <1>5, <2>1
  <2>2. CASE u = s
    BY <1>4, <1>5, <2>2
  <2>3. CASE t # s /\ u # s
    BY <1>5, <2>3 DEF Pool
  <2> QED BY <2>1, <2>2, <2>3
<1> QED
  BY <1>2, <1>3, <1>5 DEF Pool

Blocks == [t \in Surfaces |-> Block(sf[t])]
Descriptors == [t \in Surfaces |-> Descriptor(vtb[t])]
GmrsHeld == [t \in Surfaces |-> Region(vtb[t])]
Streams == [t \in Surfaces |-> Stream(sf[t])]

\* What is there besides the surface s; w tells whether a write lock on it
\* need not be accounted for.
Rest(s, w) ==
  [vram |-> Others(Blocks, s), wired |-> Others(Descriptors, s), gmr |-> Others(GmrsHeld, s),
   streams |-> Others(Streams, s), map |-> dev.gmr,
   queue |-> {q \in Pending(dev.queue) : q.ref.owner \in Surfaces \ {s}}, tag |-> s, write |-> w]

\* One surface: a block excludes a region, a region has memory, what is not
\* open holds nothing.
Settles(f, b, t, map) ==
  /\ DOMAIN f = SurfaceFields /\ DOMAIN b = BufferFields /\ b.tag = t
  /\ f.self # NoId => b.gmr = VRAM /\ b.md = NoId
  /\ b.gmr \in GmrIds => b.md # NoId /\ map[b.gmr] = b.md
  /\ b.md # NoId => b.gmr \in GmrIds
  /\ f.enabled => f.video
  /\ f.state # "open" => f.self = NoId /\ b.md = NoId /\ ~f.enabled

AccountInv ==
  /\ DOMAIN acc = AccelFields /\ IsDevice(dev) /\ DOMAIN sf = Surfaces /\ DOMAIN vtb = Surfaces
  /\ Pool(acc.vram, Blocks, acc.lost, Chunks) /\ Pool(acc.wired, Descriptors, {}, Wired)
  /\ Pool(acc.gmr, GmrsHeld, {}, GmrIds) /\ Pool(acc.streams, Streams, acc.lost, StreamIds)
  /\ acc.lost \subseteq Chunks \cup StreamIds
  /\ \A g \in GmrIds \ acc.gmr : dev.gmr[g] = NoId
  /\ \A t \in Surfaces : Settles(sf[t], vtb[t], t, dev.gmr)
  /\ \A q \in Pending(dev.queue) :
        \/ q.ref.owner = NoId
        \/ q.ref.owner \in Surfaces /\ Mine(sf[q.ref.owner], vtb[q.ref.owner], q)

\* How a call on s may end.
Settled(x, R) ==
  /\ Shape(x) /\ Accounted(x, R)
  /\ \A g \in R.gmr : x.dev.gmr[g] = R.map[g]
  /\ \A g \in GmrIds \ x.acc.gmr : x.dev.gmr[g] = NoId
  /\ Settles(x.sf, x.vtb, R.tag, x.dev.gmr)
  /\ \A q \in Pending(x.dev.queue) : q \in R.queue \/ q.ref.owner = NoId \/ Mine(x.sf, x.vtb, q)

LEMMA FineSettled == ASSUME NEW x, NEW R, Fine(x, R) PROVE Settled(x, R)
BY DEF Fine, Core, Regions, Shape, Settled, Settles

LEMMA Pools ==
  ASSUME AccountInv
  PROVE  /\ Pool(acc.vram, Blocks, acc.lost, Chunks) /\ Pool(acc.wired, Descriptors, {}, Wired)
         /\ Pool(acc.gmr, GmrsHeld, {}, GmrIds) /\ Pool(acc.streams, Streams, acc.lost, StreamIds)
BY DEF AccountInv

LEMMA CallFine ==
  ASSUME AccountInv, NEW s \in Surfaces, NEW w
  PROVE  /\ sf[s].state = "open" /\ ("write" \in sf[s].lock => w) => Fine(Call(s), Rest(s, w))
         /\ Settled(Call(s), Rest(s, w))
         /\ sf[s].state # "open" =>
              \A q \in Pending(dev.queue) : q.ref.owner # NoId => q \in Rest(s, w).queue
<1> DEFINE x == Call(s)
           R == Rest(s, w)
<1>1. /\ DOMAIN x = {"acc", "dev", "sf", "vtb"} /\ x.acc = acc /\ x.dev = dev /\ x.sf = sf[s]
      /\ x.vtb = vtb[s]
  BY DEF Call
<1>2. /\ R.vram = Others(Blocks, s) /\ R.wired = Others(Descriptors, s) /\ R.gmr = Others(GmrsHeld, s)
      /\ R.streams = Others(Streams, s) /\ R.map = dev.gmr /\ R.tag = s /\ R.write = w
      /\ R.queue = {q \in Pending(dev.queue) : q.ref.owner \in Surfaces \ {s}}
  BY DEF Rest
<1>3. /\ Blocks[s] = Block(sf[s]) /\ Descriptors[s] = Descriptor(vtb[s])
      /\ GmrsHeld[s] = Region(vtb[s]) /\ Streams[s] = Stream(sf[s])
  BY DEF Blocks, Descriptors, GmrsHeld, Streams
<1> HIDE DEF x, R
<1>4. Accounted(x, R)
  <2>1. Part(acc.vram, R.vram, Block(sf[s]), acc.lost, Chunks)
    <3>1. Part(acc.vram, Others(Blocks, s), Blocks[s], acc.lost, Chunks)
      BY Pools, PoolPart
    <3> QED BY <1>2, <1>3, <3>1
  <2>2. Part(acc.wired, R.wired, Descriptor(vtb[s]), {}, Wired)
    <3>1. Part(acc.wired, Others(Descriptors, s), Descriptors[s], {}, Wired)
      BY Pools, PoolPart
    <3> QED BY <1>2, <1>3, <3>1
  <2>3. Part(acc.gmr, R.gmr, Region(vtb[s]), {}, GmrIds)
    <3>1. Part(acc.gmr, Others(GmrsHeld, s), GmrsHeld[s], {}, GmrIds)
      BY Pools, PoolPart
    <3> QED BY <1>2, <1>3, <3>1
  <2>4. Part(acc.streams, R.streams, Stream(sf[s]), acc.lost, StreamIds)
    <3>1. Part(acc.streams, Others(Streams, s), Streams[s], acc.lost, StreamIds)
      BY Pools, PoolPart
    <3> QED BY <1>2, <1>3, <3>1
  <2> QED BY <1>1, <2>1, <2>2, <2>3, <2>4 DEF Accounted, AccountInv
<1>5. Settles(x.sf, x.vtb, s, x.dev.gmr)
  BY <1>1 DEF AccountInv
<1>6. Shape(x)
  BY <1>1, <1>5 DEF Shape, AccountInv, Settles
<1>7. \A q \in Pending(x.dev.queue) : q \in R.queue \/ q.ref.owner = NoId \/ Mine(x.sf, x.vtb, q)
  BY <1>1, <1>2 DEF AccountInv
<1>8. Settled(x, R)
  BY <1>1, <1>2, <1>4, <1>5, <1>6, <1>7 DEF Settled, AccountInv
<1>9. sf[s].state = "open" /\ ("write" \in sf[s].lock => w) => Fine(x, R)
  BY <1>1, <1>2, <1>4, <1>5, <1>6, <1>7 DEF Fine, Core, Regions, Settles, AccountInv
<1>10. sf[s].state # "open" => \A q \in Pending(dev.queue) : q.ref.owner # NoId => q \in R.queue
  BY <1>1, <1>5, <1>7 DEF Settles, Mine
<1> QED
  BY <1>8, <1>9, <1>10 DEF x, R

LEMMA ReturnInv ==
  ASSUME AccountInv, NEW s \in Surfaces, NEW x, Return(s, x), NEW w, Settled(x, Rest(s, w))
  PROVE  AccountInv'
<1> DEFINE R == Rest(s, w)
<1>1. /\ R.vram = Others(Blocks, s) /\ R.wired = Others(Descriptors, s) /\ R.gmr = Others(GmrsHeld, s)
      /\ R.streams = Others(Streams, s) /\ R.map = dev.gmr /\ R.tag = s
      /\ R.queue = {q \in Pending(dev.queue) : q.ref.owner \in Surfaces \ {s}}
  BY DEF Rest
<1> HIDE DEF R
<1>2. Shape(x) /\ Accounted(x, R) /\ Settles(x.sf, x.vtb, s, x.dev.gmr)
  BY <1>1 DEF Settled, R
<1>3. /\ acc' = x.acc /\ dev' = x.dev /\ DOMAIN sf' = Surfaces /\ DOMAIN vtb' = Surfaces
      /\ sf'[s] = x.sf /\ vtb'[s] = x.vtb
      /\ \A t \in Surfaces \ {s} : sf'[t] = sf[t] /\ vtb'[t] = vtb[t]
  BY DEF Return, AccountInv
<1>4. /\ Blocks'[s] = Block(x.sf) /\ Descriptors'[s] = Descriptor(x.vtb)
      /\ GmrsHeld'[s] = Region(x.vtb) /\ Streams'[s] = Stream(x.sf)
  BY <1>3 DEF Blocks, Descriptors, GmrsHeld, Streams
<1>5. \A t \in Surfaces \ {s} :
         /\ Blocks'[t] = Blocks[t] /\ Descriptors'[t] = Descriptors[t]
         /\ GmrsHeld'[t] = GmrsHeld[t] /\ Streams'[t] = Streams[t]
  BY <1>3 DEF Blocks, Descriptors, GmrsHeld, Streams
<1>6. Pool(acc'.vram, Blocks', acc'.lost, Chunks)
  <2>1. Part(acc'.vram, Others(Blocks, s), Blocks'[s], acc'.lost, Chunks)
    BY <1>1, <1>2, <1>3, <1>4 DEF Accounted
  <2> QED BY <1>5, <2>1, Pools, PartPool
<1>7. Pool(acc'.wired, Descriptors', {}, Wired)
  <2>1. Part(acc'.wired, Others(Descriptors, s), Descriptors'[s], {}, Wired)
    BY <1>1, <1>2, <1>3, <1>4 DEF Accounted
  <2> QED BY <1>5, <2>1, Pools, PartPool
<1>8. Pool(acc'.gmr, GmrsHeld', {}, GmrIds)
  <2>1. Part(acc'.gmr, Others(GmrsHeld, s), GmrsHeld'[s], {}, GmrIds)
    BY <1>1, <1>2, <1>3, <1>4 DEF Accounted
  <2> QED BY <1>5, <2>1, Pools, PartPool
<1>9. Pool(acc'.streams, Streams', acc'.lost, StreamIds)
  <2>1. Part(acc'.streams, Others(Streams, s), Streams'[s], acc'.lost, StreamIds)
    BY <1>1, <1>2, <1>3, <1>4 DEF Accounted
  <2> QED BY <1>5, <2>1, Pools, PartPool
<1>10. ASSUME NEW t \in Surfaces PROVE Settles(sf'[t], vtb'[t], t, dev'.gmr)
  <2>1. CASE t = s
    BY <1>2, <1>3, <2>1
  <2>2. CASE t # s
    <3>1. Settles(sf[t], vtb[t], t, dev.gmr) /\ sf'[t] = sf[t] /\ vtb'[t] = vtb[t]
      BY <1>3, <2>2 DEF AccountInv
    <3>2. Region(vtb[t]) \subseteq R.gmr
      BY <1>1, <2>2 DEF Others, GmrsHeld
    <3>3. vtb[t].gmr \in GmrIds => dev'.gmr[vtb[t].gmr] = dev.gmr[vtb[t].gmr]
      BY <1>1, <1>3, <3>2 DEF Settled, Region, R
    <3> QED BY <3>1, <3>3 DEF Settles
  <2> QED BY <2>1, <2>2
<1>11. ASSUME NEW q \in Pending(dev'.queue)
       PROVE  \/ q.ref.owner = NoId
              \/ q.ref.owner \in Surfaces /\ Mine(sf'[q.ref.owner], vtb'[q.ref.owner], q)
  <2>1. q \in R.queue \/ q.ref.owner = NoId \/ Mine(x.sf, x.vtb, q)
    BY <1>3 DEF Settled, R
  <2>2. CASE q \in R.queue
    <3>1. q \in Pending(dev.queue) /\ q.ref.owner \in Surfaces \ {s}
      BY <1>1, <2>2
    <3>2. q.ref.owner = NoId \/ Mine(sf[q.ref.owner], vtb[q.ref.owner], q)
      BY <3>1 DEF AccountInv
    <3> QED BY <1>3, <3>1, <3>2
  <2>3. CASE Mine(x.sf, x.vtb, q)
    <3>1. q.ref.owner = s
      BY <1>2, <2>3 DEF Mine, Settles
    <3> QED BY <1>3, <2>3, <3>1
  <2> QED BY <2>1, <2>2, <2>3
<1>12. DOMAIN acc' = AccelFields /\ IsDevice(dev') /\ acc'.lost \subseteq Chunks \cup StreamIds
  BY <1>2, <1>3 DEF Shape, Accounted
<1>13. \A g \in GmrIds \ acc'.gmr : dev'.gmr[g] = NoId
  BY <1>3 DEF Settled
<1> QED
  BY <1>3, <1>6, <1>7, <1>8, <1>9, <1>10, <1>11, <1>12, <1>13 DEF AccountInv

-----------------------------------------------------------------------------
(* The actions.                                                            *)

\* How a call on s may end.  Who finds the write lock free, and the buffer of
\* the surface without offset, leaves with it only when nothing of
\* the surface is queued.
Final(s, x) ==
  /\ Settled(x, Rest(s, TRUE))
  /\ "write" \in x.sf.lock /\ "write" \notin sf[s].lock /\ ~sf[s].offset
       => Clear(x, Rest(s, TRUE))
Called(s) == \E x : Return(s, x) /\ Final(s, x)
Around(s) == Rest(s, "write" \in sf[s].lock)

LEMMA FineFinal ==
  ASSUME NEW s, NEW x, Fine(x, Around(s)) PROVE Final(s, x)
<1> DEFINE R == Around(s)
           T == Rest(s, TRUE)
<1>1. /\ T.vram = R.vram /\ T.wired = R.wired /\ T.gmr = R.gmr /\ T.streams = R.streams
      /\ T.map = R.map /\ T.queue = R.queue /\ T.tag = R.tag
  BY DEF Around, Rest
<1>2. R.write = ("write" \in sf[s].lock)
  BY DEF Around, Rest
<1> HIDE DEF R, T
<1>3. Settled(x, R) /\ ("write" \in x.sf.lock => R.write)
  BY FineSettled DEF Fine, Core, R
<1>4. Settled(x, T)
  BY <1>1, <1>3 DEF Settled, Accounted
<1> QED
  BY <1>2, <1>3, <1>4 DEF Final, T

LEMMA PlainCalled ==
  ASSUME AccountInv, NEW s \in Surfaces, sf[s].state = "open",
         NEW x, Return(s, x), Plain(Call(s), x)
  PROVE  Called(s)
<1>1. Fine(Call(s), Around(s))
  BY CallFine DEF Around
<1>2. Fine(x, Around(s))
  BY <1>1, PlainKeeps
<1> QED
  BY <1>2, FineFinal DEF Called

LEMMA FineCalled ==
  ASSUME NEW s, NEW x, Return(s, x), Fine(x, Around(s)) PROVE Called(s)
BY FineFinal DEF Called

LEMMA UnlockCalled ==
  ASSUME AccountInv, NEW s \in Surfaces, NEW bit, Return(s, Unlock(Call(s), bit)) PROVE Called(s)
<1> DEFINE x == Call(s)
           y == Unlock(x, bit)
           R == Rest(s, TRUE)
<1>1. Settled(x, R) /\ x.sf = sf[s]
  BY CallFine DEF Call
<1> HIDE DEF x, R
<1>2. Shape(x)
  BY <1>1 DEF Settled
<1>3. /\ Shape(y) /\ y.vtb = x.vtb /\ y.dev = x.dev /\ y.acc = x.acc
      /\ DOMAIN y.sf = SurfaceFields /\ y.sf.lock = x.sf.lock \ {bit}
      /\ y.sf.state = x.sf.state /\ y.sf.self = x.sf.self /\ y.sf.enabled = x.sf.enabled
      /\ y.sf.stream = x.sf.stream /\ y.sf.video = x.sf.video
  BY <1>2 DEF Shape, SurfaceFields, Unlock
<1>4. Return(s, y)
  BY DEF x
<1> HIDE DEF y
<1>5. Block(y.sf) = Block(x.sf) /\ Stream(y.sf) = Stream(x.sf)
  BY <1>3 DEF Block, Stream
<1>6. \A q : Mine(x.sf, x.vtb, q) => Mine(y.sf, y.vtb, q)
  BY <1>3 DEF Mine
<1>7. Settled(y, R)
  BY <1>1, <1>3, <1>5, <1>6 DEF Settled, Accounted, Settles
<1> QED
  BY <1>1, <1>3, <1>4, <1>7 DEF Called, Final, R

LEMMA OpenCalled == ASSUME AccountInv, NEW s \in Surfaces, Open(s) PROVE Called(s)
<1> DEFINE c == Call(s)
           x == [c EXCEPT !.sf = [NewSurface EXCEPT !.state = "open"]]
           R == Around(s)
<1>1. PICK z \in Start3D(x) : Return(s, z)
  BY DEF Open
<1>2. Settled(c, R) /\ c.sf.state # "open" /\ \A q \in Pending(c.dev.queue) : q.ref.owner # NoId => q \in R.queue
  BY CallFine DEF Around, Open, Call
<1> HIDE DEF c, R
<1>3. Shape(c) /\ c.sf.self = NoId /\ c.vtb.md = NoId /\ ~c.sf.enabled /\ c.vtb.gmr \notin GmrIds
  BY <1>2 DEF Settled, Settles
<1>4. /\ Shape(x) /\ x.vtb = c.vtb /\ x.dev = c.dev /\ x.acc = c.acc
      /\ x.sf.state = "open" /\ x.sf.self = NoId /\ x.sf.enabled = FALSE /\ x.sf.lock = {}
  BY <1>3 DEF Shape, NewSurface, SurfaceFields
<1> HIDE DEF x
<1>5. Block(x.sf) = Block(c.sf) /\ Stream(x.sf) = Stream(c.sf)
  BY <1>3, <1>4 DEF Block, Stream
<1>6. Accounted(x, R)
  BY <1>2, <1>4, <1>5 DEF Settled, Accounted
<1>7. Fine(x, R)
  BY <1>2, <1>3, <1>4, <1>6 DEF Settled, Settles, Fine, Core, Regions
<1>8. Fine(z, R)
  BY <1>1, <1>4, <1>6, <1>7, Start3DPlain, PlainKeeps
<1> QED
  BY <1>1, <1>8, FineCalled DEF R

LEMMA CloseCalled == ASSUME AccountInv, NEW s \in Surfaces, clientClose(s) PROVE Called(s)
<1> DEFINE x == Call(s)
           c == Cleanup(x)
           y == [c EXCEPT !.sf.state = "closed"]
           R == Around(s)
<1>1. Return(s, y) /\ sf[s].state = "open"
  BY DEF clientClose
<1>2. Fine(x, R)
  BY <1>1, CallFine DEF Around
<1> HIDE DEF x
<1>3. Bare(c, R) /\ ~c.sf.enabled
  BY <1>2, CleanupGives
<1> HIDE DEF c
<1>4. Shape(c) /\ c.vtb.gmr \notin GmrIds
  BY <1>3 DEF Bare, Core, Regions
<1>5. /\ Shape(y) /\ y.vtb = c.vtb /\ y.dev = c.dev /\ y.acc = c.acc
      /\ y.sf.state = "closed" /\ y.sf.self = c.sf.self /\ y.sf.enabled = c.sf.enabled
      /\ y.sf.lock = c.sf.lock
  BY <1>4 DEF Shape, SurfaceFields
<1> HIDE DEF y
<1>6. Block(y.sf) = Block(c.sf) /\ Stream(y.sf) = Stream(c.sf)
  BY <1>3, <1>5 DEF Block, Stream
<1> DEFINE T == Rest(s, TRUE)
<1>7. /\ T.vram = R.vram /\ T.wired = R.wired /\ T.gmr = R.gmr /\ T.streams = R.streams
      /\ T.map = R.map /\ T.queue = R.queue /\ T.tag = R.tag
      /\ R.write = ("write" \in sf[s].lock)
  BY DEF Around, Rest
<1> HIDE DEF R, T
<1>8. Accounted(y, T)
  BY <1>3, <1>5, <1>6, <1>7 DEF Bare, Core, Accounted
<1>9. Settled(y, T)
  BY <1>3, <1>4, <1>5, <1>7, <1>8 DEF Bare, Core, Regions, Clear, Settled, Settles, Shape
<1>10. "write" \in y.sf.lock => "write" \in sf[s].lock
  BY <1>3, <1>5, <1>7 DEF Bare, Core
<1> QED
  BY <1>1, <1>9, <1>10 DEF Called, Final, T

LEMMA ShapeCalled ==
  ASSUME AccountInv, NEW s \in Surfaces, NEW client, NEW fit, NEW offset, NEW grab,
         set_shape_backing_length_ext(s, client, fit, offset, grab)
  PROVE  Called(s)
<1> DEFINE c == Call(s)
           x == [c EXCEPT !.sf.region = FALSE, !.sf.client = FALSE]
           y == [x EXCEPT !.sf.client = client, !.sf.region = TRUE, !.sf.fit = fit, !.sf.offset = offset,
                          !.vtb.gart = IF client /\ @ # 0 THEN 2 ELSE @,
                          !.sf.skip = (sf[s].wid = "desktop" /\ grab) \/ @]
<1>1. /\ sf[s].state = "open"
      /\ \/ Return(s, x)
         \/ Return(s, [x EXCEPT !.vtb.gart = y.vtb.gart])
         \/ Return(s, videoReshape(y))
  BY DEF set_shape_backing_length_ext
<1>2. Shape(c)
  BY <1>1, CallFine DEF Fine, Core
<1>3. \A a : Return(s, a) /\ Plain(c, a) => Called(s)
  BY <1>1, PlainCalled
<1> HIDE DEF c
<1>4. Plain(c, x)
  BY <1>2, FieldsPlain, Zenon
<1>5. Shape(x)
  BY <1>4, PlainShape
<1> DEFINE g == y.vtb.gart
           k == y.sf.skip
<1>6. y = [x EXCEPT !.sf.client = client, !.sf.region = TRUE, !.sf.fit = fit, !.sf.offset = offset,
                    !.vtb.gart = g, !.sf.skip = k]
  BY <1>5 DEF Shape, SurfaceFields, BufferFields
<1> HIDE DEF x, g, k
<1>7. ASSUME NEW v, NEW w
      PROVE  Plain(x, [x EXCEPT !.sf.client = client, !.sf.region = TRUE, !.sf.fit = fit, !.sf.offset = offset,
                                !.vtb.gart = v, !.sf.skip = w])
  <2> DEFINE z == [x EXCEPT !.sf.client = client, !.sf.region = TRUE, !.sf.fit = fit, !.sf.offset = offset,
                            !.vtb.gart = v, !.sf.skip = w]
  <2>1. /\ DOMAIN z = DOMAIN x /\ z.acc = x.acc /\ z.dev = x.dev
        /\ z.vtb = [x.vtb EXCEPT !.gart = v]
        /\ z.sf = [x.sf EXCEPT !.client = client, !.region = TRUE, !.fit = fit, !.offset = offset,
                           !.skip = w]
    BY <1>5 DEF Shape
  <2> HIDE DEF z
  <2>2. /\ Shape(z) /\ z.vtb.gmr = x.vtb.gmr /\ z.vtb.md = x.vtb.md /\ z.vtb.tag = x.vtb.tag
        /\ z.vtb.fence = x.vtb.fence
    BY <1>5, <2>1 DEF Shape, SurfaceFields, BufferFields
  <2>3. /\ z.sf.state = x.sf.state /\ z.sf.self = x.sf.self /\ z.sf.enabled = x.sf.enabled
        /\ z.sf.stream = x.sf.stream /\ z.sf.video = x.sf.video /\ z.sf.lock = x.sf.lock
    BY <1>5, <2>1 DEF Shape, SurfaceFields
  <2>4. Plain(x, z)
    BY <2>1, <2>2, <2>3 DEF Plain
  <2> QED BY <2>4 DEF z
<1>8. Plain(x, y)
  BY <1>6, <1>7, Zenon
<1> HIDE DEF y
<1>9. Plain(c, videoReshape(y))
  BY <1>4, <1>8, PlainTrans, ReshapePlain
<1>10. \A v : Plain(c, [x EXCEPT !.vtb.gart = v])
  BY <1>4, PutPlain, Zenon
<1>11. CASE Return(s, [x EXCEPT !.vtb.gart = y.vtb.gart])
  BY <1>3, <1>10, <1>11, Zenon
<1> QED
  BY <1>1, <1>3, <1>4, <1>9, <1>11

LEMMA ReadLockCalled ==
  ASSUME AccountInv, NEW s \in Surfaces, surface_read_lock(s) PROVE Called(s)
<1> DEFINE x == Call(s)
           l == Lock(x, "read")
           Out(r) == IF r.ok THEN r.x ELSE Unlock(r.x, "read")
           R == Around(s)
<1>1. /\ sf[s].state = "open"
      /\ \E r \in IF sf[s].client THEN {[ok |-> TRUE, x |-> l]} ELSE AllocAndMap(l, 0) : Return(s, Out(r))
  BY DEF surface_read_lock
<1>2. Fine(x, R)
  BY <1>1, CallFine DEF Around
<1> HIDE DEF x, R
<1>3. Fine(l, R)
  BY <1>2, LockPlain, PlainKeeps DEF Fine, Core
<1> HIDE DEF l
<1>4. PICK r : Return(s, Out(r)) /\ (r = [ok |-> TRUE, x |-> l] \/ r \in AllocAndMap(l, 0))
  BY <1>1
<1>5. Fine(r.x, R)
  BY <1>3, <1>4, AllocAndMapGives
<1>6. Plain(r.x, Unlock(r.x, "read"))
  BY <1>5, LockPlain DEF Fine, Core
<1>7. Fine(Out(r), R)
  BY <1>5, <1>6, PlainKeeps
<1> QED
  BY <1>4, <1>7, FineCalled DEF R

LEMMA WriteLockCalled ==
  ASSUME AccountInv, NEW s \in Surfaces, surface_write_lock(s) PROVE Called(s)
<1> DEFINE c == Call(s)
           x == IF sf[s].skip THEN [c EXCEPT !.sf.skip = FALSE] ELSE Lock(c, "write")
           Out(r) == IF ~r.ok THEN Unlock(r.x, "write") ELSE IF sf[s].offset THEN r.x ELSE sync(r.x)
           R == Rest(s, TRUE)
<1>1. /\ sf[s].state = "open"
      /\ \E r \in IF sf[s].client THEN {[ok |-> TRUE, x |-> x]} ELSE AllocAndMap(x, 0) : Return(s, Out(r))
  BY DEF surface_write_lock
<1>2. Fine(c, R) /\ R.write
  BY <1>1, CallFine DEF Rest
<1> HIDE DEF c, R
<1>3. Fine(x, R)
  <2>1. Fine(Lock(c, "write"), R)
    BY <1>2, LockFine
  <2>2. Plain(c, [c EXCEPT !.sf.skip = FALSE])
    <3>1. Shape(c)
      BY <1>2 DEF Fine, Core
    <3> QED BY <3>1, FieldsPlain, Zenon
  <2> QED BY <1>2, <2>1, <2>2, PlainKeeps
<1> HIDE DEF x
<1>4. PICK r : Return(s, Out(r)) /\ (r = [ok |-> TRUE, x |-> x] \/ r \in AllocAndMap(x, 0))
  BY <1>1
<1>5. Fine(r.x, R)
  BY <1>3, <1>4, AllocAndMapGives
<1>6. Plain(r.x, Unlock(r.x, "write")) /\ "write" \notin Unlock(r.x, "write").sf.lock
  <2>1. Shape(r.x)
    BY <1>5 DEF Fine, Core
  <2> QED BY <2>1, LockPlain DEF Unlock, Shape, SurfaceFields
<1>7. Fine(sync(r.x), R) /\ Clear(sync(r.x), R)
  BY <1>5, SyncClear
<1>8. Fine(Out(r), R)
  BY <1>5, <1>6, <1>7, PlainKeeps
<1>9. "write" \in Out(r).sf.lock => sf[s].offset \/ Clear(Out(r), R)
  BY <1>1, <1>6, <1>7
<1>10. Final(s, Out(r))
  <2> HIDE DEF Out
  <2> QED BY <1>8, <1>9, FineSettled DEF Final, R
<1> QED
  BY <1>4, <1>10 DEF Called

LEMMA FlushCalled ==
  ASSUME AccountInv, NEW s \in Surfaces, NEW plain, NEW ident, surface_flush(s, plain, ident)
  PROVE  Called(s)
<1> DEFINE x == Call(s)
           R == Around(s)
           z == IF sf[s].screen
                THEN IF plain /\ ident THEN ScreenObjectOutDirect(x)
                     ELSE IF hw.d3 THEN ScreenObjectOutVia3D(x) ELSE x
                ELSE IF sf[s].master
                THEN doPresent(IF ~ident THEN DMAOutStretchWithCopy(x)
                               ELSE IF plain /\ sf[s].direct THEN DMAOutDirect(x)
                               ELSE DMAOutWithCopy(x))
                ELSE IF plain /\ ident THEN GFBOutDirect(x) ELSE x
<1>1. sf[s].state = "open" /\ isBackingValid(x) /\ Return(s, z)
  BY DEF surface_flush
<1>2. Fine(x, R)
  BY <1>1, CallFine DEF Around
<1> HIDE DEF x
<1>3. /\ Fine(DMAOutDirect(x), R) /\ Fine(ScreenObjectOutDirect(x), R)
      /\ Fine(DMAOutWithCopy(x), R) /\ Fine(DMAOutStretchWithCopy(x), R)
      /\ Fine(ScreenObjectOutVia3D(x), R)
  BY <1>1, <1>2, DrawFine
<1>4. ASSUME NEW y, Fine(y, R) PROVE Fine(doPresent(y), R)
  <2>1. Plain(y, doPresent(y))
    BY <1>4, FieldsPlain, PresentPlain DEF Fine, Core
  <2> QED BY <1>4, <2>1, PlainKeeps
<1>5. Fine(GFBOutDirect(x), R)
  <2>1. Plain(x, x)
    BY <1>2, FieldsPlain DEF Fine, Core
  <2>2. Plain(x, Queue(x, <<RectUpdate>>))
    BY <2>1, CommandsPlain
  <2> QED BY <1>2, <2>1, <2>2, PlainKeeps DEF GFBOutDirect, UpdateFramebufferAutoRing
<1> HIDE DEF R
<1>6. Fine(z, R)
  BY <1>2, <1>3, <1>4, <1>5
<1> HIDE DEF z
<1> QED
  BY <1>1, <1>6, FineCalled DEF R

LEMMA SurfaceStepCalled ==
  ASSUME AccountInv, NEW s \in Surfaces, SurfaceStep(s) PROVE Called(s)
<1> DEFINE x == Call(s)
<1>1. sf[s].state = "open" => Shape(x)
  BY CallFine DEF Fine, Core
<1>2. ASSUME NEW wid, set_id_mode(s, wid) PROVE Called(s)
  <2> DEFINE y == IF wid = "desktop" /\ x.sf.screen THEN createPrimaryScreen(x) ELSE x
  <2>1. sf[s].state = "open" /\ Return(s, [y EXCEPT !.sf.wid = wid])
    BY <1>2 DEF set_id_mode
  <2> HIDE DEF x
  <2>2. Plain(x, y)
    BY <1>1, <2>1, FieldsPlain, MasterPlain
  <2> HIDE DEF y
  <2>3. Plain(x, [y EXCEPT !.sf.wid = wid])
    BY <2>2, PutPlain, Zenon
  <2> QED BY <2>1, <2>3, PlainCalled DEF x
<1>3. ASSUME NEW fit, NEW offset, set_scale(s, fit, offset) PROVE Called(s)
  <2>1. sf[s].state = "open" /\ Return(s, [x EXCEPT !.sf.fit = fit, !.sf.offset = offset])
    BY <1>3 DEF set_scale
  <2> HIDE DEF x
  <2>2. Plain(x, [x EXCEPT !.sf.fit = fit, !.sf.offset = offset])
    BY <1>1, <2>1, FieldsPlain, Zenon
  <2> QED BY <2>1, <2>2, PlainCalled DEF x
<1>4. CASE surface_read_unlock(s) \/ surface_write_unlock(s)
  BY <1>4, UnlockCalled DEF surface_read_unlock, surface_write_unlock
<1>5. CASE Draw(s)
  BY <1>3, <1>4, <1>5, ShapeCalled, ReadLockCalled, WriteLockCalled, FlushCalled DEF Draw
<1> QED
  BY <1>2, <1>5, OpenCalled, CloseCalled DEF SurfaceStep

LEMMA HeldCalled ==
  ASSUME AccountInv, NEW c, ctx[c].surf \in Surfaces,
         \/ swap_surface(c) \/ lock_memory(c) \/ unlock_memory(c) \/ CopyFramebufferRegion(c)
         \/ \E fit \in Fits : scale_surface(c, fit)
         \/ \E s \in Surfaces : CopySurfaceRegion(c, s)
  PROVE  Called(ctx[c].surf)
<1> DEFINE s == ctx[c].surf
           x == Call(s)
           R == Around(s)
<1>1. sf[s].state = "open"
  BY DEF swap_surface, lock_memory, unlock_memory, CopyFramebufferRegion, scale_surface,
         CopySurfaceRegion, Held
<1>2. Fine(x, R)
  BY <1>1, CallFine DEF Around
<1>3. ASSUME NEW z, OnSurface(c, z), Fine(z, R) PROVE Called(s)
  BY <1>3, FineCalled DEF OnSurface
<1>4. CASE swap_surface(c)
  <2>1. PICK z \in surface_flush_video(x) : OnSurface(c, z)
    BY <1>4 DEF swap_surface
  <2> HIDE DEF x, R
  <2> QED BY <1>2, <1>3, <2>1, FlushVideoFine
<1>5. CASE lock_memory(c)
  <2>1. PICK z \in context_lock_memory(x) : OnSurface(c, z)
    BY <1>5 DEF lock_memory
  <2> HIDE DEF x, R
  <2> QED BY <1>2, <1>3, <2>1, LockMemoryFine
<1>6. CASE unlock_memory(c)
  <2>1. OnSurface(c, context_unlock_memory(x))
    BY <1>6 DEF unlock_memory
  <2> HIDE DEF x, R
  <2> QED BY <1>2, <1>3, <2>1, UnlockMemoryFine
<1>7. CASE CopyFramebufferRegion(c)
  <2>1. PICK z \in copy_framebuffer_region_to_self(x) : OnSurface(c, z)
    BY <1>7 DEF CopyFramebufferRegion
  <2> HIDE DEF x, R
  <2> QED BY <1>2, <1>3, <2>1, CopyFine
<1>8. ASSUME NEW fit, scale_surface(c, fit) PROVE Called(s)
  <2>1. OnSurface(c, [x EXCEPT !.sf.fit = fit, !.sf.offset = FALSE])
    BY <1>8 DEF scale_surface, context_scale_surface
  <2> HIDE DEF x, R
  <2>2. Shape(x)
    BY <1>2 DEF Fine, Core
  <2>3. Plain(x, [x EXCEPT !.sf.fit = fit, !.sf.offset = FALSE])
    BY <2>2, FieldsPlain, Zenon
  <2> QED BY <1>2, <1>3, <2>1, <2>3, PlainKeeps
<1>9. ASSUME NEW t, CopySurfaceRegion(c, t) PROVE Called(s)
  <2>1. PICK z \in copy_surface_region_to_self(x, sf[t], vtb[t]) : OnSurface(c, z)
    BY <1>9 DEF CopySurfaceRegion
  <2> HIDE DEF x, R
  <2> QED BY <1>2, <1>3, <2>1, CopyFine
<1> QED
  BY <1>4, <1>5, <1>6, <1>7, <1>8, <1>9

LEMMA SetSurfaceCalled ==
  ASSUME AccountInv, NEW s, findSurfaceForID(s), NEW yuv,
         \E x \in context_set_surface(Call(s), yuv) : Return(s, x)
  PROVE  s \in Surfaces /\ Called(s)
<1>1. s \in Surfaces /\ sf[s].state = "open"
  BY DEF findSurfaceForID
<1>2. PICK z \in context_set_surface(Call(s), yuv) : Return(s, z)
  OBVIOUS
<1>3. Fine(Call(s), Around(s))
  BY <1>1, CallFine DEF Around
<1>4. Fine(z, Around(s))
  BY <1>2, <1>3, SetSurfaceFine
<1> QED
  BY <1>1, <1>2, <1>4, FineCalled

\* The device has executed a part of its queue, or was told something that
\* names no memory.
Executed ==
  /\ UNCHANGED <<acc, sf, vtb>>
  /\ IsDevice(dev') /\ dev'.gmr = dev.gmr /\ Pending(dev'.queue) \subseteq Pending(dev.queue)

LEMMA ExecutedInv == ASSUME AccountInv, Executed PROVE AccountInv'
<1>1. Blocks' = Blocks /\ Descriptors' = Descriptors /\ GmrsHeld' = GmrsHeld /\ Streams' = Streams
  BY DEF Executed, Blocks, Descriptors, GmrsHeld, Streams
<1>2. \A t \in Surfaces : Settles(sf'[t], vtb'[t], t, dev'.gmr)
  BY DEF AccountInv, Executed
<1>3. \A q \in Pending(dev'.queue) :
         \/ q.ref.owner = NoId
         \/ q.ref.owner \in Surfaces /\ Mine(sf'[q.ref.owner], vtb'[q.ref.owner], q)
  BY DEF AccountInv, Executed
<1>4. /\ Pool(acc'.vram, Blocks', acc'.lost, Chunks) /\ Pool(acc'.wired, Descriptors', {}, Wired)
      /\ Pool(acc'.gmr, GmrsHeld', {}, GmrIds) /\ Pool(acc'.streams, Streams', acc'.lost, StreamIds)
  BY <1>1 DEF AccountInv, Executed
<1> QED
  BY <1>2, <1>3, <1>4 DEF AccountInv, Executed

LEMMA OnDeviceExecuted ==
  ASSUME AccountInv, NEW c, finish(c) \/ DrawToFramebuffer(c) PROVE Executed
<1> DEFINE x == Accel
<1>1. DOMAIN x = {"acc", "dev"} /\ x.acc = acc /\ x.dev = dev
  BY DEF Accel
<1> HIDE DEF x
<1>2. IsDevice(x.dev)
  BY <1>1 DEF AccountInv
<1>3. ASSUME NEW z, OnDevice(c, z), z = x \/ z = [x EXCEPT !.dev = z.dev],
             IsDevice(z.dev), z.dev.gmr = x.dev.gmr, Pending(z.dev.queue) \subseteq Pending(x.dev.queue)
      PROVE  Executed
  <2>1. z.acc = x.acc
    BY <1>1, <1>3
  <2> QED BY <1>1, <1>3, <2>1 DEF OnDevice, Executed
<1>4. ASSUME NEW k, k.op \notin {"dma", "gmrfb"}, OnDevice(c, Queue(x, <<k>>)) PROVE Executed
  <2> DEFINE z == Queue(x, <<k>>)
  <2>1. <<k>> \in Seq({k}) /\ \A i \in DOMAIN <<k>> : <<k>>[i] = k
    OBVIOUS
  <2>2. /\ z = [x EXCEPT !.dev = z.dev] /\ IsDevice(z.dev) /\ z.dev.gmr = x.dev.gmr
        /\ Pending(z.dev.queue) \subseteq Pending(x.dev.queue) \cup Pending(<<k>>)
    BY <1>1, <1>2, <2>1, QueueGives DEF IsDevice
  <2>3. Pending(<<k>>) = {}
    BY <1>4, <2>1 DEF Pending
  <2>4. OnDevice(c, z)
    BY <1>4
  <2> HIDE DEF z
  <2> QED BY <1>3, <2>2, <2>3, <2>4
<1>5. OnDevice(c, x) => Executed
  BY <1>2, <1>3
<1>6. CASE finish(c)
  <2> DEFINE z == SyncFIFO(x)
  <2>1. OnDevice(c, z)
    BY <1>6 DEF finish, x
  <2>2. /\ z = [x EXCEPT !.dev = z.dev] /\ IsDevice(z.dev) /\ z.dev.gmr = x.dev.gmr
        /\ Pending(z.dev.queue) \subseteq Pending(x.dev.queue)
    BY <1>1, <1>2, SyncGives
  <2> HIDE DEF z
  <2> QED BY <1>3, <2>1, <2>2
<1>7. CASE DrawToFramebuffer(c)
  <2>1. \/ OnDevice(c, x) \/ OnDevice(c, Queue(x, <<RectCopyCmd>>)) \/ OnDevice(c, Queue(x, <<RectFillCmd>>))
        \/ OnDevice(c, Queue(x, <<RectUpdate>>))
    BY <1>7 DEF DrawToFramebuffer, CopyRegion, RectCopy, RectFill, UpdateFramebufferAutoRing, x
  <2>2. RectCopyCmd.op = "rect_copy" /\ RectFillCmd.op = "rect_fill" /\ RectUpdate.op = "update"
    BY DEF RectCopyCmd, RectFillCmd, RectUpdate
  <2> QED BY <1>4, <1>5, <2>1, <2>2
<1> QED
  BY <1>6, <1>7

LEMMA DeviceStepExecuted == ASSUME AccountInv, DeviceStep PROVE Executed
<1>1. IsDevice(dev) /\ dev.queue # <<>> /\ dev' = Drain(dev, 1)
  BY DEF AccountInv, DeviceStep
<1>2. 1 \in 0..Len(dev.queue)
  BY <1>1 DEF IsDevice
<1>3. IsDevice(dev') /\ dev'.gmr = dev.gmr
      /\ \A q \in Pending(dev'.queue) : \E i \in DOMAIN dev.queue : i > 1 /\ q = dev.queue[i] /\ q \in Pending(dev.queue)
  BY <1>1, <1>2, DrainPending
<1> QED
  BY <1>3 DEF DeviceStep, Executed

\* A context holds a surface or none.
ContextsInv ==
  DOMAIN ctx = Contexts /\ \A c \in Contexts : DOMAIN ctx[c] = {"open", "cgs", "surf"}
                                               /\ ctx[c].surf \in Surfaces \cup {NoId}

LEMMA ContextsKeep == ASSUME ContextsInv, [Next]_vars PROVE ContextsInv'
<1>1. CASE UNCHANGED ctx
  BY <1>1 DEF ContextsInv
<1>2. ASSUME NEW c \in Contexts, OpenContext(c) \/ CloseContext(c) PROVE ContextsInv'
  BY <1>2 DEF OpenContext, CloseContext, NewContext, ContextsInv
<1>3. ASSUME NEW c \in Contexts, NEW s, NEW yuv, set_surface(c, s, yuv) PROVE ContextsInv'
  BY <1>3 DEF set_surface, findSurfaceForID, ContextsInv
<1>4. ASSUME NEW c \in Contexts, ContextStep(c)
      PROVE  UNCHANGED ctx \/ OpenContext(c) \/ CloseContext(c) \/ \E s, yuv : set_surface(c, s, yuv)
  <2>1. CASE finish(c) \/ DrawToFramebuffer(c)
    BY <2>1 DEF finish, DrawToFramebuffer, OnDevice
  <2>2. CASE \/ swap_surface(c) \/ lock_memory(c) \/ unlock_memory(c) \/ CopyFramebufferRegion(c)
             \/ \E fit \in Fits : scale_surface(c, fit)
             \/ \E s \in Surfaces : CopySurfaceRegion(c, s)
    BY <2>2 DEF swap_surface, lock_memory, unlock_memory, CopyFramebufferRegion, scale_surface,
                CopySurfaceRegion, OnSurface
  <2> QED BY <1>4, <2>1, <2>2 DEF ContextStep
<1>5. CASE UNCHANGED vars \/ DeviceStep \/ \E s \in Surfaces : SurfaceStep(s) /\ UNCHANGED ctx
  BY <1>1, <1>5 DEF vars, DeviceStep
<1>6. CASE \E c \in Contexts : ContextStep(c)
  BY <1>1, <1>2, <1>3, <1>4, <1>6
<1> QED
  BY <1>5, <1>6 DEF Next

\* A step is a call on a surface, something the device does, or of no account.
LEMMA NextCalls ==
  ASSUME AccountInv, ContextsInv, [Next]_vars
  PROVE  (\E s \in Surfaces : Called(s)) \/ Executed
<1>1. CASE UNCHANGED <<acc, dev, sf, vtb>>
  BY <1>1 DEF Executed, AccountInv
<1>2. CASE \E s \in Surfaces : SurfaceStep(s)
  BY <1>2, SurfaceStepCalled
<1>3. ASSUME NEW c \in Contexts, ContextStep(c) PROVE (\E s \in Surfaces : Called(s)) \/ Executed
  <2>1. CASE finish(c) \/ DrawToFramebuffer(c)
    BY <2>1, OnDeviceExecuted
  <2>2. CASE \/ swap_surface(c) \/ lock_memory(c) \/ unlock_memory(c) \/ CopyFramebufferRegion(c)
             \/ \E fit \in Fits : scale_surface(c, fit)
             \/ \E s \in Surfaces : CopySurfaceRegion(c, s)
    <3>1. Held(c)
      BY <2>2 DEF swap_surface, lock_memory, unlock_memory, CopyFramebufferRegion, scale_surface,
                  CopySurfaceRegion
    <3>2. ctx[c].surf \in Surfaces
      BY <3>1 DEF Held, ContextsInv
    <3>3. Called(ctx[c].surf)
      BY <2>2, <3>2, HeldCalled
    <3> QED BY <3>2, <3>3
  <2>3. ASSUME NEW s, NEW yuv, set_surface(c, s, yuv) PROVE (\E t \in Surfaces : Called(t)) \/ Executed
    <3>1. \/ UNCHANGED <<acc, dev, sf, vtb>>
          \/ findSurfaceForID(s) /\ \E x \in context_set_surface(Call(s), yuv) : Return(s, x)
      BY <2>3 DEF set_surface
    <3> QED BY <1>1, <3>1, SetSurfaceCalled
  <2>4. CASE OpenContext(c) \/ CloseContext(c)
    BY <1>1, <2>4 DEF OpenContext, CloseContext
  <2> QED BY <1>3, <2>1, <2>2, <2>3, <2>4 DEF ContextStep
<1>4. CASE DeviceStep
  BY <1>4, DeviceStepExecuted
<1>5. CASE UNCHANGED vars
  BY <1>1, <1>5 DEF vars
<1> QED
  BY <1>2, <1>3, <1>4, <1>5 DEF Next

LEMMA AccountInit == ASSUME Init PROVE AccountInv /\ ContextsInv
<1>1. /\ acc.vram = {} /\ acc.lost = {} /\ acc.wired = {} /\ acc.gmr = {} /\ acc.streams = {}
      /\ DOMAIN acc = AccelFields
  BY DEF Init, InitAccel, AccelFields
<1>2. DOMAIN dev = DeviceFields /\ dev.queue = <<>> /\ dev.gmr = [g \in GmrIds |-> NoId]
  BY DEF Init, InitAccel, DeviceFields
<1>3. <<>> \in Seq({})
  OBVIOUS
<1>4. IsDevice(dev) /\ Pending(dev.queue) = {}
  BY <1>2, <1>3 DEF IsDevice, Pending
<1>5. /\ DOMAIN sf = Surfaces /\ DOMAIN vtb = Surfaces
      /\ \A t \in Surfaces : sf[t] = NewSurface /\ vtb[t] = NewTransferBuffer(t)
  BY DEF Init, InitSurface
<1>6. \A t \in Surfaces : Settles(sf[t], vtb[t], t, dev.gmr)
  BY <1>5, PoolAssumption DEF Settles, NewSurface, NewTransferBuffer, SurfaceFields, BufferFields
<1>7. \A t \in Surfaces : Blocks[t] = {} /\ Descriptors[t] = {} /\ GmrsHeld[t] = {} /\ Streams[t] = {}
  BY <1>5, PoolAssumption DEF Blocks, Descriptors, GmrsHeld, Streams, Block, Descriptor, Region, Stream,
     NewSurface, NewTransferBuffer
<1>8. ASSUME NEW F, \A t \in Surfaces : F[t] = {}, NEW ids PROVE Pool({}, F, {}, ids)
  <2>1. All(F) = {}
    BY <1>8 DEF All
  <2> QED BY <1>8, <2>1 DEF Pool
<1>9. /\ Pool({}, Blocks, {}, Chunks) /\ Pool({}, Descriptors, {}, Wired)
      /\ Pool({}, GmrsHeld, {}, GmrIds) /\ Pool({}, Streams, {}, StreamIds)
  BY <1>7, <1>8
<1>10. ContextsInv
  BY DEF Init, NewContext, ContextsInv
<1> QED
  BY <1>1, <1>2, <1>4, <1>5, <1>6, <1>9, <1>10 DEF AccountInv

LEMMA AccountKeeps ==
  ASSUME AccountInv, ContextsInv, [Next]_vars PROVE AccountInv' /\ ContextsInv'
<1>1. ASSUME NEW s \in Surfaces, Called(s) PROVE AccountInv'
  <2>1. PICK x : Return(s, x) /\ Settled(x, Rest(s, TRUE))
    BY <1>1 DEF Called, Final
  <2> QED BY <2>1, ReturnInv
<1> QED
  BY <1>1, NextCalls, ExecutedInv, ContextsKeep

-----------------------------------------------------------------------------
(* What follows.                                                           *)

LEMMA AccountStays == Spec => [](AccountInv /\ ContextsInv)
<1>1. Init => AccountInv /\ ContextsInv
  BY AccountInit
<1>2. AccountInv /\ ContextsInv /\ [Next]_vars => (AccountInv /\ ContextsInv)'
  BY AccountKeeps
<1> QED
  BY <1>1, <1>2, PTL DEF Spec

\* Whatever the device has yet to transfer lies in memory that the surface
\* whose transfer it is holds at that moment: a backing is released, moved
\* or unwired only behind the fence of its last transfer (VendorTransferBuffer
\* sync and complete, VMsvga2Surface releaseBacking and allocBacking).
THEOREM TransfersStayHome == Spec => []NoStrayDMA
<1>1. AccountInv => NoStrayDMA
  <2> SUFFICES ASSUME AccountInv, NEW i \in DOMAIN dev.queue, dev.queue[i].op \in {"dma", "gmrfb"}
               PROVE  Owned(dev.queue[i].ref)
    BY DEF NoStrayDMA
  <2> DEFINE q == dev.queue[i]
             t == q.ref.owner
  <2>1. q \in Pending(dev.queue)
    BY DEF Pending
  <2>2. t = NoId \/ (t \in Surfaces /\ Mine(sf[t], vtb[t], q) /\ Settles(sf[t], vtb[t], t, dev.gmr))
    BY <2>1 DEF AccountInv
  <2> HIDE DEF q
  <2>3. Owned(q.ref)
    BY <2>2, PoolAssumption DEF Owned, Mine, Settles
  <2> QED BY <2>3 DEF q
<1> QED
  BY <1>1, AccountStays, PTL

\* Who obtains the write lock of a surface without an offset finds no
\* transfer of the surface left to make
\* (VMsvga2Surface::surface_write_lock_options).
THEOREM LockersWait == Spec => WriteLockWaits
<1> DEFINE A == \A s \in Surfaces :
                   "write" \in sf'[s].lock \ sf[s].lock /\ ~sf[s].offset =>
                     \A i \in DOMAIN dev'.queue :
                        dev'.queue[i].op \in {"dma", "gmrfb"} => dev'.queue[i].ref.owner # s
<1>1. AccountInv /\ ContextsInv /\ [Next]_vars => A
  <2> SUFFICES ASSUME AccountInv, ContextsInv, [Next]_vars, NEW s \in Surfaces,
                      "write" \in sf'[s].lock, "write" \notin sf[s].lock, ~sf[s].offset,
                      NEW i \in DOMAIN dev'.queue, dev'.queue[i].op \in {"dma", "gmrfb"}
               PROVE  dev'.queue[i].ref.owner # s
    OBVIOUS
  <2>1. ~Executed
    BY DEF Executed
  <2>2. PICK t \in Surfaces : Called(t)
    BY <2>1, NextCalls
  <2>3. PICK x : Return(t, x) /\ Final(t, x)
    BY <2>2 DEF Called
  <2>4. t = s
    BY <2>3 DEF Return, AccountInv
  <2>5. sf'[s] = x.sf /\ dev' = x.dev
    BY <2>3, <2>4 DEF Return, AccountInv
  <2>6. Clear(x, Rest(s, TRUE))
    BY <2>3, <2>4, <2>5 DEF Final
  <2> DEFINE q == dev'.queue[i]
  <2>7. q \in Pending(x.dev.queue)
    BY <2>5 DEF Pending
  <2> HIDE DEF q
  <2>8. q.ref.owner \in Surfaces \ {s} \/ q.ref.owner = NoId
    BY <2>6, <2>7 DEF Clear, Rest
  <2>9. q.ref.owner # s
    BY <2>8, SurfaceAssumption
  <2> QED BY <2>9 DEF q
<1>2. Spec => [][AccountInv /\ ContextsInv /\ [Next]_vars]_vars
  BY AccountStays, PTL DEF Spec
<1>3. WriteLockWaits <=> [][A]_vars
  BY DEF WriteLockWaits
<1> QED
  BY <1>1, <1>2, <1>3, PTL

Image(v, T) == {v[t] : t \in T}

\* Of the surfaces, those of T hold one thing each, which v tells.
Singly(F, T, v) ==
  T \subseteq Surfaces /\ \A t \in Surfaces : F[t] = IF t \in T THEN {v[t]} ELSE {}

\* The pool is what they hold and what is lost, nothing twice.
Counts(have, T, v, lost, ids) ==
  /\ have = Image(v, T) \cup (lost \cap ids)
  /\ Cardinality(have) = Cardinality(T) + Cardinality(lost \cap ids)
  /\ Cardinality(T) \in Nat

LEMMA PoolCounts ==
  ASSUME NEW ids, IsFiniteSet(ids), NEW have, NEW F, NEW lost, Pool(have, F, lost, ids),
         NEW T, NEW v, Singly(F, T, v)
  PROVE  Counts(have, T, v, lost, ids)
<1> DEFINE V == Image(v, T)
           L == lost \cap ids
           f == [t \in T |-> v[t]]
<1>1. \A t \in T : v[t] \in ids /\ v[t] \notin lost
  BY DEF Pool, Singly
<1>2. ASSUME NEW t \in T, NEW u \in T, v[t] = v[u] PROVE t = u
  BY <1>2 DEF Pool, Singly
<1>3. have = V \cup L
  <2>1. \A e : e \in All(F) <=> \E t \in Surfaces : e \in F[t]
    BY DEF All
  <2>2. \A e : e \in V <=> \E t \in T : e = v[t]
    BY DEF Image
  <2>3. ASSUME NEW e PROVE e \in All(F) <=> e \in V
    <3>1. ASSUME NEW t \in Surfaces, e \in F[t] PROVE t \in T /\ e = v[t]
      BY <3>1 DEF Singly
    <3>2. ASSUME NEW t \in T, e = v[t] PROVE t \in Surfaces /\ e \in F[t]
      BY <3>2 DEF Singly
    <3> QED BY <2>1, <2>2, <3>1, <3>2
  <2>4. All(F) = V
    BY <2>3
  <2> QED BY <2>4 DEF Pool
<1>4. f \in Injection(T, ids) /\ f \in Bijection(T, V)
  <2>1. f \in [T -> ids] /\ f \in [T -> V]
    BY <1>1 DEF Image
  <2>2. \A x, y \in T : f[x] = f[y] => x = y
    BY <1>2
  <2>3. \A e \in V : \E x \in T : f[x] = e
    BY DEF Image
  <2> QED BY <2>1, <2>2, <2>3 DEF Bijection, Injection, Surjection, IsInjective
<1>5. T \subseteq Surfaces
  BY DEF Singly
<1>6. IsFiniteSet(T)
  BY <1>4, FS_Injection, Zenon
<1>7. IsFiniteSet(V) /\ Cardinality(V) = Cardinality(T)
  <2>1. ExistsBijection(T, V)
    BY <1>4 DEF ExistsBijection
  <2> HIDE DEF V
  <2> QED BY <1>6, <2>1, FS_Bijection, Zenon
<1>8. IsFiniteSet(L)
  BY FS_Subset
<1>9. V \cap L = {}
  BY <1>1 DEF Image
<1>10. Cardinality(V) \in Nat /\ Cardinality(L) \in Nat
  BY <1>7, <1>8, FS_CardinalityType
<1>11. Cardinality(V \cup L) = Cardinality(V) + Cardinality(L) - Cardinality({})
  <2> HIDE DEF V, L
  <2>1. Cardinality(V \cup L) = Cardinality(V) + Cardinality(L) - Cardinality(V \cap L)
    BY <1>7, <1>8, FS_Union
  <2> QED BY <1>9, <2>1
<1> HIDE DEF V, L
<1>12. Cardinality(have) = Cardinality(T) + Cardinality(L)
  BY <1>3, <1>7, <1>10, <1>11, FS_EmptySet
<1> QED
  BY <1>3, <1>7, <1>10, <1>12 DEF V, L, Counts

\* Blocks, regions, descriptors and overlay streams are in use exactly while
\* one surface holds them, two known losses apart, and the device knows each
\* region by the memory of its holder, however the calls of the surfaces and
\* the contexts fail and interleave.
THEOREM NothingLeaks == Spec => []ResourcesAccounted
<1>1. ASSUME AccountInv PROVE ResourcesAccounted
  <2> DEFINE self == {s \in Surfaces : sf[s].self # NoId}
             held == {s \in Surfaces : vtb[s].gmr \in GmrIds}
             wired == {s \in Surfaces : vtb[s].md # NoId}
             shown == {s \in Surfaces : sf[s].enabled}
             fSelf == [s \in Surfaces |-> sf[s].self]
             fGmr == [s \in Surfaces |-> vtb[s].gmr]
             fMd == [s \in Surfaces |-> vtb[s].md]
             fStream == [s \in Surfaces |-> sf[s].stream]
  <2>1. Singly(Blocks, self, fSelf) /\ Singly(Descriptors, wired, fMd)
    BY DEF Blocks, Descriptors, Block, Descriptor, Singly
  <2>2. Singly(GmrsHeld, held, fGmr) /\ Singly(Streams, shown, fStream)
    BY DEF GmrsHeld, Streams, Region, Stream, Singly
  <2>3. self \in SUBSET Surfaces /\ held \in SUBSET Surfaces /\ wired \in SUBSET Surfaces
        /\ shown \in SUBSET Surfaces
    OBVIOUS
  <2>4. /\ Image(fSelf, self) = {sf[s].self : s \in self}
        /\ Image(fStream, shown) = {sf[s].stream : s \in shown}
    BY <2>3 DEF Image
  <2>5. /\ Image(fGmr, held) = {vtb[s].gmr : s \in held}
         /\ Image(fMd, wired) = {vtb[s].md : s \in wired}
    BY <2>3 DEF Image
  <2>6. \A s \in held : dev.gmr[vtb[s].gmr] = vtb[s].md
    BY <1>1 DEF AccountInv, Settles
  <2> HIDE DEF self, held, wired, shown, fSelf, fGmr, fMd, fStream
  <2>7. /\ IsFiniteSet(Chunks) /\ IsFiniteSet(Wired) /\ IsFiniteSet(GmrIds) /\ IsFiniteSet(StreamIds)
         /\ Pool(acc.vram, Blocks, acc.lost, Chunks) /\ Pool(acc.wired, Descriptors, {}, Wired)
         /\ Pool(acc.gmr, GmrsHeld, {}, GmrIds) /\ Pool(acc.streams, Streams, acc.lost, StreamIds)
    BY <1>1, Pools, PoolAssumption
  <2>8. Counts(acc.vram, self, fSelf, acc.lost, Chunks) /\ Counts(acc.wired, wired, fMd, {}, Wired)
    BY <2>1, <2>7, PoolCounts
  <2>9. Counts(acc.gmr, held, fGmr, {}, GmrIds) /\ Counts(acc.streams, shown, fStream, acc.lost, StreamIds)
    BY <2>2, <2>7, PoolCounts
  <2>10. /\ acc.vram = Image(fSelf, self) \cup (acc.lost \cap Chunks)
        /\ Cardinality(acc.vram) = Cardinality(self) + Cardinality(acc.lost \cap Chunks)
        /\ acc.streams = Image(fStream, shown) \cup (acc.lost \cap StreamIds)
        /\ Cardinality(acc.streams) = Cardinality(shown) + Cardinality(acc.lost \cap StreamIds)
    BY <2>8, <2>9 DEF Counts
  <2>11. ASSUME NEW have, NEW T, NEW v, NEW ids, Counts(have, T, v, {}, ids)
        PROVE  have = Image(v, T) /\ Cardinality(have) = Cardinality(T)
    <3>1. {} \cap ids = {}
      OBVIOUS
    <3>2. have = Image(v, T)
      BY <2>11, <3>1 DEF Counts
    <3>3. Cardinality(have) = Cardinality(T) + 0 /\ Cardinality(T) \in Nat
      BY <2>11, <3>1, FS_EmptySet DEF Counts
    <3> QED BY <3>2, <3>3
  <2>12. \A g \in GmrIds \ acc.gmr : dev.gmr[g] = NoId
    BY <1>1 DEF AccountInv
  <2>13. /\ acc.vram = {sf[s].self : s \in self} \cup (acc.lost \cap Chunks)
         /\ acc.streams = {sf[s].stream : s \in shown} \cup (acc.lost \cap StreamIds)
    BY <2>4, <2>10
  <2>14. /\ acc.gmr = Image(fGmr, held) /\ Cardinality(acc.gmr) = Cardinality(held)
         /\ acc.wired = Image(fMd, wired) /\ Cardinality(acc.wired) = Cardinality(wired)
    BY <2>8, <2>9, <2>11, Zenon
  <2>15. acc.gmr = {vtb[s].gmr : s \in held} /\ acc.wired = {vtb[s].md : s \in wired}
    BY <2>5, <2>14
  <2> QED
    BY <2>6, <2>10, <2>12, <2>13, <2>14, <2>15, Zenon DEF ResourcesAccounted, self, held, wired, shown
<1> QED
  BY <1>1, AccountStays, PTL

-----------------------------------------------------------------------------
(* The host surfaces.  What the device will have of them once it has        *)
(* executed what is queued.                                                 *)

Accepts(H, c) == Uses(c) \subseteq H /\ (c.op = "define" => c.sid \notin H)
Leaves(H, c) == IF c.op = "define" THEN H \cup {c.sid} ELSE IF c.op = "destroy" THEN H \ {c.sid} ELSE H

\* h tells the host surfaces before and after each of the first n commands.
Runs(H, seq, n, h) ==
  h[0] = H /\ \A i \in 1..n : Accepts(h[i - 1], seq[i]) /\ h[i] = Leaves(h[i - 1], seq[i])
Trace(d, h) == d.error = FALSE /\ Runs(d.host, d.queue, Len(d.queue), h)
Ends(d, H) == \E h : Trace(d, h) /\ h[Len(d.queue)] = H

LEMMA ExecuteGives ==
  ASSUME NEW d, DOMAIN d = DeviceFields, d.error = FALSE, NEW c, Accepts(d.host, c)
  PROVE  Execute(d, c).host = Leaves(d.host, c) /\ Execute(d, c).error = FALSE
<1> DEFINE e == [d EXCEPT !.error = @ \/ ~(Uses(c) \subseteq d.host)]
<1>1. DOMAIN e = DeviceFields /\ e.host = d.host /\ e.error = FALSE
  BY DEF Accepts, DeviceFields
<1>2. Execute(d, c) =
        CASE c.op = "define"  -> [e EXCEPT !.host = @ \cup {c.sid}, !.error = @ \/ c.sid \in d.host]
          [] c.op = "destroy" -> [e EXCEPT !.host = @ \ {c.sid}]
          [] OTHER            -> e
  BY DEF Execute
<1> HIDE DEF e
<1>3. CASE c.op = "define"
  <2>1. Execute(d, c) = [e EXCEPT !.host = @ \cup {c.sid}, !.error = @ \/ c.sid \in d.host]
    BY <1>2, <1>3
  <2>2. c.sid \notin d.host
    BY <1>3 DEF Accepts
  <2>3. Execute(d, c).host = d.host \cup {c.sid} /\ Execute(d, c).error = FALSE
    BY <1>1, <2>1, <2>2 DEF DeviceFields
  <2> QED BY <1>3, <2>3 DEF Leaves
<1>4. CASE c.op = "destroy"
  BY <1>1, <1>2, <1>4 DEF Leaves, DeviceFields
<1>5. CASE c.op \notin {"define", "destroy"}
  BY <1>1, <1>2, <1>5 DEF Leaves
<1> QED
  BY <1>3, <1>4, <1>5

\* s tells the states of a device that executes n commands one by one.
Passes(base, seq, n, s) == s[0] = base /\ \A m \in 1..n : s[m] = Execute(s[m - 1], seq[m])
FoldsTo(base, seq, n, e) == DOMAIN seq = 1..n /\ e = FoldLeft(Execute, base, seq)

LEMMA IterPasses ==
  ASSUME NEW base, NEW seq, NEW n \in Nat, NEW g, Iter(base, seq, 1..n, g),
         NEW s, s = [k \in 0..n |-> g[1..k]]
  PROVE  Passes(base, seq, n, s)
<1>1. g[1..0] = base
  BY DEF Iter
<1>2. ASSUME NEW m \in 1..n PROVE g[1..m] = Execute(g[1..(m - 1)], seq[m])
  <2>1. Max(1..m) = m
    <3>1. 1..m \in SUBSET (1..m) /\ m \in 1..m /\ m \in Nat
      OBVIOUS
    <3> QED BY <3>1, MaxIsTop
  <2>2. (1..m) \ {m} = 1..(m - 1) /\ m \in 1..m /\ 1..m \in SUBSET (1..n)
    <3>1. m \in Nat /\ m <= n /\ 1 <= m
      OBVIOUS
    <3> QED BY <3>1
  <2> QED BY <2>1, <2>2 DEF Iter
<1>3. s[0] = base
  BY <1>1
<1>4. ASSUME NEW m \in 1..n PROVE s[m] = Execute(s[m - 1], seq[m])
  <2>1. m \in 0..n /\ m - 1 \in 0..n
    OBVIOUS
  <2>2. s[m] = g[1..m] /\ s[m - 1] = g[1..(m - 1)]
    BY <2>1
  <2> QED BY <1>2, <2>2
<1> QED
  BY <1>3, <1>4 DEF Passes

LEMMA IterEnds ==
  ASSUME NEW base, NEW seq, NEW n \in Nat
  PROVE  \E s : Passes(base, seq, n, s) /\ s[n] = (CHOOSE f : Iter(base, seq, 1..n, f))[1..n]
<1> DEFINE g == CHOOSE f : Iter(base, seq, 1..n, f)
           s == [k \in 0..n |-> g[1..k]]
<1>1. Iter(base, seq, 1..n, g)
  BY IterExists
<1> HIDE DEF g
<1>2. Passes(base, seq, n, s)
  BY <1>1, IterPasses
<1>3. s[n] = g[1..n]
  OBVIOUS
<1> HIDE DEF s
<1> QED
  BY <1>2, <1>3 DEF g

LEMMA FoldPasses ==
  ASSUME NEW base, NEW n \in Nat, NEW seq, NEW e, FoldsTo(base, seq, n, e)
  PROVE  \E s : Passes(base, seq, n, s) /\ s[n] = e
<1>1. e = (CHOOSE f : Iter(base, seq, 1..n, f))[1..n]
  BY FoldIs, Zenon DEF FoldsTo
<1> QED
  BY <1>1, IterEnds, SMTT(60)

Traced(d, seq, n, h, e) ==
  DOMAIN d = DeviceFields /\ d.error = FALSE /\ n \in Nat /\ Runs(d.host, seq, n, h) /\ FoldsTo(d, seq, n, e)
Left(h, n, e) == e.host = h[n] /\ e.error = FALSE

LEMMA FoldTraces ==
  ASSUME NEW d, NEW seq, NEW n, NEW h, NEW e, Traced(d, seq, n, h, e)
  PROVE  Left(h, n, e)
<1> USE DEF Traced, Left
<1>1. PICK s : Passes(d, seq, n, s) /\ s[n] = e
  BY FoldPasses
<1> DEFINE Good(k) == DOMAIN s[k] = DeviceFields /\ s[k].host = h[k] /\ s[k].error = FALSE
           Bad == {k \in 0..n : ~Good(k)}
<1> SUFFICES ASSUME Bad # {} PROVE FALSE
  <2>1. n \in 0..n
    OBVIOUS
  <2>2. Bad = {} => Good(n)
    BY <2>1
  <2> QED BY <1>1, <2>2
<1>2. PICK m \in Bad : \A k \in Bad : <<k, m>> \notin OpToRel(<, Nat)
  <2>1. Bad \subseteq Nat
    OBVIOUS
  <2> QED BY <2>1, WFMin, NatLessThanWellFounded, Zenon
<1>3. m \in 0..n /\ \A k \in Bad : ~(k < m)
  <2>1. ASSUME NEW k \in Bad PROVE ~(k < m)
    <3>1. <<k, m>> \notin OpToRel(<, Nat)
      BY <1>2
    <3>2. k \in Nat /\ m \in Nat
      OBVIOUS
    <3> QED BY <3>1, <3>2, Zenon DEF OpToRel
  <2> QED BY <2>1
<1>4. m # 0
  <2>1. Good(0)
    BY <1>1 DEF Runs, Passes
  <2> QED BY <2>1
<1>5. Good(m - 1) /\ m \in 1..n
  BY <1>3, <1>4
<1> DEFINE f == s[m - 1]
<1>6. s[m] = Execute(f, seq[m])
  BY <1>1, <1>5 DEF Passes
<1>7. DOMAIN f = DeviceFields /\ f.host = h[m - 1] /\ f.error = FALSE
  BY <1>5
<1>8. Accepts(f.host, seq[m]) /\ h[m] = Leaves(f.host, seq[m])
  BY <1>5, <1>7 DEF Runs
<1> HIDE DEF f
<1>9. Execute(f, seq[m]).host = h[m] /\ Execute(f, seq[m]).error = FALSE
  BY <1>7, <1>8, ExecuteGives
<1>10. DOMAIN Execute(f, seq[m]) = DeviceFields
  BY <1>7, ExecuteKeeps DEF Untouched, DeviceFields
<1>11. Good(m)
  BY <1>6, <1>9, <1>10
<1> QED
  BY <1>2, <1>11

LEMMA DrainTraces ==
  ASSUME NEW d, IsDevice(d), NEW n \in 0..Len(d.queue), NEW h, Trace(d, h)
  PROVE  Left(h, n, Drain(d, n))
<1> DEFINE b == [d EXCEPT !.queue = SubSeq(@, n + 1, Len(@))]
           seq == SubSeq(d.queue, 1, n)
<1>1. PICK T : d.queue \in Seq(T)
  BY DEF IsDevice
<1>2. DOMAIN b = DeviceFields /\ b.host = d.host /\ b.error = FALSE
  BY DEF IsDevice, DeviceFields, Trace
<1>3. DOMAIN seq = 1..n /\ n \in Nat /\ \A i \in 1..n : seq[i] = d.queue[i] /\ i \in 1..Len(d.queue)
  BY <1>1
<1>4. FoldsTo(b, seq, n, Drain(d, n))
  BY <1>3, Zenon DEF Drain, FoldsTo
<1> HIDE DEF b, seq
<1>5. Runs(b.host, seq, n, h)
  BY <1>2, <1>3 DEF Trace, Runs
<1>6. Traced(b, seq, n, h, Drain(d, n))
  BY <1>2, <1>3, <1>4, <1>5 DEF Traced
<1> QED
  BY <1>6, FoldTraces, Zenon

LEMMA DrainEnds ==
  ASSUME NEW d, IsDevice(d), NEW n \in 0..Len(d.queue), NEW H, Ends(d, H)
  PROVE  Ends(Drain(d, n), H)
<1> DEFINE e == Drain(d, n)
<1>1. PICK h : Trace(d, h) /\ h[Len(d.queue)] = H
  BY DEF Ends
<1>2. PICK T : d.queue \in Seq(T)
  BY DEF IsDevice
<1>3. e.queue = SubSeq(d.queue, n + 1, Len(d.queue))
  BY <1>2, DrainGives DEF IsDevice, DeviceFields
<1>4. e.host = h[n] /\ e.error = FALSE
  BY <1>1, DrainTraces DEF Left
<1> HIDE DEF e
<1> DEFINE k == [i \in 0..(Len(d.queue) - n) |-> h[i + n]]
<1>5. Len(e.queue) = Len(d.queue) - n /\ Len(d.queue) - n \in Nat /\ n \in Nat
  BY <1>2, <1>3
<1>6. k[0] = h[n] /\ k[Len(e.queue)] = H
  BY <1>1, <1>5
<1>7. ASSUME NEW i \in 1..Len(e.queue)
      PROVE  Accepts(k[i - 1], e.queue[i]) /\ k[i] = Leaves(k[i - 1], e.queue[i])
  <2>1. i + n \in 1..Len(d.queue) /\ e.queue[i] = d.queue[i + n]
    BY <1>2, <1>3, <1>5, SMTT(60)
  <2>2. k[i] = h[i + n] /\ k[i - 1] = h[(i + n) - 1]
    BY <1>5
  <2> HIDE DEF k
  <2> QED BY <1>1, <2>1, <2>2 DEF Trace, Runs
<1> HIDE DEF k
<1>8. Trace(e, k)
  BY <1>4, <1>6, <1>7 DEF Trace, Runs
<1>9. Ends(e, H)
  BY <1>6, <1>8 DEF Ends
<1> QED
  BY <1>9 DEF e

\* One command more.
LEMMA AppendEnds ==
  ASSUME NEW d, IsDevice(d), NEW H, Ends(d, H), NEW c, Accepts(H, c),
         NEW e, e.queue = d.queue \o <<c>>, e.host = d.host, e.error = d.error
  PROVE  Ends(e, Leaves(H, c))
<1>1. PICK h : Trace(d, h) /\ h[Len(d.queue)] = H
  BY DEF Ends
<1>2. PICK T : d.queue \in Seq(T)
  BY DEF IsDevice
<1> DEFINE l == Len(d.queue)
           k == [i \in 0..(l + 1) |-> IF i <= l THEN h[i] ELSE Leaves(H, c)]
<1>3. l \in Nat /\ Len(e.queue) = l + 1 /\ e.queue[l + 1] = c /\ \A i \in 1..l : e.queue[i] = d.queue[i]
  <2>1. d.queue \in Seq(T \cup {c}) /\ <<c>> \in Seq(T \cup {c})
    BY <1>2
  <2> QED BY <2>1
<1>4. k[0] = h[0] /\ k[l] = H /\ k[l + 1] = Leaves(H, c) /\ \A i \in 0..l : k[i] = h[i]
  BY <1>1, <1>3
<1> HIDE DEF k
<1>5. ASSUME NEW i \in 1..(l + 1)
      PROVE  Accepts(k[i - 1], e.queue[i]) /\ k[i] = Leaves(k[i - 1], e.queue[i])
  <2>1. CASE i = l + 1
    <3>1. i - 1 = l
      BY <1>3, <2>1
    <3> QED BY <1>3, <1>4, <2>1, <3>1
  <2>2. CASE i # l + 1
    <3>1. i \in 1..l /\ i \in 0..l /\ i - 1 \in 0..l
      BY <1>3, <2>2
    <3>2. Accepts(h[i - 1], d.queue[i]) /\ h[i] = Leaves(h[i - 1], d.queue[i])
      BY <1>1, <3>1 DEF Trace, Runs
    <3> QED BY <1>3, <1>4, <3>1, <3>2
  <2> QED BY <2>1, <2>2
<1>6. Trace(e, k)
  BY <1>1, <1>3, <1>4, <1>5 DEF Trace, Runs
<1> QED
  BY <1>3, <1>4, <1>6 DEF Ends

\* Queueing makes room first, which changes nothing of what is to come.
LEMMA RoomEnds ==
  ASSUME NEW x, IsDevice(x.dev), NEW T, NEW cmds \in Seq(T), NEW H,
         \A e : e.queue = x.dev.queue \o cmds /\ e.host = x.dev.host /\ e.error = x.dev.error => Ends(e, H),
         "dev" \in DOMAIN x
  PROVE  Ends(Queue(x, cmds).dev, H)
<1> DEFINE d == [x.dev EXCEPT !.queue = @ \o cmds]
<1>1. DOMAIN d = DeviceFields /\ d.queue = x.dev.queue \o cmds /\ d.host = x.dev.host /\ d.error = x.dev.error
      /\ d.gmr = x.dev.gmr
  BY DEF DeviceFields, IsDevice
<1>2. PICK U : x.dev.queue \in Seq(U)
  BY DEF IsDevice
<1>3. d.queue \in Seq(U \cup T) /\ Len(d.queue) \in Nat
  <2>1. x.dev.queue \in Seq(U \cup T) /\ cmds \in Seq(U \cup T)
    BY <1>2
  <2> QED BY <1>1, <2>1
<1>4. IsDevice(d) /\ Ends(d, H)
  BY <1>1, <1>3 DEF IsDevice
<1>5. Queue(x, cmds) = [x EXCEPT !.dev = IF Len(d.queue) <= MaxQueue THEN d ELSE Drain(d, Len(d.queue) - MaxQueue)]
  BY Zenon DEF Queue
<1> HIDE DEF d
<1>6. Queue(x, cmds).dev \in {d} \/ (Queue(x, cmds).dev = Drain(d, Len(d.queue) - MaxQueue) /\ ~(Len(d.queue) <= MaxQueue))
  BY <1>5
<1>7. ~(Len(d.queue) <= MaxQueue) => Len(d.queue) - MaxQueue \in 0..Len(d.queue)
  BY <1>3, PoolAssumption
<1> QED
  BY <1>4, <1>6, <1>7, DrainEnds

LEMMA QueueEnds ==
  ASSUME NEW x, IsDevice(x.dev), "dev" \in DOMAIN x, NEW H, Ends(x.dev, H), NEW c, Accepts(H, c)
  PROVE  Ends(Queue(x, <<c>>).dev, Leaves(H, c))
<1>1. <<c>> \in Seq({c})
  OBVIOUS
<1>2. \A e : e.queue = x.dev.queue \o <<c>> /\ e.host = x.dev.host /\ e.error = x.dev.error
               => Ends(e, Leaves(H, c))
  BY AppendEnds
<1> QED
  BY <1>1, <1>2, RoomEnds

LEMMA WaitEnds ==
  ASSUME NEW x, IsDevice(x.dev), "dev" \in DOMAIN x, NEW H, Ends(x.dev, H)
  PROVE  Ends(SyncFIFO(x).dev, H) /\ \A f : Ends(SyncToFence(x, f).dev, H)
<1>1. PICK T : x.dev.queue \in Seq(T)
  BY DEF IsDevice
<1>2. Len(x.dev.queue) \in Nat /\ DOMAIN x.dev.queue = 1..Len(x.dev.queue)
  BY <1>1
<1>3. Ends(SyncFIFO(x).dev, H)
  <2>1. Len(x.dev.queue) \in 0..Len(x.dev.queue)
    BY <1>2
  <2>2. SyncFIFO(x).dev = Drain(x.dev, Len(x.dev.queue))
    BY DEF SyncFIFO
  <2> QED BY <2>1, <2>2, DrainEnds
<1>4. ASSUME NEW f PROVE Ends(SyncToFence(x, f).dev, H)
  <2> DEFINE at == {i \in DOMAIN x.dev.queue :
                      "fence" \in DOMAIN x.dev.queue[i] /\ x.dev.queue[i].fence = f}
  <2>1. SyncToFence(x, f) = IF at = {} THEN x ELSE [x EXCEPT !.dev = Drain(@, Max(at))]
    BY Zenon DEF SyncToFence
  <2> DEFINE l == Len(x.dev.queue)
  <2>2. at \in SUBSET (1..l) /\ l \in Nat
    BY <1>2
  <2> HIDE DEF at, l
  <2>3. at # {} => Max(at) \in 0..l
    <3>1. at # {} => Max(at) \in at
      BY <2>2, MaxGives
    <3>2. \A k \in at : k \in 0..l
      BY <2>2
    <3> QED BY <3>1, <3>2
  <2>4. at # {} => SyncToFence(x, f).dev = Drain(x.dev, Max(at))
    BY <2>1
  <2> QED BY <2>1, <2>3, <2>4, DrainEnds DEF l
<1> QED
  BY <1>3, <1>4

-----------------------------------------------------------------------------
(* What leaves the master surface and the host surfaces to come alone.      *)

Calm(x, y) ==
  /\ Shape(y)
  /\ y.sf.master = x.sf.master /\ y.sf.state = x.sf.state
  /\ y.acc.count = x.acc.count /\ y.acc.sids = x.acc.sids /\ y.acc.master = x.acc.master
  /\ \A H : Ends(x.dev, H) => Ends(y.dev, H)

LEMMA CalmTrans ==
  ASSUME NEW x, NEW y, NEW z, Calm(x, y), Calm(y, z) PROVE Calm(x, z)
BY DEF Calm

LEMMA CalmShape == ASSUME NEW x, NEW y, Calm(x, y) PROVE Shape(y)
BY DEF Calm

LEMMA SameEnds ==
  ASSUME NEW d, NEW e, e.queue = d.queue, e.host = d.host, e.error = d.error, NEW H, Ends(d, H)
  PROVE  Ends(e, H)
BY DEF Ends, Trace

\* The fields that are neither.
Aside(x, y) ==
  /\ Shape(y)
  /\ y.sf.master = x.sf.master /\ y.sf.state = x.sf.state
  /\ y.acc.count = x.acc.count /\ y.acc.sids = x.acc.sids /\ y.acc.master = x.acc.master
  /\ y.dev.queue = x.dev.queue /\ y.dev.host = x.dev.host /\ y.dev.error = x.dev.error

LEMMA AsideCalm == ASSUME NEW x, NEW y, Aside(x, y) PROVE Calm(x, y)
BY SameEnds DEF Aside, Calm

LEMMA FieldsCalm ==
  ASSUME NEW x, Shape(x)
  PROVE  /\ Calm(x, x)
         /\ \A v : /\ Calm(x, [x EXCEPT !.sf.wid = v]) /\ Calm(x, [x EXCEPT !.sf.fit = v])
                   /\ Calm(x, [x EXCEPT !.sf.region = v]) /\ Calm(x, [x EXCEPT !.sf.skip = v])
                   /\ Calm(x, [x EXCEPT !.sf.screen = v]) /\ Calm(x, [x EXCEPT !.sf.direct = v])
                   /\ Calm(x, [x EXCEPT !.sf.map = v]) /\ Calm(x, [x EXCEPT !.sf.video = v])
                   /\ Calm(x, [x EXCEPT !.sf.lock = v]) /\ Calm(x, [x EXCEPT !.sf.stream = v])
                   /\ Calm(x, [x EXCEPT !.vtb.gmr = v]) /\ Calm(x, [x EXCEPT !.vtb.gart = v])
                   /\ Calm(x, [x EXCEPT !.vtb.fence = v])
                   /\ Calm(x, [x EXCEPT !.acc.vram = v]) /\ Calm(x, [x EXCEPT !.acc.lost = v])
                   /\ Calm(x, [x EXCEPT !.acc.wired = v]) /\ Calm(x, [x EXCEPT !.acc.gmr = v])
                   /\ Calm(x, [x EXCEPT !.acc.streams = v]) /\ Calm(x, [x EXCEPT !.acc.blitbug = v])
                   /\ Calm(x, [x EXCEPT !.acc.counter = v]) /\ Calm(x, [x EXCEPT !.acc.primary = v])
         /\ \A v, w : /\ Calm(x, [x EXCEPT !.sf.region = v, !.sf.client = w])
                      /\ Calm(x, [x EXCEPT !.sf.fit = v, !.sf.offset = w])
                      /\ Calm(x, [x EXCEPT !.sf.stream = v, !.sf.enabled = w])
                      /\ Calm(x, [x EXCEPT !.sf.enabled = v, !.sf.stream = w])
                      /\ Calm(x, [x EXCEPT !.sf.self = v, !.sf.fit = w])
                      /\ Calm(x, [x EXCEPT !.acc.wired = v, !.vtb.md = w])
                      /\ Calm(x, [x EXCEPT !.vtb.gart = v, !.vtb.fence = w])
                      /\ Calm(x, [x EXCEPT !.vtb.gmr = v, !.vtb.fence = w])
                      /\ Calm(x, [x EXCEPT !.dev.gmr[v] = w])
<1> USE DEF Aside, Shape, IsDevice, SurfaceFields, BufferFields, AccelFields, DeviceFields
<1>1. Aside(x, x)
  OBVIOUS
<1>2. ASSUME NEW v
      PROVE  /\ Aside(x, [x EXCEPT !.sf.wid = v])
             /\ Aside(x, [x EXCEPT !.sf.fit = v])
             /\ Aside(x, [x EXCEPT !.sf.region = v])
             /\ Aside(x, [x EXCEPT !.sf.skip = v])
  OBVIOUS
<1>3. ASSUME NEW v
      PROVE  /\ Aside(x, [x EXCEPT !.sf.screen = v])
             /\ Aside(x, [x EXCEPT !.sf.direct = v])
             /\ Aside(x, [x EXCEPT !.sf.map = v])
             /\ Aside(x, [x EXCEPT !.sf.video = v])
  OBVIOUS
<1>4. ASSUME NEW v
      PROVE  /\ Aside(x, [x EXCEPT !.sf.lock = v])
             /\ Aside(x, [x EXCEPT !.sf.stream = v])
             /\ Aside(x, [x EXCEPT !.vtb.gmr = v])
             /\ Aside(x, [x EXCEPT !.vtb.gart = v])
  OBVIOUS
<1>5. ASSUME NEW v
      PROVE  /\ Aside(x, [x EXCEPT !.vtb.fence = v])
             /\ Aside(x, [x EXCEPT !.acc.vram = v])
             /\ Aside(x, [x EXCEPT !.acc.lost = v])
             /\ Aside(x, [x EXCEPT !.acc.wired = v])
  OBVIOUS
<1>6. ASSUME NEW v
      PROVE  /\ Aside(x, [x EXCEPT !.acc.gmr = v])
             /\ Aside(x, [x EXCEPT !.acc.streams = v])
             /\ Aside(x, [x EXCEPT !.acc.blitbug = v])
             /\ Aside(x, [x EXCEPT !.acc.counter = v])
  OBVIOUS
<1>7. ASSUME NEW v
      PROVE  /\ Aside(x, [x EXCEPT !.acc.primary = v])
  OBVIOUS
<1>8. ASSUME NEW v, NEW w
      PROVE  /\ Aside(x, [x EXCEPT !.sf.region = v, !.sf.client = w])
             /\ Aside(x, [x EXCEPT !.sf.fit = v, !.sf.offset = w])
             /\ Aside(x, [x EXCEPT !.sf.stream = v, !.sf.enabled = w])
             /\ Aside(x, [x EXCEPT !.sf.enabled = v, !.sf.stream = w])
             /\ Aside(x, [x EXCEPT !.sf.self = v, !.sf.fit = w])
  OBVIOUS
<1>9. ASSUME NEW v, NEW w
      PROVE  /\ Aside(x, [x EXCEPT !.acc.wired = v, !.vtb.md = w])
             /\ Aside(x, [x EXCEPT !.vtb.gart = v, !.vtb.fence = w])
             /\ Aside(x, [x EXCEPT !.vtb.gmr = v, !.vtb.fence = w])
  OBVIOUS
<1>10. ASSUME NEW v, NEW w PROVE Aside(x, [x EXCEPT !.dev.gmr[v] = w])
  <2> DEFINE y == [x EXCEPT !.dev.gmr[v] = w]
  <2>1. /\ DOMAIN y = DOMAIN x /\ y.sf = x.sf /\ y.vtb = x.vtb /\ y.acc = x.acc
        /\ y.dev = [x.dev EXCEPT !.gmr[v] = w]
    OBVIOUS
  <2> HIDE DEF y
  <2>2. Aside(x, y)
    BY <2>1
  <2> QED BY <2>2 DEF y
<1> HIDE DEF Aside, Shape, IsDevice, SurfaceFields, BufferFields, AccelFields, DeviceFields
<1> QED
  BY <1>1, <1>2, <1>3, <1>4, <1>5, <1>6, <1>7, <1>8, <1>9, <1>10, AsideCalm, ZenonT(60)

LEMMA PutCalm ==
  ASSUME NEW x, NEW y, Calm(x, y)
  PROVE  /\ \A v : /\ Calm(x, [y EXCEPT !.sf.wid = v]) /\ Calm(x, [y EXCEPT !.sf.fit = v])
                   /\ Calm(x, [y EXCEPT !.sf.region = v]) /\ Calm(x, [y EXCEPT !.sf.skip = v])
                   /\ Calm(x, [y EXCEPT !.sf.screen = v]) /\ Calm(x, [y EXCEPT !.sf.direct = v])
                   /\ Calm(x, [y EXCEPT !.sf.map = v]) /\ Calm(x, [y EXCEPT !.sf.video = v])
                   /\ Calm(x, [y EXCEPT !.sf.lock = v]) /\ Calm(x, [y EXCEPT !.sf.stream = v])
                   /\ Calm(x, [y EXCEPT !.vtb.gmr = v]) /\ Calm(x, [y EXCEPT !.vtb.gart = v])
                   /\ Calm(x, [y EXCEPT !.vtb.fence = v])
                   /\ Calm(x, [y EXCEPT !.acc.vram = v]) /\ Calm(x, [y EXCEPT !.acc.lost = v])
                   /\ Calm(x, [y EXCEPT !.acc.wired = v]) /\ Calm(x, [y EXCEPT !.acc.gmr = v])
                   /\ Calm(x, [y EXCEPT !.acc.streams = v]) /\ Calm(x, [y EXCEPT !.acc.blitbug = v])
                   /\ Calm(x, [y EXCEPT !.acc.counter = v]) /\ Calm(x, [y EXCEPT !.acc.primary = v])
         /\ \A v, w : /\ Calm(x, [y EXCEPT !.sf.region = v, !.sf.client = w])
                      /\ Calm(x, [y EXCEPT !.sf.fit = v, !.sf.offset = w])
                      /\ Calm(x, [y EXCEPT !.sf.stream = v, !.sf.enabled = w])
                      /\ Calm(x, [y EXCEPT !.sf.enabled = v, !.sf.stream = w])
                      /\ Calm(x, [y EXCEPT !.sf.self = v, !.sf.fit = w])
                      /\ Calm(x, [y EXCEPT !.acc.wired = v, !.vtb.md = w])
                      /\ Calm(x, [y EXCEPT !.vtb.gart = v, !.vtb.fence = w])
                      /\ Calm(x, [y EXCEPT !.vtb.gmr = v, !.vtb.fence = w])
                      /\ Calm(x, [y EXCEPT !.dev.gmr[v] = w])
<1>0. Shape(y) /\ \A z : Calm(y, z) => Calm(x, z)
  BY CalmShape, CalmTrans
<1>1. ASSUME NEW v
      PROVE  /\ Calm(x, [y EXCEPT !.sf.wid = v])
             /\ Calm(x, [y EXCEPT !.sf.fit = v])
             /\ Calm(x, [y EXCEPT !.sf.region = v])
             /\ Calm(x, [y EXCEPT !.sf.skip = v])
             /\ Calm(x, [y EXCEPT !.sf.screen = v])
             /\ Calm(x, [y EXCEPT !.sf.direct = v])
             /\ Calm(x, [y EXCEPT !.sf.map = v])
             /\ Calm(x, [y EXCEPT !.sf.video = v])
             /\ Calm(x, [y EXCEPT !.sf.lock = v])
             /\ Calm(x, [y EXCEPT !.sf.stream = v])
             /\ Calm(x, [y EXCEPT !.vtb.gmr = v])
  BY <1>0, FieldsCalm, Zenon
<1>2. ASSUME NEW v
      PROVE  /\ Calm(x, [y EXCEPT !.vtb.gart = v])
             /\ Calm(x, [y EXCEPT !.vtb.fence = v])
             /\ Calm(x, [y EXCEPT !.acc.vram = v])
             /\ Calm(x, [y EXCEPT !.acc.lost = v])
             /\ Calm(x, [y EXCEPT !.acc.wired = v])
             /\ Calm(x, [y EXCEPT !.acc.gmr = v])
             /\ Calm(x, [y EXCEPT !.acc.streams = v])
             /\ Calm(x, [y EXCEPT !.acc.blitbug = v])
             /\ Calm(x, [y EXCEPT !.acc.counter = v])
             /\ Calm(x, [y EXCEPT !.acc.primary = v])
  BY <1>0, FieldsCalm, Zenon
<1>3. ASSUME NEW v, NEW w
      PROVE  /\ Calm(x, [y EXCEPT !.sf.region = v, !.sf.client = w])
             /\ Calm(x, [y EXCEPT !.sf.fit = v, !.sf.offset = w])
             /\ Calm(x, [y EXCEPT !.sf.stream = v, !.sf.enabled = w])
             /\ Calm(x, [y EXCEPT !.sf.enabled = v, !.sf.stream = w])
             /\ Calm(x, [y EXCEPT !.sf.self = v, !.sf.fit = w])
             /\ Calm(x, [y EXCEPT !.acc.wired = v, !.vtb.md = w])
             /\ Calm(x, [y EXCEPT !.vtb.gart = v, !.vtb.fence = w])
             /\ Calm(x, [y EXCEPT !.vtb.gmr = v, !.vtb.fence = w])
             /\ Calm(x, [y EXCEPT !.dev.gmr[v] = w])
  BY <1>0, FieldsCalm, ZenonT(60)
<1> QED
  BY <1>1, <1>2, <1>3, Zenon

\* Commands that use no host surface, and waiting for the device.
LEMMA QueueCalm ==
  ASSUME NEW x, NEW y, Calm(x, y), NEW c, Uses(c) = {}, c.op \notin {"define", "destroy"}
  PROVE  Calm(x, Queue(y, <<c>>))
<1> DEFINE z == Queue(y, <<c>>)
<1>1. Shape(y)
  BY CalmShape
<1>2. <<c>> \in Seq({c})
  OBVIOUS
<1>3. z = [y EXCEPT !.dev = z.dev] /\ IsDevice(z.dev)
  BY <1>1, <1>2, QueueGives, ZenonT(60) DEF Shape, IsDevice
<1>4. \A H : Accepts(H, c) /\ Leaves(H, c) = H
  BY DEF Accepts, Leaves
<1>5. ASSUME NEW H, Ends(y.dev, H) PROVE Ends(z.dev, H)
  <2>1. Ends(z.dev, Leaves(H, c))
    BY <1>1, <1>4, <1>5, QueueEnds DEF Shape
  <2> QED BY <1>4, <2>1
<1> HIDE DEF z
<1>6. DOMAIN z = DOMAIN y /\ z.sf = y.sf /\ z.vtb = y.vtb /\ z.acc = y.acc
  BY <1>1, <1>3 DEF Shape
<1>7. Shape(z)
  BY <1>1, <1>3, <1>6 DEF Shape
<1>8. Calm(y, z)
  BY <1>5, <1>6, <1>7 DEF Calm
<1> QED
  BY <1>8, CalmTrans DEF z

LEMMA NeutralCalm ==
  ASSUME NEW x, NEW y, Calm(x, y)
  PROVE  /\ \A a, b : Calm(x, blitToScreen(y, a, b)) /\ Calm(x, blitFromScreen(y, a, b))
         /\ \A a, b : Calm(x, VideoSetRegsInRange(y, a, b)) /\ Calm(x, VideoSetReg(y, a))
         /\ Calm(x, UpdateFramebufferAutoRing(y)) /\ Calm(x, createPrimaryScreen(y))
<1>1. \A a, b : /\ BlitGMRFB(a, b).op = "gmrfb" /\ VideoFlush(a, b).op = "video"
                /\ DefineScreen.op = "screen" /\ RectUpdate.op = "update"
  BY DEF BlitGMRFB, VideoFlush, DefineScreen, RectUpdate
<1>2. \A c : c.op \in {"gmrfb", "video", "screen", "update"} => Calm(x, Queue(y, <<c>>))
  <2> SUFFICES ASSUME NEW c, c.op \in {"gmrfb", "video", "screen", "update"}
               PROVE  Calm(x, Queue(y, <<c>>))
    OBVIOUS
  <2>1. Uses(c) = {} /\ c.op \notin {"define", "destroy"}
    BY DEF Uses
  <2> QED BY <2>1, QueueCalm
<1>3. \A a, b : /\ Calm(x, Queue(y, <<BlitGMRFB(a, b)>>)) /\ Calm(x, Queue(y, <<VideoFlush(a, b)>>))
                /\ Calm(x, Queue(y, <<DefineScreen>>)) /\ Calm(x, Queue(y, <<RectUpdate>>))
  BY <1>1, <1>2
<1>4. Calm(x, createPrimaryScreen(y))
  <2>1. Calm(x, [Queue(y, <<DefineScreen>>) EXCEPT !.acc.primary = TRUE])
    BY <1>3, PutCalm, Zenon
  <2> QED BY <2>1 DEF createPrimaryScreen
<1> QED
  BY <1>3, <1>4, Zenon DEF blitToScreen, blitFromScreen, VideoSetRegsInRange, VideoSetReg, UpdateFramebufferAutoRing

LEMMA WaitCalm ==
  ASSUME NEW x, NEW y, Calm(x, y)
  PROVE  Calm(x, SyncFIFO(y)) /\ \A f : Calm(x, SyncToFence(y, f))
<1>1. Shape(y) /\ Calm(y, y)
  BY CalmShape, FieldsCalm
<1>2. ASSUME NEW z, z = y \/ z = [y EXCEPT !.dev = z.dev], IsDevice(z.dev),
             \A H : Ends(y.dev, H) => Ends(z.dev, H)
      PROVE  Calm(y, z)
  <2>1. DOMAIN z = DOMAIN y /\ z.sf = y.sf /\ z.vtb = y.vtb /\ z.acc = y.acc
    BY <1>1, <1>2 DEF Shape
  <2>2. Shape(z)
    BY <1>1, <1>2, <2>1 DEF Shape
  <2> QED BY <1>2, <2>1, <2>2 DEF Calm
<1>3. IsDevice(y.dev) /\ "dev" \in DOMAIN y
  BY <1>1 DEF Shape
<1>4. \A H : Ends(y.dev, H) => Ends(SyncFIFO(y).dev, H) /\ \A f : Ends(SyncToFence(y, f).dev, H)
  BY <1>3, WaitEnds
<1>5. Calm(y, SyncFIFO(y))
  <2> DEFINE z == SyncFIFO(y)
  <2>1. z = [y EXCEPT !.dev = z.dev] /\ IsDevice(z.dev)
    BY <1>1, SyncGives DEF Shape
  <2>2. \A H : Ends(y.dev, H) => Ends(z.dev, H)
    BY <1>4
  <2> HIDE DEF z
  <2> QED BY <1>2, <2>1, <2>2 DEF z
<1>6. ASSUME NEW f PROVE Calm(y, SyncToFence(y, f))
  <2> DEFINE z == SyncToFence(y, f)
  <2>1. (z = y \/ z = [y EXCEPT !.dev = z.dev]) /\ IsDevice(z.dev)
    BY <1>1, FenceGives DEF Shape
  <2>2. \A H : Ends(y.dev, H) => Ends(z.dev, H)
    BY <1>4
  <2> HIDE DEF z
  <2> QED BY <1>2, <2>1, <2>2 DEF z
<1> QED
  BY <1>5, <1>6, CalmTrans

\* The backing and its maps.
LEMMA PoolsCalm ==
  ASSUME NEW x, NEW y, Calm(x, y)
  PROVE  /\ \A v : /\ Calm(x, VRAMFree(y, v)) /\ Calm(x, FreeStreamID(y, v)) /\ Calm(x, FreeGMRID(y, v))
                   /\ Calm(x, destroyGMR(y, v)) /\ Calm(x, Lock(y, v)) /\ Calm(x, Unlock(y, v))
                   /\ Calm(x, releaseBackingMap(y, v))
         /\ Calm(x, discard(y))
<1>1. ASSUME NEW v
      PROVE  /\ Calm(x, VRAMFree(y, v)) /\ Calm(x, FreeStreamID(y, v)) /\ Calm(x, FreeGMRID(y, v))
             /\ Calm(x, destroyGMR(y, v)) /\ Calm(x, Lock(y, v)) /\ Calm(x, Unlock(y, v))
  BY PutCalm, Zenon DEF VRAMFree, FreeStreamID, FreeGMRID, destroyGMR, Lock, Unlock
<1>2. ASSUME NEW v PROVE Calm(x, releaseBackingMap(y, v))
  <2>1. releaseBackingMap(y, v) = [y EXCEPT !.sf.map = [@ EXCEPT ![v] = NoId]]
    BY DEF releaseBackingMap
  <2>2. Calm(x, [y EXCEPT !.sf.map = [y.sf.map EXCEPT ![v] = NoId]])
    BY PutCalm, Zenon
  <2> QED BY <2>1, <2>2
<1>3. Calm(x, discard(y))
  BY PutCalm, Zenon DEF discard
<1> QED
  BY <1>1, <1>2, <1>3

LEMMA SyncCalm == ASSUME NEW x, NEW y, Calm(x, y) PROVE Calm(x, sync(y)) /\ Calm(x, complete(y))
<1>1. \A z : Calm(x, z) => Calm(x, sync(z))
  BY WaitCalm, PutCalm, Zenon DEF sync
<1> DEFINE z == sync(y)
<1>2. Calm(x, z)
  BY <1>1
<1>3. complete(y) = IF z.vtb.gmr \notin GmrIds THEN z
                    ELSE [FreeGMRID(destroyGMR(z, z.vtb.gmr), z.vtb.gmr) EXCEPT !.vtb.gmr = NoId]
  BY DEF complete
<1> HIDE DEF z
<1>4. Calm(x, FreeGMRID(destroyGMR(z, z.vtb.gmr), z.vtb.gmr))
  BY <1>2, PoolsCalm, Zenon
<1> DEFINE f == FreeGMRID(destroyGMR(z, z.vtb.gmr), z.vtb.gmr)
<1>5. Calm(x, complete(y))
  <2>1. Calm(x, f)
    BY <1>4
  <2>2. complete(y) = z \/ complete(y) = [f EXCEPT !.vtb.gmr = NoId]
    BY <1>3
  <2> HIDE DEF f
  <2>3. Calm(x, [f EXCEPT !.vtb.gmr = NoId])
    BY <2>1, PutCalm, Zenon
  <2> QED BY <1>2, <2>2, <2>3, Zenon
<1> QED
  BY <1>1, <1>5

LEMMA ReleaseCalm == ASSUME NEW x, NEW y, Calm(x, y) PROVE Calm(x, releaseBacking(y))
<1> DEFINE a == discard(complete(y))
           z == IF a.sf.self # NoId THEN VRAMFree(a, a.sf.self) ELSE a
<1>1. Calm(x, z)
  BY SyncCalm, PoolsCalm
<1>2. releaseBacking(y) = [z EXCEPT !.sf.self = NoId, !.sf.map = [i \in 0..1 |-> NoId],
                                    !.vtb = NewTransferBuffer(@.tag)]
  BY DEF releaseBacking
<1> HIDE DEF z
<1>3. Shape(z)
  BY <1>1, CalmShape
<1> DEFINE w == releaseBacking(y)
<1>4. /\ DOMAIN w = DOMAIN z /\ w.acc = z.acc /\ w.dev = z.dev /\ w.vtb = NewTransferBuffer(z.vtb.tag)
      /\ w.sf = [z.sf EXCEPT !.self = NoId, !.map = [i \in 0..1 |-> NoId]]
  BY <1>2, <1>3 DEF Shape
<1> HIDE DEF w
<1>5. Aside(z, w)
  BY <1>3, <1>4 DEF Aside, Shape, SurfaceFields, BufferFields, NewTransferBuffer
<1> QED
  BY <1>1, <1>5, AsideCalm, CalmTrans DEF w

LEMMA PrepareCalm == ASSUME NEW x, NEW y, Calm(x, y) PROVE \A r \in prepare(y) : Calm(x, r.x)
<1> SUFFICES ASSUME NEW r \in prepare(y) PROVE Calm(x, r.x)
  OBVIOUS
<1> DEFINE Made(a, c) == IF c.ok THEN [ok |-> TRUE, x |-> [c.x EXCEPT !.vtb.gmr = a.id]]
                         ELSE [ok |-> FALSE, x |-> [FreeGMRID(c.x, a.id) EXCEPT !.vtb.gmr = NoId]]
<1>1. \/ r = [ok |-> TRUE, x |-> y] \/ r = [ok |-> FALSE, x |-> [y EXCEPT !.vtb.gmr = NoId]]
      \/ \E a \in AllocGMRID(y) : \E c \in createGMR(a.x, a.id, y.vtb.md) : r = Made(a, c)
  BY DEF prepare
<1>2. Calm(x, [y EXCEPT !.vtb.gmr = NoId])
  BY PutCalm, Zenon
<1>3. CASE r = [ok |-> TRUE, x |-> y] \/ r = [ok |-> FALSE, x |-> [y EXCEPT !.vtb.gmr = NoId]]
  <2> DEFINE z == [y EXCEPT !.vtb.gmr = NoId]
  <2> HIDE DEF z
  <2>1. r.x = y \/ r.x = z
    BY <1>3 DEF z
  <2> QED BY <1>2, <2>1 DEF z
<1>4. CASE \E a \in AllocGMRID(y) : \E c \in createGMR(a.x, a.id, y.vtb.md) : r = Made(a, c)
  <2> HIDE DEF Made
  <2>1. PICK a \in AllocGMRID(y) : \E c \in createGMR(a.x, a.id, y.vtb.md) : r = Made(a, c)
    BY <1>4
  <2>2. PICK c \in createGMR(a.x, a.id, y.vtb.md) : r = Made(a, c)
    BY <2>1
  <2> DEFINE z == a.x
             e == c.x
             f == FreeGMRID(e, a.id)
  <2>3. Calm(x, z)
    <3>1. PICK g \in GmrIds \ y.acc.gmr : a = [id |-> g, x |-> [y EXCEPT !.acc.gmr = @ \cup {g}]]
      BY DEF AllocGMRID
    <3>2. z = [y EXCEPT !.acc.gmr = @ \cup {g}]
      BY <3>1
    <3> HIDE DEF z
    <3>3. Calm(x, [y EXCEPT !.acc.gmr = @ \cup {g}])
      BY PutCalm, Zenon
    <3> QED BY <3>2, <3>3
  <2>4. Calm(x, e)
    <3>1. e = z \/ e = [z EXCEPT !.dev.gmr[a.id] = y.vtb.md]
      BY DEF createGMR
    <3> HIDE DEF z, e
    <3>2. Calm(x, [z EXCEPT !.dev.gmr[a.id] = y.vtb.md])
      BY <2>3, PutCalm, Zenon
    <3> QED BY <2>3, <3>1, <3>2, Zenon
  <2>5. r.x = [e EXCEPT !.vtb.gmr = a.id] \/ r.x = [f EXCEPT !.vtb.gmr = NoId]
    BY <2>2 DEF Made
  <2> HIDE DEF z, e
  <2>6. Calm(x, f)
    BY <2>4, PoolsCalm, Zenon
  <2> HIDE DEF f
  <2>7. Calm(x, [e EXCEPT !.vtb.gmr = a.id]) /\ Calm(x, [f EXCEPT !.vtb.gmr = NoId])
    BY <2>4, <2>6, PutCalm, Zenon
  <2> QED BY <2>5, <2>7, Zenon
<1> QED
  BY <1>1, <1>3, <1>4

LEMMA DescribeCalm ==
  ASSUME NEW x, NEW y, Calm(x, y), NEW gart PROVE \A r \in Describe(y, gart) : Calm(x, r.x)
<1> SUFFICES ASSUME NEW r \in Describe(y, gart) PROVE Calm(x, r.x)
  OBVIOUS
<1> DEFINE With(md) == [y EXCEPT !.acc.wired = @ \cup {md}, !.vtb.md = md]
           Made(p) == [p.x EXCEPT !.vtb.gart = gart, !.vtb.fence = FALSE]
           Out(p) == IF p.ok THEN [ok |-> TRUE, x |-> Made(p)] ELSE [ok |-> FALSE, x |-> discard(p.x)]
<1>1. Describe(y, gart) = {[ok |-> FALSE, x |-> y]}
                          \cup UNION {{Out(p) : p \in prepare(With(md))} : md \in Wired \ y.acc.wired}
  BY Zenon DEF Describe
<1>2. ASSUME NEW md PROVE Calm(x, With(md))
  BY PutCalm, Zenon
<1> HIDE DEF With, Out
<1>3. CASE r = [ok |-> FALSE, x |-> y]
  BY <1>3
<1>4. CASE r # [ok |-> FALSE, x |-> y]
  <2>1. PICK md \in Wired \ y.acc.wired : \E p \in prepare(With(md)) : r = Out(p)
    BY <1>1, <1>4
  <2>2. PICK p \in prepare(With(md)) : r = Out(p)
    BY <2>1
  <2>3. Calm(x, p.x)
    BY <1>2, PrepareCalm, Zenon
  <2>4. Calm(x, Made(p)) /\ Calm(x, discard(p.x))
    BY <2>3, PutCalm, PoolsCalm, Zenon
  <2>5. r.x = Made(p) \/ r.x = discard(p.x)
    <3> HIDE DEF Made
    <3> QED BY <2>2 DEF Out
  <2> HIDE DEF Made
  <2> QED BY <2>4, <2>5
<1> QED
  BY <1>3, <1>4

LEMMA AllocCalm ==
  ASSUME NEW x, NEW y, Calm(x, y) PROVE \A r \in allocBacking(y) : Calm(x, r.x)
<1> SUFFICES ASSUME NEW p \in allocBacking(y) PROVE Calm(x, p.x)
  OBVIOUS
<1> DEFINE a == releaseBackingMap(releaseBackingMap(y, 0), 1)
           z == CASE classifyBacking(y) = "kernel" -> discard(complete(a))
                  [] classifyBacking(y) = "client" -> releaseBacking(y)
                  [] OTHER -> y
           Z(r) == [r.x EXCEPT !.sf.self = r.ptr, !.sf.fit = "fits"]
           P(r) == [Z(r) EXCEPT !.vtb.gmr = VRAM, !.vtb.fence = FALSE]
           Out(r) == IF r.ptr = NoId THEN allocGMRBacking(Z(r)) ELSE {[ok |-> TRUE, x |-> P(r)]}
           b == IF classifyBacking(y) = "none" THEN y ELSE releaseBacking(y)
           w == [b EXCEPT !.sf.fit = "fits"]
<1>1. Calm(x, a)
  BY PoolsCalm, Zenon
<1>2. classifyBacking(y) \in {"kernel", "none", "client"}
  BY DEF classifyBacking
<1>3. Calm(x, z)
  <2> HIDE DEF a
  <2>1. Calm(x, discard(complete(a))) /\ Calm(x, releaseBacking(y))
    BY <1>1, SyncCalm, PoolsCalm, ReleaseCalm, Zenon
  <2> QED BY <1>2, <2>1
<1>4. Calm(x, w)
  <2>1. Calm(x, b)
    BY ReleaseCalm
  <2> HIDE DEF b
  <2> QED BY <2>1, PutCalm, Zenon
<1>5. \/ p = [ok |-> TRUE, x |-> y] \/ p \in Describe(w, 1)
      \/ \E r \in VRAMRealloc(z, z.sf.self) : p \in Out(r)
  <2>1. wrapClientBacking(y) \in {{[ok |-> TRUE, x |-> y]}, Describe(w, 1)}
    BY DEF wrapClientBacking
  <2>2. allocBacking(y) =
          IF y.sf.client THEN wrapClientBacking(y)
          ELSE IF classifyBacking(y) = "kernel" /\ ~hasSourceGrown(y) THEN {[ok |-> TRUE, x |-> y]}
          ELSE UNION {Out(r) : r \in VRAMRealloc(z, z.sf.self)}
    BY Zenon DEF allocBacking
  <2> HIDE DEF z, Out, w
  <2> QED BY <2>1, <2>2
<1> HIDE DEF z, w
<1>6. CASE p = [ok |-> TRUE, x |-> y]
  BY <1>6
<1>7. CASE p \in Describe(w, 1)
  BY <1>4, <1>7, DescribeCalm
<1>8. CASE \E r \in VRAMRealloc(z, z.sf.self) : p \in Out(r)
  <2>1. PICK r \in VRAMRealloc(z, z.sf.self) : p \in Out(r)
    BY <1>8
  <2>2. \/ \E c : r = [ptr |-> c, x |-> [z EXCEPT !.acc.vram = (@ \ {z.sf.self}) \cup {c}]]
        \/ r = [ptr |-> NoId, x |-> [z EXCEPT !.acc.lost = @ \cup ({z.sf.self} \ {NoId})]]
    BY DEF VRAMRealloc
  <2>3. Calm(x, r.x)
    <3>1. CASE r = [ptr |-> NoId, x |-> [z EXCEPT !.acc.lost = @ \cup ({z.sf.self} \ {NoId})]]
      <4>1. r.x = [z EXCEPT !.acc.lost = @ \cup ({z.sf.self} \ {NoId})]
        BY <3>1
      <4>2. Calm(x, [z EXCEPT !.acc.lost = @ \cup ({z.sf.self} \ {NoId})])
        BY <1>3, PutCalm, Zenon
      <4> QED BY <4>1, <4>2
    <3>2. ASSUME NEW c, r = [ptr |-> c, x |-> [z EXCEPT !.acc.vram = (@ \ {z.sf.self}) \cup {c}]]
          PROVE  Calm(x, r.x)
      <4>1. r.x = [z EXCEPT !.acc.vram = (@ \ {z.sf.self}) \cup {c}]
        BY <3>2
      <4>2. Calm(x, [z EXCEPT !.acc.vram = (@ \ {z.sf.self}) \cup {c}])
        BY <1>3, PutCalm, Zenon
      <4> QED BY <4>1, <4>2
    <3> QED BY <2>2, <3>1, <3>2
  <2>4. Calm(x, Z(r))
    BY <2>3, PutCalm, Zenon
  <2> HIDE DEF Z
  <2>5. Calm(x, P(r))
    BY <2>4, PutCalm, Zenon
  <2> HIDE DEF P
  <2>6. p \in Describe(Z(r), 0) \/ p = [ok |-> TRUE, x |-> P(r)]
    BY <2>1 DEF allocGMRBacking
  <2>7. CASE p \in Describe(Z(r), 0)
    BY <2>4, <2>7, DescribeCalm
  <2>8. CASE p = [ok |-> TRUE, x |-> P(r)]
    BY <2>5, <2>8
  <2> QED BY <2>6, <2>7, <2>8
<1> QED
  BY <1>5, <1>6, <1>7, <1>8

LEMMA AllocAndMapCalm ==
  ASSUME NEW x, NEW y, Calm(x, y), NEW i PROVE \A r \in AllocAndMap(y, i) : Calm(x, r.x)
<1> SUFFICES ASSUME NEW r \in AllocAndMap(y, i) PROVE Calm(x, r.x)
  OBVIOUS
<1>1. PICK p \in allocBacking(y) : r \in IF p.ok THEN mapBacking(p.x, i) ELSE {p}
  BY DEF AllocAndMap
<1> DEFINE z == p.x
           m == IF z.sf.self # NoId THEN z.sf.self ELSE z.vtb.md
<1>2. Calm(x, z)
  BY AllocCalm
<1>3. r = p \/ r.x = z \/ r.x = [z EXCEPT !.sf.map = [@ EXCEPT ![i] = m]]
  BY <1>1 DEF mapBacking
<1> HIDE DEF m
<1>4. Calm(x, [z EXCEPT !.sf.map = [@ EXCEPT ![i] = m]])
  <2> HIDE DEF z
  <2> QED BY <1>2, PutCalm, Zenon
<1> QED
  BY <1>2, <1>3, <1>4, Zenon

-----------------------------------------------------------------------------
(* The master surface.  A part of a call that began in x and has queued     *)
(* what it needs for the host surfaces H.                                   *)

Near(x, y, H) ==
  /\ Shape(y)
  /\ y.sf.master = x.sf.master /\ y.sf.state = x.sf.state
  /\ y.acc.count = x.acc.count /\ y.acc.sids = x.acc.sids /\ y.acc.master = x.acc.master
  /\ Ends(y.dev, H)

LEMMA NearCalm ==
  ASSUME NEW x, NEW y, NEW H, Near(x, y, H), NEW z, Calm(y, z) PROVE Near(x, z, H)
BY DEF Near, Calm

LEMMA NearPut ==
  ASSUME NEW x, NEW y, NEW H, Near(x, y, H)
  PROVE  /\ \A v : /\ Near(x, [y EXCEPT !.vtb.fence = v], H) /\ Near(x, [y EXCEPT !.acc.blitbug = v], H)
                   /\ Near(x, VRAMFree(y, v), H) /\ Near(x, SyncToFence(y, v), H)
         /\ Near(x, after(y), H) /\ Near(x, SyncFIFO(y), H)
<1>1. Calm(y, y)
  BY FieldsCalm DEF Near
<1>2. \A v : /\ Calm(y, [y EXCEPT !.vtb.fence = v]) /\ Calm(y, [y EXCEPT !.acc.blitbug = v])
             /\ Calm(y, VRAMFree(y, v)) /\ Calm(y, SyncToFence(y, v))
  BY <1>1, PutCalm, PoolsCalm, WaitCalm, Zenon
<1>3. Calm(y, after(y)) /\ Calm(y, SyncFIFO(y))
  BY <1>1, PutCalm, WaitCalm, Zenon DEF after
<1> QED
  BY <1>2, <1>3, NearCalm, Zenon

LEMMA QueueNear ==
  ASSUME NEW x, NEW y, NEW H, Near(x, y, H), NEW c, Accepts(H, c)
  PROVE  Near(x, Queue(y, <<c>>), Leaves(H, c))
<1> DEFINE z == Queue(y, <<c>>)
<1>1. Shape(y)
  BY DEF Near
<1>2. <<c>> \in Seq({c})
  OBVIOUS
<1>3. z = [y EXCEPT !.dev = z.dev] /\ IsDevice(z.dev)
  BY <1>1, <1>2, QueueGives, ZenonT(60) DEF Shape, IsDevice
<1>4. Ends(z.dev, Leaves(H, c))
  BY <1>1, QueueEnds DEF Shape, Near
<1> HIDE DEF z
<1>5. DOMAIN z = DOMAIN y /\ z.sf = y.sf /\ z.vtb = y.vtb /\ z.acc = y.acc
  BY <1>1, <1>3 DEF Shape
<1>6. Shape(z)
  BY <1>1, <1>3, <1>5 DEF Shape
<1>7. Near(x, z, Leaves(H, c))
  BY <1>4, <1>5, <1>6 DEF Near
<1> QED
  BY <1>7 DEF z

LEMMA DefineNear ==
  ASSUME NEW x, NEW y, NEW H, Near(x, y, H), NEW a
  PROVE  /\ a \notin H => Near(x, createSurface(y, a), H \cup {a})
         /\ a \in H => Near(x, destroySurface(y, a), H \ {a})
<1>1. ASSUME a \notin H PROVE Near(x, createSurface(y, a), H \cup {a})
  <2> DEFINE c == BeginDefineSurface(a)
  <2>1. c.op = "define" /\ c.sid = a
    BY DEF BeginDefineSurface
  <2>2. createSurface(y, a) = Queue(y, <<c>>)
    BY DEF createSurface
  <2> HIDE DEF c
  <2>3. Accepts(H, c) /\ Leaves(H, c) = H \cup {a}
    BY <1>1, <2>1 DEF Accepts, Leaves, Uses
  <2> QED BY <2>2, <2>3, QueueNear
<1>2. ASSUME a \in H PROVE Near(x, destroySurface(y, a), H \ {a})
  <2> DEFINE c == DestroySurface(a)
  <2>1. c.op = "destroy" /\ c.sid = a
    BY DEF DestroySurface
  <2>2. destroySurface(y, a) = Queue(y, <<c>>)
    BY DEF destroySurface
  <2> HIDE DEF c
  <2>3. Accepts(H, c) /\ Leaves(H, c) = H \ {a}
    BY <1>2, <2>1 DEF Accepts, Leaves, Uses
  <2> QED BY <2>2, <2>3, QueueNear
<1> QED
  BY <1>1, <1>2

LEMMA UseNear ==
  ASSUME NEW x, NEW y, NEW H, Near(x, y, H), NEW a \in H
  PROVE  /\ \A r, f : Near(x, surfaceDMA2D(y, a, r, f), H)
         /\ Near(x, blitSurfaceToScreen(y, a), H)
         /\ \A b \in H : Near(x, surfaceCopy(y, a, b), H) /\ Near(x, surfaceStretch(y, a, b), H)
         /\ \A f : Near(x, Queue(y, <<BeginPresent(a, f)>>), H)
<1>1. ASSUME NEW c, Uses(c) \subseteq H, c.op \notin {"define", "destroy"} PROVE Near(x, Queue(y, <<c>>), H)
  <2>1. Accepts(H, c) /\ Leaves(H, c) = H
    BY <1>1 DEF Accepts, Leaves
  <2> QED BY <2>1, QueueNear
<1>2. \A c : c.op \in {"dma", "present", "show"} /\ c.sid = a => Near(x, Queue(y, <<c>>), H)
  BY <1>1 DEF Uses
<1>3. \A c : c.op = "copy" /\ c.sid = a /\ c.dst \in H => Near(x, Queue(y, <<c>>), H)
  BY <1>1 DEF Uses
<1>4. \A r, f : BeginSurfaceDMA(a, r, f).op = "dma" /\ BeginSurfaceDMA(a, r, f).sid = a
                /\ BeginPresent(a, f).op = "present" /\ BeginPresent(a, f).sid = a
  BY DEF BeginSurfaceDMA, BeginPresent
<1>5. BeginBlitSurfaceToScreen(a).op = "show" /\ BeginBlitSurfaceToScreen(a).sid = a
  BY DEF BeginBlitSurfaceToScreen
<1>6. \A b : /\ BeginSurfaceCopy(a, b).op = "copy" /\ BeginSurfaceCopy(a, b).sid = a
             /\ BeginSurfaceCopy(a, b).dst = b
             /\ SurfaceStretchBlt(a, b).op = "copy" /\ SurfaceStretchBlt(a, b).sid = a
             /\ SurfaceStretchBlt(a, b).dst = b
  BY DEF BeginSurfaceCopy, SurfaceStretchBlt
<1>7. \A r, f : /\ Near(x, Queue(y, <<BeginSurfaceDMA(a, r, f)>>), H)
                /\ Near(x, Queue(y, <<BeginPresent(a, f)>>), H)
  BY <1>2, <1>4
<1>8. Near(x, Queue(y, <<BeginBlitSurfaceToScreen(a)>>), H)
  BY <1>2, <1>5
<1>9. \A b \in H : /\ Near(x, Queue(y, <<BeginSurfaceCopy(a, b)>>), H)
                   /\ Near(x, Queue(y, <<SurfaceStretchBlt(a, b)>>), H)
  BY <1>3, <1>6
<1> QED
  BY <1>7, <1>8, <1>9, Zenon DEF surfaceDMA2D, surfaceCopy, surfaceStretch, blitSurfaceToScreen

\* A call on one surface while n others have the master surface.
Ledger(x, n) ==
  /\ Shape(x)
  /\ x.acc.count = n + IF x.sf.master THEN 1 ELSE 0
  /\ x.acc.sids = {x.acc.master} \ {NoId} /\ x.acc.master \in SurfaceIds \cup {NoId}
  /\ x.acc.master # NoId <=> x.acc.count > 0
  /\ x.sf.master => x.sf.state = "open"
  /\ Ends(x.dev, x.acc.sids)

LEMMA LedgerCalm == ASSUME NEW x, NEW n, Ledger(x, n), NEW y, Calm(x, y) PROVE Ledger(y, n)
BY DEF Ledger, Calm

LEMMA LedgerNear == ASSUME NEW x, NEW n, Ledger(x, n), NEW y, Near(x, y, x.acc.sids) PROVE Ledger(y, n)
BY DEF Ledger, Near

LEMMA LedgerBegins ==
  ASSUME NEW x, NEW n, Ledger(x, n) PROVE Calm(x, x) /\ Near(x, x, x.acc.sids)
<1>1. Calm(x, x)
  BY FieldsCalm DEF Ledger
<1> QED
  BY <1>1 DEF Ledger, Near

LEMMA IdsLeft == \A a, b : \E i \in SurfaceIds : i \notin {a, b}
<1> SUFFICES ASSUME NEW a, NEW b PROVE \E i \in SurfaceIds : i \notin {a, b}
  OBVIOUS
<1>1. PICK k \in SurfaceIds : TRUE
  BY IdAssumption
<1> DEFINE p == IF a \in SurfaceIds THEN a ELSE k
           q == IF b \in SurfaceIds THEN b ELSE k
<1>2. PICK i \in SurfaceIds : i \notin {p, q}
  BY IdAssumption
<1> QED
  BY <1>2

LEMMA IdFree ==
  ASSUME NEW x, NEW m, NEW k, x.acc.sids \subseteq {m, k}
  PROVE  AllocSurfaceID(x) \in SurfaceIds /\ AllocSurfaceID(x) \notin x.acc.sids
<1>1. \E i \in SurfaceIds : i \notin x.acc.sids
  BY IdsLeft
<1> QED
  BY <1>1 DEF AllocSurfaceID

LEMMA RetainLedger ==
  ASSUME NEW x, NEW n \in Nat, Ledger(x, n), ~x.sf.master, x.sf.state = "open"
  PROVE  Ledger([retainMasterSurface(x) EXCEPT !.sf.master = TRUE], n)
<1> DEFINE y == [x EXCEPT !.acc.count = @ + 1]
           sid == AllocSurfaceID(y)
           u == [y EXCEPT !.acc.sids = @ \cup {sid}, !.acc.master = sid]
           v == IF x.acc.count = 0 THEN createSurface(u, sid) ELSE y
           z == [v EXCEPT !.sf.master = TRUE]
<1>1. retainMasterSurface(x) = v
  BY DEF retainMasterSurface, createMasterSurface
<1>2. Shape(x) /\ x.acc.count = n /\ x.acc.sids = {x.acc.master} \ {NoId} /\ Ends(x.dev, x.acc.sids)
      /\ (x.acc.master # NoId <=> x.acc.count > 0) /\ x.acc.master \in SurfaceIds \cup {NoId}
  BY DEF Ledger
<1>3. /\ DOMAIN y = DOMAIN x /\ y.sf = x.sf /\ y.vtb = x.vtb /\ y.dev = x.dev
      /\ y.acc = [x.acc EXCEPT !.count = @ + 1]
  BY <1>2 DEF Shape
<1> HIDE DEF y
<1>4. Shape(y) /\ y.acc.count = n + 1 /\ y.acc.sids = x.acc.sids /\ y.acc.master = x.acc.master
  BY <1>2, <1>3 DEF Shape, AccelFields
<1>5. sid \in SurfaceIds /\ sid \notin y.acc.sids
  <2>1. y.acc.sids \subseteq {x.acc.master, NoId}
    BY <1>2, <1>4
  <2> QED BY <2>1, IdFree
<1> HIDE DEF sid
<1>6. /\ DOMAIN u = DOMAIN y /\ u.sf = y.sf /\ u.vtb = y.vtb /\ u.dev = y.dev
      /\ u.acc = [y.acc EXCEPT !.sids = @ \cup {sid}, !.master = sid]
  BY <1>4 DEF Shape
<1> HIDE DEF u
<1>7. /\ Shape(u) /\ u.acc.count = n + 1 /\ u.acc.sids = x.acc.sids \cup {sid} /\ u.acc.master = sid
  BY <1>4, <1>6 DEF Shape, AccelFields
<1>8. /\ Shape(v) /\ v.sf.state = "open" /\ v.acc.count = n + 1
      /\ v.acc.sids = {v.acc.master} \ {NoId} /\ v.acc.master \in SurfaceIds /\ v.acc.master # NoId
      /\ Ends(v.dev, v.acc.sids)
  <2>1. CASE x.acc.count = 0
    <3>1. x.acc.sids = {} /\ v = createSurface(u, sid)
      BY <1>2, <2>1
    <3>2. Near(u, u, {})
      BY <1>2, <1>3, <1>6, <1>7, <3>1 DEF Near
    <3>3. Near(u, createSurface(u, sid), {sid})
      BY <3>2, DefineNear, SMTT(60)
    <3> HIDE DEF v
    <3>4. sid # NoId
      BY <1>5, IdAssumption
    <3>5. u.sf.state = "open"
      BY <1>3, <1>6
    <3> QED BY <1>5, <1>7, <3>1, <3>3, <3>4, <3>5 DEF Near
  <2>2. CASE x.acc.count # 0
    <3>1. x.acc.count > 0 /\ v = y
      BY <1>2, <2>2
    <3> QED BY <1>2, <1>3, <1>4, <3>1
  <2> QED BY <2>1, <2>2
<1> HIDE DEF v
<1>9. /\ DOMAIN z = DOMAIN v /\ z.vtb = v.vtb /\ z.dev = v.dev /\ z.acc = v.acc
      /\ z.sf = [v.sf EXCEPT !.master = TRUE]
  BY <1>8 DEF Shape
<1> HIDE DEF z
<1>10. Shape(z) /\ z.sf.master = TRUE /\ z.sf.state = "open"
  BY <1>8, <1>9 DEF Shape, SurfaceFields
<1>11. /\ z.acc.count = n + IF z.sf.master THEN 1 ELSE 0
       /\ (z.acc.master # NoId <=> z.acc.count > 0) /\ z.acc.sids = {z.acc.master} \ {NoId}
       /\ z.acc.master \in SurfaceIds \cup {NoId} /\ Ends(z.dev, z.acc.sids)
  <2>1. z.acc.count = n + IF z.sf.master THEN 1 ELSE 0
    BY <1>8, <1>9, <1>10
  <2>2. n + 1 > 0
    OBVIOUS
  <2>3. z.acc.master # NoId <=> z.acc.count > 0
    BY <1>8, <1>9, <2>2
  <2> QED BY <1>8, <1>9, <2>1, <2>3
<1>12. Ledger(z, n)
  BY <1>10, <1>11, Zenon DEF Ledger
<1> QED
  BY <1>1, <1>12 DEF z

LEMMA ReleaseLedger ==
  ASSUME NEW x, NEW n \in Nat, Ledger(x, n), x.sf.master
  PROVE  Ledger([releaseMasterSurface(x) EXCEPT !.sf.master = FALSE, !.sf.screen = FALSE], n)
<1> DEFINE y == [x EXCEPT !.acc.count = @ - 1]
           m == y.acc.master
           e == destroySurface(y, m)
           f == FreeSurfaceID(e, m)
           u == [f EXCEPT !.acc.master = NoId]
           v == IF x.acc.count = 1 THEN u ELSE y
           z == [v EXCEPT !.sf.master = FALSE, !.sf.screen = FALSE]
<1>1. Shape(x) /\ x.acc.count = n + 1 /\ x.acc.sids = {x.acc.master} \ {NoId} /\ Ends(x.dev, x.acc.sids)
      /\ x.acc.master # NoId /\ x.acc.master \in SurfaceIds
  BY DEF Ledger
<1>2. /\ DOMAIN y = DOMAIN x /\ y.sf = x.sf /\ y.vtb = x.vtb /\ y.dev = x.dev
      /\ y.acc = [x.acc EXCEPT !.count = @ - 1]
  BY <1>1 DEF Shape
<1> HIDE DEF y
<1>3. Shape(y) /\ y.acc.count = n /\ y.acc.sids = x.acc.sids /\ y.acc.master = x.acc.master
  BY <1>1, <1>2 DEF Shape, AccelFields
<1>4. releaseMasterSurface(x) = v
  BY <1>1, <1>3 DEF releaseMasterSurface, destroyMasterSurface, y
<1>5. Near(y, y, {m}) /\ y.acc.sids = {m}
  BY <1>1, <1>2, <1>3 DEF Near
<1>6. Near(y, e, {})
  <2>1. Near(y, e, {m} \ {m})
    BY <1>5, DefineNear
  <2> QED BY <2>1
<1> HIDE DEF e, m
<1>7. /\ DOMAIN f = DOMAIN e /\ f.sf = e.sf /\ f.vtb = e.vtb /\ f.dev = e.dev
      /\ f.acc = [e.acc EXCEPT !.sids = @ \ {m}]
  BY <1>6 DEF FreeSurfaceID, Shape, Near
<1> HIDE DEF f
<1>8. /\ DOMAIN u = DOMAIN e /\ u.sf = e.sf /\ u.vtb = e.vtb /\ u.dev = e.dev
      /\ u.acc = [f.acc EXCEPT !.master = NoId]
  BY <1>6, <1>7 DEF Shape, Near
<1> HIDE DEF u
<1>9. Shape(u) /\ u.acc.count = n /\ u.acc.sids = {} /\ u.acc.master = NoId /\ Ends(u.dev, {})
      /\ u.sf.state = x.sf.state
  BY <1>2, <1>3, <1>5, <1>6, <1>7, <1>8 DEF Shape, AccelFields, Near
<1>10. /\ Shape(v) /\ v.acc.count = n /\ v.acc.sids = {v.acc.master} \ {NoId}
       /\ v.acc.master \in SurfaceIds \cup {NoId} /\ (v.acc.master # NoId <=> n > 0)
       /\ Ends(v.dev, v.acc.sids)
  <2>1. CASE n = 0
    BY <1>1, <1>9, <2>1
  <2>2. CASE n # 0
    <3>1. v = y /\ n > 0
      BY <1>1, <2>2
    <3> QED BY <1>1, <1>2, <1>3, <3>1
  <2> QED BY <2>1, <2>2
<1> HIDE DEF v
<1>11. /\ DOMAIN z = DOMAIN v /\ z.vtb = v.vtb /\ z.dev = v.dev /\ z.acc = v.acc
       /\ z.sf = [v.sf EXCEPT !.master = FALSE, !.screen = FALSE]
  BY <1>10 DEF Shape
<1> HIDE DEF z
<1>12. Shape(z) /\ z.sf.master = FALSE
  BY <1>10, <1>11 DEF Shape, SurfaceFields
<1>13. /\ z.acc.count = n + IF z.sf.master THEN 1 ELSE 0
       /\ (z.acc.master # NoId <=> z.acc.count > 0) /\ z.acc.sids = {z.acc.master} \ {NoId}
       /\ z.acc.master \in SurfaceIds \cup {NoId} /\ Ends(z.dev, z.acc.sids)
  <2>1. z.acc.count = n + IF z.sf.master THEN 1 ELSE 0
    BY <1>10, <1>11, <1>12
  <2> QED BY <1>10, <1>11, <2>1
<1>14. ~z.sf.master
  BY <1>12
<1>15. Ledger(z, n)
  BY <1>12, <1>13, <1>14, Zenon DEF Ledger
<1> QED
  BY <1>4, <1>15 DEF z

\* One command twice.
LEMMA TwiceNear ==
  ASSUME NEW x, NEW y, NEW H, Near(x, y, H), NEW c, Uses(c) \subseteq H, c.op \notin {"define", "destroy"}
  PROVE  Near(x, Queue(y, <<c>> \o <<c>>), H)
<1> DEFINE cmds == <<c>> \o <<c>>
           z == Queue(y, cmds)
           d == [y.dev EXCEPT !.queue = @ \o <<c>>]
<1>1. Shape(y) /\ IsDevice(y.dev) /\ Ends(y.dev, H) /\ "dev" \in DOMAIN y
  BY DEF Near, Shape
<1>2. Accepts(H, c) /\ Leaves(H, c) = H
  BY DEF Accepts, Leaves
<1>3. PICK T : y.dev.queue \in Seq(T)
  BY <1>1 DEF IsDevice
<1>4. /\ DOMAIN d = DeviceFields /\ d.queue = y.dev.queue \o <<c>> /\ d.host = y.dev.host
      /\ d.error = y.dev.error /\ d.gmr = y.dev.gmr
  BY <1>1 DEF IsDevice, DeviceFields
<1> HIDE DEF d
<1>5. d.queue \in Seq(T \cup {c})
  <2>1. y.dev.queue \in Seq(T \cup {c}) /\ <<c>> \in Seq(T \cup {c})
    BY <1>3
  <2> QED BY <1>4, <2>1
<1>6. IsDevice(d) /\ Ends(d, H)
  <2>1. IsDevice(d)
    BY <1>1, <1>4, <1>5 DEF IsDevice
  <2>2. Ends(d, Leaves(H, c))
    BY <1>1, <1>2, <1>4, AppendEnds
  <2> QED BY <1>2, <2>1, <2>2
<1>7. cmds \in Seq({c}) /\ y.dev.queue \o cmds = d.queue \o <<c>>
  <2>1. y.dev.queue \in Seq(T \cup {c}) /\ <<c>> \in Seq(T \cup {c}) /\ <<c>> \in Seq({c})
    BY <1>3
  <2> QED BY <1>4, <2>1, SMTT(60)
<1>8. Ends(z.dev, H)
  <2>1. \A e : e.queue = d.queue \o <<c>> /\ e.host = d.host /\ e.error = d.error => Ends(e, Leaves(H, c))
    BY <1>2, <1>6, AppendEnds
  <2>2. \A e : e.queue = y.dev.queue \o cmds /\ e.host = y.dev.host /\ e.error = y.dev.error => Ends(e, H)
    BY <1>2, <1>4, <1>7, <2>1
  <2> HIDE DEF cmds
  <2> QED BY <1>1, <1>7, <2>2, RoomEnds
<1>9. z = [y EXCEPT !.dev = z.dev] /\ IsDevice(z.dev)
  <2>1. cmds \in Seq({c})
    BY <1>7
  <2> HIDE DEF cmds
  <2> QED BY <1>1, <2>1, QueueGives, SMTT(60) DEF Shape, IsDevice
<1> HIDE DEF z
<1>10. DOMAIN z = DOMAIN y /\ z.sf = y.sf /\ z.vtb = y.vtb /\ z.acc = y.acc
  BY <1>1, <1>9 DEF Shape
<1>11. Shape(z)
  BY <1>1, <1>9, <1>10 DEF Shape
<1>12. Near(x, z, H)
  BY <1>8, <1>10, <1>11 DEF Near
<1> QED
  BY <1>12 DEF z

\* The test for the blit bug defines a surface of its own and destroys it.
LEMMA BlitBugLedger ==
  ASSUME NEW x, NEW n, Ledger(x, n), NEW z \in detectBlitBug(x) PROVE Ledger(z, n)
<1> DEFINE y == createSurface(x, BlitBugSurface)
           Dma(m) == <<BeginSurfaceDMA(BlitBugSurface, [gmr |-> VRAM, mem |-> m.ptr, owner |-> NoId], NoId)>>
           Sent(m) == Queue(m.x, Dma(m) \o Dma(m))
           After(m) == VRAMFree(SyncFIFO(Sent(m)), m.ptr)
           Out(m, b) == IF m.ptr = NoId
                        THEN [destroySurface(m.x, BlitBugSurface) EXCEPT !.acc.blitbug = "bug"]
                        ELSE [destroySurface(After(m), BlitBugSurface) EXCEPT !.acc.blitbug = b]
           M == x.acc.sids
           H == M \cup {BlitBugSurface}
<1>1. BlitBugSurface \notin M
  <2>1. M \subseteq SurfaceIds
    BY DEF Ledger
  <2> QED BY <2>1, IdAssumption
<1>2. Near(x, y, H)
  BY <1>1, LedgerBegins, DefineNear
<1>3. detectBlitBug(x) = {Out(m, b) : m \in VRAMMalloc(y), b \in {"none", "bug"}}
  BY DEF detectBlitBug
<1> HIDE DEF Out
<1>4. PICK m \in VRAMMalloc(y), b \in {"none", "bug"} : z = Out(m, b)
  BY <1>3
<1> HIDE DEF y
<1> DEFINE u == m.x
           v == Sent(m)
           w == After(m)
<1>5. Near(x, u, H)
  <2>1. u = y \/ \E c \in Chunks \ y.acc.vram : m = [ptr |-> c, x |-> [y EXCEPT !.acc.vram = @ \cup {c}]]
    BY DEF VRAMMalloc
  <2>2. ASSUME NEW c, m = [ptr |-> c, x |-> [y EXCEPT !.acc.vram = @ \cup {c}]] PROVE Near(x, u, H)
    <3>1. u = [y EXCEPT !.acc.vram = @ \cup {c}]
      BY <2>2
    <3> HIDE DEF u
    <3>2. Calm(y, [y EXCEPT !.acc.vram = @ \cup {c}])
      BY <1>2, FieldsCalm, Zenon DEF Near
    <3> QED BY <1>2, <3>1, <3>2, NearCalm
  <2> QED BY <1>2, <2>1, <2>2
<1>6. Near(x, v, H)
  <2> DEFINE c == BeginSurfaceDMA(BlitBugSurface, [gmr |-> VRAM, mem |-> m.ptr, owner |-> NoId], NoId)
  <2>1. c.op = "dma" /\ c.sid = BlitBugSurface
    BY DEF BeginSurfaceDMA
  <2>2. v = Queue(u, <<c>> \o <<c>>)
    OBVIOUS
  <2> HIDE DEF c, v, u
  <2>3. Uses(c) \subseteq H /\ c.op \notin {"define", "destroy"}
    BY <2>1 DEF Uses
  <2> QED BY <1>5, <2>2, <2>3, TwiceNear
<1>7. Near(x, w, H)
  <2>1. w = VRAMFree(SyncFIFO(v), m.ptr)
    OBVIOUS
  <2> HIDE DEF v, w
  <2>2. Near(x, SyncFIFO(v), H)
    BY <1>6, NearPut, Zenon
  <2>3. Near(x, VRAMFree(SyncFIFO(v), m.ptr), H)
    BY <2>2, NearPut, Zenon
  <2> QED BY <2>1, <2>3
<1>8. z = [destroySurface(u, BlitBugSurface) EXCEPT !.acc.blitbug = "bug"]
      \/ z = [destroySurface(w, BlitBugSurface) EXCEPT !.acc.blitbug = b]
  BY <1>4 DEF Out
<1> HIDE DEF u, w
<1>9. ASSUME NEW a, Near(x, a, H) PROVE \A k : Ledger([destroySurface(a, BlitBugSurface) EXCEPT !.acc.blitbug = k], n)
  <2> TAKE k
  <2> DEFINE e == destroySurface(a, BlitBugSurface)
             f == [e EXCEPT !.acc.blitbug = k]
  <2>1. Near(x, e, H \ {BlitBugSurface})
    BY <1>9, DefineNear
  <2>2. H \ {BlitBugSurface} = M
    BY <1>1
  <2> HIDE DEF e, H
  <2>3. Near(x, e, M)
    BY <2>1, <2>2
  <2>4. Near(x, f, M)
    BY <2>3, NearPut, Zenon
  <2> HIDE DEF f
  <2>5. Ledger(f, n)
    BY <2>4, LedgerNear
  <2> QED BY <2>5 DEF f, e
<1> QED
  <2>1. /\ Ledger([destroySurface(u, BlitBugSurface) EXCEPT !.acc.blitbug = "bug"], n)
        /\ Ledger([destroySurface(w, BlitBugSurface) EXCEPT !.acc.blitbug = b], n)
    <3> HIDE DEF H
    <3> QED BY <1>5, <1>7, <1>9
  <2> QED BY <1>8, <2>1

LEMMA Start3DLedger ==
  ASSUME NEW x, NEW n \in Nat, Ledger(x, n), ~x.sf.master, x.sf.state = "open", NEW r \in Start3D(x)
  PROVE  Ledger(r, n)
<1> DEFINE y == [x EXCEPT !.sf.screen = hw.screen]
           z == [retainMasterSurface(y) EXCEPT !.sf.master = TRUE]
<1>1. Calm(x, y)
  BY FieldsCalm, Zenon DEF Ledger
<1>2. Ledger(y, n) /\ ~y.sf.master /\ y.sf.state = "open"
  BY <1>1, LedgerCalm DEF Calm
<1> HIDE DEF y
<1>3. Ledger(z, n)
  BY <1>2, RetainLedger
<1> HIDE DEF z
<1>4. \/ r = y
      \/ r = [z EXCEPT !.sf.direct = TRUE]
      \/ \E k \in detectBlitBug(z) \cup {z} : r = [k EXCEPT !.sf.direct = k.acc.blitbug = "none"]
  BY DEF Start3D, y, z
<1>5. ASSUME NEW k, Ledger(k, n) PROVE \A v : Ledger([k EXCEPT !.sf.direct = v], n)
  <2> TAKE v
  <2>1. Calm(k, [k EXCEPT !.sf.direct = v])
    BY <1>5, FieldsCalm, Zenon DEF Ledger
  <2> QED BY <1>5, <2>1, LedgerCalm, Zenon
<1>6. \A k \in detectBlitBug(z) \cup {z} : Ledger(k, n)
  BY <1>3, BlitBugLedger
<1>7. CASE r = y
  BY <1>2, <1>7
<1>8. CASE r = [z EXCEPT !.sf.direct = TRUE]
  BY <1>3, <1>5, <1>8
<1>9. CASE \E k \in detectBlitBug(z) \cup {z} : r = [k EXCEPT !.sf.direct = k.acc.blitbug = "none"]
  <2>1. PICK k \in detectBlitBug(z) \cup {z} : r = [k EXCEPT !.sf.direct = k.acc.blitbug = "none"]
    BY <1>9
  <2>2. Ledger([k EXCEPT !.sf.direct = k.acc.blitbug = "none"], n)
    BY <1>5, <1>6, Zenon
  <2> QED BY <2>1, <2>2
<1> QED
  BY <1>4, <1>7, <1>8, <1>9

LEMMA Cleanup3DLedger ==
  ASSUME NEW x, NEW n \in Nat, Ledger(x, n)
  PROVE  Ledger(Cleanup3D(x), n) /\ ~Cleanup3D(x).sf.master
<1> DEFINE z == IF x.sf.master THEN releaseMasterSurface(x) ELSE x
           y == [z EXCEPT !.sf.master = FALSE, !.sf.screen = FALSE]
<1>1. Cleanup3D(x) = IF ~haveFrontBuffer(x) THEN x ELSE y
  BY DEF Cleanup3D
<1>2. CASE ~haveFrontBuffer(x)
  BY <1>1, <1>2 DEF haveFrontBuffer
<1>3. CASE haveFrontBuffer(x) /\ x.sf.master
  <2>1. y = [releaseMasterSurface(x) EXCEPT !.sf.master = FALSE, !.sf.screen = FALSE]
    BY <1>3
  <2> HIDE DEF y
  <2>2. Ledger(y, n)
    BY <1>3, <2>1, ReleaseLedger
  <2>3. ~y.sf.master
    <3> DEFINE a == releaseMasterSurface(x)
    <3>1. Shape(a)
      <4>1. Plain(x, x)
        BY FieldsPlain DEF Ledger
      <4> QED BY <4>1, MasterPlain, PlainShape
    <3> HIDE DEF a
    <3>2. y.sf = [a.sf EXCEPT !.master = FALSE, !.screen = FALSE]
      BY <2>1, <3>1 DEF Shape, a
    <3> QED BY <3>1, <3>2 DEF Shape, SurfaceFields
  <2> QED BY <1>1, <1>3, <2>2, <2>3
<1>4. CASE haveFrontBuffer(x) /\ ~x.sf.master
  <2>1. y = [x EXCEPT !.sf.master = FALSE, !.sf.screen = FALSE] /\ Shape(x)
    BY <1>4 DEF Ledger
  <2> HIDE DEF y
  <2>2. /\ DOMAIN y = DOMAIN x /\ y.vtb = x.vtb /\ y.dev = x.dev /\ y.acc = x.acc
        /\ y.sf = [x.sf EXCEPT !.master = FALSE, !.screen = FALSE]
    BY <2>1 DEF Shape
  <2>3. Shape(y) /\ ~y.sf.master
    BY <2>1, <2>2 DEF Shape, SurfaceFields
  <2>4. Ledger(y, n)
    BY <1>4, <2>2, <2>3 DEF Ledger
  <2> QED BY <1>1, <1>4, <2>3, <2>4
<1> QED
  BY <1>2, <1>3, <1>4

-----------------------------------------------------------------------------
(* What is drawn.                                                          *)

LEMMA MasterHeld ==
  ASSUME NEW x, NEW n \in Nat, Ledger(x, n)
  PROVE  /\ x.sf.master => x.acc.master \in x.acc.sids
         /\ x.acc.sids \subseteq {x.acc.master}
<1>1. ASSUME x.sf.master PROVE x.acc.master \in x.acc.sids
  <2>1. x.acc.count = n + 1
    BY <1>1 DEF Ledger
  <2>2. x.acc.count > 0
    BY <2>1
  <2> QED BY <2>2 DEF Ledger
<1>2. x.acc.sids \subseteq {x.acc.master}
  BY DEF Ledger
<1> QED
  BY <1>1, <1>2

LEMMA UploadNear ==
  ASSUME NEW x, NEW n, Ledger(x, n), NEW aux, aux \notin x.acc.sids
  PROVE  Near(x, Upload(x, aux), x.acc.sids \cup {aux})
<1> DEFINE M == x.acc.sids
           H == M \cup {aux}
           y == createSurface(x, aux)
           z == surfaceDMA2D(y, aux, Ref(x), x.vtb.tag)
<1>1. Near(x, y, H)
  BY LedgerBegins, DefineNear
<1>2. aux \in H
  OBVIOUS
<1>3. Upload(x, aux) = [z EXCEPT !.vtb.fence = TRUE]
  BY DEF Upload
<1> HIDE DEF y, H
<1>4. Near(x, z, H)
  BY <1>1, <1>2, UseNear
<1> HIDE DEF z
<1>5. Near(x, [z EXCEPT !.vtb.fence = TRUE], H)
  BY <1>4, NearPut, Zenon
<1> QED
  BY <1>3, <1>5 DEF H

LEMMA OutLedger ==
  ASSUME NEW x, NEW n \in Nat, Ledger(x, n)
  PROVE  /\ Ledger(ScreenObjectOutDirect(x), n) /\ Ledger(GFBOutDirect(x), n)
         /\ Ledger(ScreenObjectOutVia3D(x), n)
<1>1. Calm(x, x)
  BY LedgerBegins
<1>2. Calm(x, ScreenObjectOutDirect(x)) /\ Calm(x, GFBOutDirect(x))
  <2>1. Calm(x, blitToScreen(x, Ref(x), x.vtb.tag)) /\ Calm(x, GFBOutDirect(x))
    BY <1>1, NeutralCalm, Zenon DEF GFBOutDirect
  <2> QED BY <2>1, PutCalm, Zenon DEF ScreenObjectOutDirect
<1>3. Ledger(ScreenObjectOutVia3D(x), n)
  <2> DEFINE M == x.acc.sids
             aux == AllocSurfaceID(x)
             H == M \cup {aux}
             y == Upload(x, aux)
             z == blitSurfaceToScreen(y, aux)
             w == destroySurface(z, aux)
  <2>1. aux \notin M
    <3>1. M \subseteq {x.acc.master, NoId}
      BY MasterHeld
    <3> QED BY <3>1, IdFree
  <2>2. ScreenObjectOutVia3D(x) = w
    BY DEF ScreenObjectOutVia3D
  <2> HIDE DEF aux
  <2>3. Near(x, y, H) /\ aux \in H /\ H \ {aux} = M
    BY <2>1, UploadNear
  <2> HIDE DEF y, H
  <2>4. Near(x, z, H)
    BY <2>3, UseNear
  <2> HIDE DEF z
  <2>5. Near(x, w, H \ {aux})
    BY <2>3, <2>4, DefineNear
  <2> HIDE DEF w
  <2>6. Near(x, w, M)
    BY <2>3, <2>5
  <2> QED BY <2>2, <2>6, LedgerNear
<1> QED
  BY <1>2, <1>3, LedgerCalm

LEMMA MasterOutLedger ==
  ASSUME NEW x, NEW n \in Nat, Ledger(x, n), x.sf.master
  PROVE  /\ Ledger(DMAOutDirect(x), n) /\ DMAOutDirect(x).sf.master
         /\ Ledger(DMAOutWithCopy(x), n) /\ DMAOutWithCopy(x).sf.master
         /\ Ledger(DMAOutStretchWithCopy(x), n) /\ DMAOutStretchWithCopy(x).sf.master
<1> DEFINE M == x.acc.sids
           m == x.acc.master
<1>1. m \in M /\ M \subseteq {m, m} /\ Near(x, x, M)
  BY MasterHeld, LedgerBegins
<1>2. ASSUME NEW y, Near(x, y, M) PROVE Ledger(y, n) /\ y.sf.master
  BY <1>2, LedgerNear DEF Near
<1>3. Near(x, DMAOutDirect(x), M)
  <2> DEFINE y == surfaceDMA2D(x, m, Ref(x), x.vtb.tag)
  <2>1. Near(x, y, M)
    BY <1>1, UseNear
  <2>2. DMAOutDirect(x) = [y EXCEPT !.vtb.fence = TRUE]
    BY DEF DMAOutDirect
  <2> HIDE DEF y
  <2>3. Near(x, [y EXCEPT !.vtb.fence = TRUE], M)
    BY <2>1, NearPut, Zenon
  <2> QED BY <2>2, <2>3
<1>4. Near(x, DMAOutWithCopy(x), M)
  <2> DEFINE aux == AllocSurfaceID(x)
             H == M \cup {aux}
             y == Upload(x, aux)
             z == surfaceCopy(y, aux, m)
             w == destroySurface(z, aux)
  <2>1. aux \notin M
    BY <1>1, IdFree
  <2>2. DMAOutWithCopy(x) = w
    BY DEF DMAOutWithCopy
  <2> HIDE DEF aux
  <2>3. Near(x, y, H) /\ aux \in H /\ m \in H /\ H \ {aux} = M
    BY <1>1, <2>1, UploadNear
  <2> HIDE DEF y, H
  <2>4. Near(x, z, H)
    BY <2>3, UseNear
  <2> HIDE DEF z
  <2>5. Near(x, w, H \ {aux})
    BY <2>3, <2>4, DefineNear
  <2> HIDE DEF w
  <2> QED BY <2>2, <2>3, <2>5
<1>5. Near(x, DMAOutStretchWithCopy(x), M)
  <2> DEFINE a == AllocSurfaceID(x)
             v == [x EXCEPT !.acc.sids = @ \cup {a}]
             b == AllocSurfaceID(v)
             A == M \cup {a}
             B == A \cup {b}
             C == M \cup {b}
             y0 == Upload(x, a)
             y1 == createSurface(y0, b)
             y2 == surfaceStretch(y1, a, b)
             y3 == destroySurface(y2, a)
             y4 == surfaceCopy(y3, b, m)
             y5 == destroySurface(y4, b)
  <2>1. a \notin M
    BY <1>1, IdFree
  <2>2. DMAOutStretchWithCopy(x) = y5
    BY DEF DMAOutStretchWithCopy
  <2>3. v.acc.sids = A
    BY DEF Ledger, Shape, AccelFields
  <2> HIDE DEF v
  <2>4. b \notin A
    <3>1. v.acc.sids \subseteq {m, a}
      BY <1>1, <2>3
    <3> QED BY <2>3, <3>1, IdFree
  <2> HIDE DEF a, b
  <2>5. /\ a \in A /\ a \in B /\ b \in B /\ B \ {a} = C /\ b \in C /\ m \in C /\ C \ {b} = M
    BY <1>1, <2>1, <2>4
  <2>6. Near(x, y0, A)
    BY <2>1, UploadNear
  <2> HIDE DEF y0, A
  <2>7. Near(x, y1, B)
    BY <2>4, <2>6, DefineNear
  <2> HIDE DEF y1, B
  <2>8. Near(x, y2, B)
    BY <2>5, <2>7, UseNear
  <2> HIDE DEF y2
  <2>9. Near(x, y3, C)
    <3>1. Near(x, y3, B \ {a})
      BY <2>5, <2>8, DefineNear
    <3> QED BY <2>5, <3>1
  <2> HIDE DEF y3, C
  <2>10. Near(x, y4, C)
    BY <2>5, <2>9, UseNear
  <2> HIDE DEF y4
  <2>11. Near(x, y5, C \ {b})
    BY <2>5, <2>10, DefineNear
  <2> HIDE DEF y5
  <2> QED BY <2>2, <2>5, <2>11
<1> QED
  BY <1>2, <1>3, <1>4, <1>5

LEMMA PresentLedger ==
  ASSUME NEW x, NEW n \in Nat, Ledger(x, n), x.sf.master PROVE Ledger(doPresent(x), n)
<1> DEFINE M == x.acc.sids
           m == x.acc.master
           y == SyncToFence(x, before(x))
           z == Queue(y, <<BeginPresent(m, before(y))>>)
<1>1. m \in M /\ Near(x, x, M)
  BY MasterHeld, LedgerBegins
<1>2. doPresent(x) = after(z)
  BY DEF doPresent, surfacePresentAutoSync
<1>3. Near(x, y, M)
  BY <1>1, NearPut, Zenon
<1> HIDE DEF y, M
<1>4. Near(x, z, M)
  BY <1>1, <1>3, UseNear
<1> HIDE DEF z
<1>5. Near(x, after(z), M)
  BY <1>4, NearPut, Zenon
<1> QED
  BY <1>2, <1>5, LedgerNear DEF M

LEMMA VideoCalm ==
  ASSUME NEW x, NEW y, Calm(x, y)
  PROVE  /\ Calm(x, videoReshape(y)) /\ Calm(x, surface_video_off(y))
         /\ \A r \in surface_flush_video(y) : Calm(x, r)
<1>1. Calm(x, videoReshape(y))
  BY NeutralCalm, PutCalm, Zenon DEF videoReshape
<1>2. Calm(x, surface_video_off(y))
  <2> DEFINE q == VideoSetReg(y, y.sf.stream)
             f == FreeStreamID(q, y.sf.stream)
  <2>1. surface_video_off(y) = y \/ surface_video_off(y) = [f EXCEPT !.sf.enabled = FALSE, !.sf.stream = NoId]
    BY DEF surface_video_off
  <2>2. Calm(x, q)
    BY NeutralCalm, Zenon
  <2> HIDE DEF q
  <2>3. Calm(x, f)
    BY <2>2, PoolsCalm, Zenon
  <2> HIDE DEF f
  <2>4. Calm(x, [f EXCEPT !.sf.enabled = FALSE, !.sf.stream = NoId])
    BY <2>3, PutCalm, Zenon
  <2> QED BY <2>1, <2>4, Zenon
<1>3. ASSUME NEW r \in surface_flush_video(y) PROVE Calm(x, r)
  <2> DEFINE Shown(z, v) == [VideoSetRegsInRange(z, v, y.vtb.tag) EXCEPT !.vtb.fence = TRUE]
             On(a) == [a.x EXCEPT !.sf.stream = a.id, !.sf.enabled = TRUE]
  <2>1. ASSUME NEW z, Calm(x, z), NEW v PROVE Calm(x, Shown(z, v))
    BY <2>1, NeutralCalm, PutCalm, Zenon
  <2>2. ASSUME NEW a \in AllocStreamID(y) PROVE Calm(x, On(a))
    <3> DEFINE z == a.x
    <3>1. PICK v \in StreamIds \ y.acc.streams : a = [id |-> v, x |-> [y EXCEPT !.acc.streams = @ \cup {v}]]
      BY DEF AllocStreamID
    <3>2. z = [y EXCEPT !.acc.streams = @ \cup {v}]
      BY <3>1
    <3> HIDE DEF z
    <3>3. Calm(x, [y EXCEPT !.acc.streams = @ \cup {v}])
      BY PutCalm, Zenon
    <3>4. Calm(x, z)
      BY <3>2, <3>3
    <3>5. Calm(x, [z EXCEPT !.sf.stream = a.id, !.sf.enabled = TRUE])
      BY <3>4, PutCalm, Zenon
    <3> QED BY <3>5 DEF z
  <2> HIDE DEF Shown, On
  <2>3. \/ r = y \/ r = Shown(y, y.sf.stream) \/ r = [y EXCEPT !.sf.stream = NoId]
        \/ \E a \in AllocStreamID(y) : r = Shown(On(a), a.id)
    BY <1>3 DEF surface_flush_video, Shown, On
  <2>4. Calm(x, [y EXCEPT !.sf.stream = NoId])
    BY PutCalm, Zenon
  <2>5. \A a \in AllocStreamID(y) : Calm(x, Shown(On(a), a.id))
    BY <2>1, <2>2
  <2> QED BY <2>1, <2>3, <2>4, <2>5, Zenon
<1> QED
  BY <1>1, <1>2, <1>3

LEMMA SetSurfaceLedger ==
  ASSUME NEW x, NEW n \in Nat, Ledger(x, n), x.sf.state = "open", NEW yuv, NEW r \in context_set_surface(x, yuv)
  PROVE  Ledger(r, n)
<1> DEFINE o == surface_video_off(x)
           y == [o EXCEPT !.sf.video = FALSE]
           w == [x EXCEPT !.sf.video = TRUE, !.sf.enabled = FALSE,
                          !.acc.lost = @ \cup (IF x.sf.enabled THEN {x.sf.stream} ELSE {})]
<1>1. Ledger(y, n) /\ y.sf.state = "open"
  <2>1. Calm(x, o)
    BY LedgerBegins, VideoCalm
  <2> HIDE DEF o
  <2>2. Calm(x, y)
    BY <2>1, PutCalm, Zenon
  <2> HIDE DEF y
  <2> QED BY <2>2, LedgerCalm DEF Calm
<1>2. Ledger(w, n)
  <2>1. Shape(x)
    BY DEF Ledger
  <2>2. /\ DOMAIN w = DOMAIN x /\ w.vtb = x.vtb /\ w.dev = x.dev
        /\ w.sf = [x.sf EXCEPT !.video = TRUE, !.enabled = FALSE]
        /\ w.acc = [x.acc EXCEPT !.lost = @ \cup (IF x.sf.enabled THEN {x.sf.stream} ELSE {})]
    BY <2>1 DEF Shape
  <2> HIDE DEF w
  <2>3. Aside(x, w)
    BY <2>1, <2>2 DEF Aside, Shape, SurfaceFields, AccelFields
  <2> QED BY <2>3, AsideCalm, LedgerCalm
<1>3. r \in {x, y, Cleanup3D(w)} \/ (~haveFrontBuffer(y) /\ r \in Start3D(y))
  BY DEF context_set_surface
<1> HIDE DEF y, w
<1>4. ~haveFrontBuffer(y) => ~y.sf.master
  BY DEF haveFrontBuffer
<1>5. Ledger(Cleanup3D(w), n)
  BY <1>2, Cleanup3DLedger
<1> QED
  BY <1>1, <1>3, <1>4, <1>5, Start3DLedger

LEMMA LockMemoryCalm ==
  ASSUME NEW x, Calm(x, x)
  PROVE  (\A z \in context_lock_memory(x) : Calm(x, z)) /\ Calm(x, context_unlock_memory(x))
<1>1. ASSUME NEW z \in context_lock_memory(x) PROVE Calm(x, z)
  <2> DEFINE l == Lock(x, "context")
             Out(r) == IF ~r.ok THEN {Unlock(r.x, "context")}
                       ELSE IF x.sf.video /\ (hw.screen \/ ~hw.d3) THEN setup_trick_buffer(r.x)
                       ELSE {r.x}
  <2>1. Calm(x, l)
    BY PoolsCalm, Zenon
  <2>2. context_lock_memory(x) \in {{x}, UNION {Out(r) : r \in AllocAndMap(l, 1)}}
    BY Zenon DEF context_lock_memory
  <2> HIDE DEF l, Out
  <2>3. z = x \/ \E r \in AllocAndMap(l, 1) : z \in Out(r)
    BY <1>1, <2>2
  <2>4. ASSUME NEW r \in AllocAndMap(l, 1), z \in Out(r) PROVE Calm(x, z)
    <3> DEFINE y == r.x
    <3>1. Calm(x, y)
      BY <2>1, AllocAndMapCalm
    <3>2. z = Unlock(y, "context") \/ z = y \/ \E m \in {"trick", NoId} : z = [y EXCEPT !.sf.map = [@ EXCEPT ![0] = m]]
      BY <2>4 DEF Out, setup_trick_buffer
    <3> HIDE DEF y
    <3>3. \A m : Calm(x, [y EXCEPT !.sf.map = [@ EXCEPT ![0] = m]])
      BY <3>1, PutCalm, Zenon
    <3>4. Calm(x, Unlock(y, "context"))
      BY <3>1, PoolsCalm, Zenon
    <3> QED BY <3>1, <3>2, <3>3, <3>4, Zenon
  <2> QED BY <2>3, <2>4
<1>2. Calm(x, context_unlock_memory(x))
  BY PoolsCalm, Zenon DEF context_unlock_memory
<1> QED
  BY <1>1, <1>2

LEMMA CopyLedger ==
  ASSUME NEW x, NEW n \in Nat, Ledger(x, n)
  PROVE  /\ \A z \in copy_framebuffer_region_to_self(x) : Ledger(z, n)
         /\ \A f, b : \A z \in copy_surface_region_to_self(x, f, b) : Ledger(z, n)
<1>1. \A r \in allocBacking(x) : Ledger(r.x, n)
  BY LedgerBegins, AllocCalm, LedgerCalm
<1>2. ASSUME NEW f, NEW b, NEW z \in copy_surface_region_to_self(x, f, b) PROVE Ledger(z, n)
  <2>1. z = x \/ \E r \in allocBacking(x) : z = r.x
    BY <1>2 DEF copy_surface_region_to_self
  <2> QED BY <1>1, <2>1
<1>3. ASSUME NEW z \in copy_framebuffer_region_to_self(x) PROVE Ledger(z, n)
  <2> DEFINE From(y) == [blitFromScreen(y, Ref(y), y.vtb.tag) EXCEPT !.vtb.fence = TRUE]
             Out(r) == IF ~r.ok THEN r.x
                       ELSE IF isPrimaryScreenActive(r.x) THEN sync(From(r.x))
                       ELSE IF r.x.sf.master THEN sync(DMAOutDirect(r.x)) ELSE r.x
  <2>1. copy_framebuffer_region_to_self(x) \in {{x}, {Out(r) : r \in allocBacking(x)}}
    BY Zenon DEF copy_framebuffer_region_to_self
  <2> HIDE DEF Out
  <2>2. z = x \/ \E r \in allocBacking(x) : z = Out(r)
    BY <1>3, <2>1
  <2>3. ASSUME NEW y, Ledger(y, n) PROVE Ledger(sync(y), n)
    BY <2>3, LedgerBegins, SyncCalm, LedgerCalm
  <2>4. ASSUME NEW y, Ledger(y, n) PROVE Ledger(From(y), n)
    <3>1. Calm(y, blitFromScreen(y, Ref(y), y.vtb.tag))
      BY <2>4, LedgerBegins, NeutralCalm, Zenon
    <3>2. Calm(y, From(y))
      BY <3>1, PutCalm, Zenon
    <3> HIDE DEF From
    <3> QED BY <2>4, <3>2, LedgerCalm
  <2>5. ASSUME NEW r \in allocBacking(x), z = Out(r) PROVE Ledger(z, n)
    <3> HIDE DEF From
    <3>1. \/ z = r.x \/ z = sync(From(r.x)) \/ (r.x.sf.master /\ z = sync(DMAOutDirect(r.x)))
      BY <2>5 DEF Out
    <3>2. r.x.sf.master => Ledger(DMAOutDirect(r.x), n)
      BY <1>1, MasterOutLedger
    <3> QED BY <1>1, <2>3, <2>4, <3>1, <3>2
  <2> QED BY <2>2, <2>5
<1> QED
  BY <1>2, <1>3

LEMMA CleanupLedger ==
  ASSUME NEW x, NEW n \in Nat, Ledger(x, n)
  PROVE  Ledger(Cleanup(x), n) /\ ~Cleanup(x).sf.master
<1> DEFINE a == Cleanup3D(x)
           b == surface_video_off(a)
           c == releaseBacking(b)
<1>1. Ledger(a, n) /\ ~a.sf.master
  BY Cleanup3DLedger
<1> HIDE DEF a
<1>2. Calm(a, b)
  BY <1>1, LedgerBegins, VideoCalm
<1> HIDE DEF b
<1>3. Calm(a, c)
  BY <1>2, ReleaseCalm
<1>4. Cleanup(x) = [c EXCEPT !.sf.region = FALSE]
  BY DEF Cleanup, a, b
<1> HIDE DEF c
<1>5. Calm(a, [c EXCEPT !.sf.region = FALSE])
  BY <1>3, PutCalm, Zenon
<1>6. Calm(a, Cleanup(x))
  BY <1>4, <1>5
<1> QED
  BY <1>1, <1>6, LedgerCalm DEF Calm

-----------------------------------------------------------------------------
(* The master surface, over all surfaces.                                   *)

Masters == {s \in Surfaces : sf[s].master}
Elsewhere(s) == Cardinality(Masters \ {s})

CountInv ==
  /\ IsFiniteSet(Masters) /\ acc.count = Cardinality(Masters)
  /\ acc.sids = {acc.master} \ {NoId} /\ acc.master \in SurfaceIds \cup {NoId}
  /\ acc.master # NoId <=> acc.count > 0
  /\ \A s \in Masters : sf[s].state = "open"
  /\ Ends(dev, acc.sids)

\* A call on s ends with the books in order.
Booked(s) == \E x : Return(s, x) /\ Ledger(x, Elsewhere(s))

LEMMA CallLedger ==
  ASSUME AccountInv, CountInv, NEW s \in Surfaces
  PROVE  Ledger(Call(s), Elsewhere(s)) /\ Elsewhere(s) \in Nat
<1> DEFINE x == Call(s)
<1>1. Shape(x)
  BY CallFine DEF Settled
<1>2. x.acc = acc /\ x.dev = dev /\ x.sf = sf[s]
  BY DEF Call
<1> HIDE DEF x
<1>3. Elsewhere(s) \in Nat /\ Cardinality(Masters) = Elsewhere(s) + IF s \in Masters THEN 1 ELSE 0
  <2>1. IsFiniteSet(Masters) /\ IsFiniteSet(Masters \ {s})
    BY FS_RemoveElement DEF CountInv
  <2>2. Cardinality(Masters) \in Nat /\ Elsewhere(s) \in Nat
    BY <2>1, FS_CardinalityType DEF Elsewhere
  <2>3. Elsewhere(s) = IF s \in Masters THEN Cardinality(Masters) - 1 ELSE Cardinality(Masters)
    BY <2>1, FS_RemoveElement DEF Elsewhere
  <2> QED BY <2>2, <2>3
<1>4. s \in Masters <=> x.sf.master
  BY <1>2 DEF Masters
<1>5. x.sf.master => x.sf.state = "open"
  BY <1>2, <1>4 DEF CountInv
<1>6. x.acc.count = Elsewhere(s) + IF x.sf.master THEN 1 ELSE 0
  BY <1>2, <1>3, <1>4 DEF CountInv
<1>7. Ledger(x, Elsewhere(s))
  BY <1>1, <1>2, <1>5, <1>6 DEF Ledger, CountInv
<1> QED
  BY <1>3, <1>7 DEF x

LEMMA BookedInv ==
  ASSUME AccountInv, CountInv, NEW s \in Surfaces, Booked(s) PROVE CountInv'
<1>1. PICK x : Return(s, x) /\ Ledger(x, Elsewhere(s))
  BY DEF Booked
<1>2. DOMAIN sf = Surfaces
  BY DEF AccountInv
<1>3. /\ acc' = x.acc /\ dev' = x.dev /\ sf'[s] = x.sf
      /\ \A t \in Surfaces : t # s => sf'[t] = sf[t]
  BY <1>1, <1>2 DEF Return
<1>4. Masters' = (Masters \ {s}) \cup (IF x.sf.master THEN {s} ELSE {})
  BY <1>3 DEF Masters
<1>5. IsFiniteSet(Masters \ {s}) /\ Elsewhere(s) = Cardinality(Masters \ {s})
  BY FS_RemoveElement DEF CountInv, Elsewhere
<1> DEFINE M == Masters \ {s}
<1>6. IsFiniteSet(Masters') /\ Cardinality(Masters') = Elsewhere(s) + IF x.sf.master THEN 1 ELSE 0
  <2>1. CASE x.sf.master
    <3>1. Masters' = M \cup {s} /\ s \notin M
      BY <1>4, <2>1
    <3> HIDE DEF M
    <3>2. IsFiniteSet(M \cup {s}) /\ Cardinality(M \cup {s}) = Cardinality(M) + 1
      BY <1>5, <3>1, FS_AddElement DEF M
    <3> QED BY <1>5, <2>1, <3>1, <3>2 DEF M
  <2>2. CASE ~x.sf.master
    <3>1. Masters' = M
      BY <1>4, <2>2
    <3>2. Cardinality(M) \in Nat
      BY <1>5, FS_CardinalityType
    <3> QED BY <1>5, <2>2, <3>1, <3>2
  <2> QED BY <2>1, <2>2
<1>7. \A t \in Masters' : sf'[t].state = "open"
  <2>1. \A t \in Masters : sf[t].state = "open"
    BY DEF CountInv
  <2>2. x.sf.master => x.sf.state = "open"
    BY <1>1 DEF Ledger
  <2>3. ASSUME NEW t \in Masters' PROVE sf'[t].state = "open"
    <3>1. CASE t = s
      BY <1>3, <1>4, <2>2, <2>3, <3>1
    <3>2. CASE t # s
      <4>1. t \in Masters /\ t \in Surfaces
        BY <1>4, <2>3, <3>2 DEF Masters
      <4> QED BY <1>3, <2>1, <3>2, <4>1
    <3> QED BY <3>1, <3>2
  <2> QED BY <2>3
<1>8. acc'.count = Cardinality(Masters')
  BY <1>1, <1>3, <1>6 DEF Ledger
<1> QED
  BY <1>1, <1>3, <1>6, <1>7, <1>8 DEF Ledger, CountInv

LEMMA CalmBooked ==
  ASSUME AccountInv, CountInv, NEW s \in Surfaces, NEW x, Return(s, x), Calm(Call(s), x)
  PROVE  Booked(s)
BY CallLedger, LedgerCalm DEF Booked

LEMMA CallCalm == ASSUME AccountInv, CountInv, NEW s \in Surfaces PROVE Calm(Call(s), Call(s))
BY CallLedger, LedgerBegins

LEMMA OpenBooked == ASSUME AccountInv, CountInv, NEW s \in Surfaces, Open(s) PROVE Booked(s)
<1> DEFINE c == Call(s)
           x == [c EXCEPT !.sf = [NewSurface EXCEPT !.state = "open"]]
           n == Elsewhere(s)
<1>1. PICK z \in Start3D(x) : Return(s, z)
  BY DEF Open
<1>2. Ledger(c, n) /\ n \in Nat /\ c.sf.state # "open"
  BY CallLedger DEF Open, Call
<1> HIDE DEF c, n
<1>3. Shape(c) /\ ~c.sf.master
  BY <1>2 DEF Ledger
<1>4. /\ Shape(x) /\ x.vtb = c.vtb /\ x.dev = c.dev /\ x.acc = c.acc
      /\ x.sf.state = "open" /\ x.sf.master = FALSE
  BY <1>3 DEF Shape, NewSurface, SurfaceFields
<1> HIDE DEF x
<1>5. Ledger(x, n)
  BY <1>2, <1>3, <1>4 DEF Ledger
<1>6. Ledger(z, n)
  BY <1>1, <1>2, <1>4, <1>5, Start3DLedger
<1> QED
  BY <1>1, <1>6 DEF Booked, n

LEMMA CloseBooked == ASSUME AccountInv, CountInv, NEW s \in Surfaces, clientClose(s) PROVE Booked(s)
<1> DEFINE x == Call(s)
           c == Cleanup(x)
           y == [c EXCEPT !.sf.state = "closed"]
           n == Elsewhere(s)
<1>1. Return(s, y)
  BY DEF clientClose
<1>2. Ledger(x, n) /\ n \in Nat
  BY CallLedger
<1> HIDE DEF x, n
<1>3. Ledger(c, n) /\ ~c.sf.master
  BY <1>2, CleanupLedger
<1> HIDE DEF c
<1>4. Shape(c)
  BY <1>3 DEF Ledger
<1>5. /\ Shape(y) /\ y.vtb = c.vtb /\ y.dev = c.dev /\ y.acc = c.acc /\ y.sf.master = c.sf.master
  BY <1>4 DEF Shape, SurfaceFields
<1> HIDE DEF y
<1>6. Ledger(y, n)
  BY <1>3, <1>5 DEF Ledger
<1> QED
  BY <1>1, <1>6 DEF Booked, n

LEMMA ShapeBooked ==
  ASSUME AccountInv, CountInv, NEW s \in Surfaces, NEW client, NEW fit, NEW offset, NEW grab,
         set_shape_backing_length_ext(s, client, fit, offset, grab)
  PROVE  Booked(s)
<1> DEFINE c == Call(s)
           x == [c EXCEPT !.sf.region = FALSE, !.sf.client = FALSE]
           y == [x EXCEPT !.sf.client = client, !.sf.region = TRUE, !.sf.fit = fit, !.sf.offset = offset,
                          !.vtb.gart = IF client /\ @ # 0 THEN 2 ELSE @,
                          !.sf.skip = (sf[s].wid = "desktop" /\ grab) \/ @]
<1>1. \/ Return(s, x)
      \/ Return(s, [x EXCEPT !.vtb.gart = y.vtb.gart])
      \/ Return(s, videoReshape(y))
  BY DEF set_shape_backing_length_ext
<1>2. Calm(c, c)
  BY CallCalm
<1>3. \A a : Return(s, a) /\ Calm(c, a) => Booked(s)
  BY CalmBooked
<1> HIDE DEF c
<1>4. Calm(c, x)
  BY <1>2, PutCalm, Zenon
<1>5. Shape(x)
  BY <1>4 DEF Calm
<1> DEFINE g == y.vtb.gart
           k == y.sf.skip
<1>6. y = [x EXCEPT !.sf.client = client, !.sf.region = TRUE, !.sf.fit = fit, !.sf.offset = offset,
                    !.vtb.gart = g, !.sf.skip = k]
  BY <1>5 DEF Shape, SurfaceFields, BufferFields
<1> HIDE DEF x, g, k
<1>7. ASSUME NEW v, NEW w
      PROVE  Calm(x, [x EXCEPT !.sf.client = client, !.sf.region = TRUE, !.sf.fit = fit, !.sf.offset = offset,
                               !.vtb.gart = v, !.sf.skip = w])
  <2> DEFINE z == [x EXCEPT !.sf.client = client, !.sf.region = TRUE, !.sf.fit = fit, !.sf.offset = offset,
                            !.vtb.gart = v, !.sf.skip = w]
  <2>1. /\ DOMAIN z = DOMAIN x /\ z.acc = x.acc /\ z.dev = x.dev
        /\ z.vtb = [x.vtb EXCEPT !.gart = v]
        /\ z.sf = [x.sf EXCEPT !.client = client, !.region = TRUE, !.fit = fit, !.offset = offset,
                           !.skip = w]
    BY <1>5 DEF Shape
  <2> HIDE DEF z
  <2>2. Shape(z)
    BY <1>5, <2>1 DEF Shape, SurfaceFields, BufferFields
  <2>3. z.sf.state = x.sf.state /\ z.sf.master = x.sf.master
    BY <1>5, <2>1 DEF Shape, SurfaceFields
  <2>4. Calm(x, z)
    BY <2>1, <2>2, <2>3, AsideCalm DEF Aside
  <2> QED BY <2>4 DEF z
<1>8. Calm(x, y)
  BY <1>6, <1>7, Zenon
<1> HIDE DEF y
<1>9. Calm(c, y)
  BY <1>4, <1>8, CalmTrans
<1>10. Calm(c, videoReshape(y))
  BY <1>9, VideoCalm
<1>11. \A v : Calm(c, [x EXCEPT !.vtb.gart = v])
  BY <1>4, PutCalm, Zenon
<1>12. CASE Return(s, [x EXCEPT !.vtb.gart = y.vtb.gart])
  BY <1>3, <1>11, <1>12, Zenon
<1> QED
  BY <1>1, <1>3, <1>4, <1>10, <1>12

LEMMA LocksBooked ==
  ASSUME AccountInv, CountInv, NEW s \in Surfaces,
         surface_read_lock(s) \/ surface_write_lock(s)
         \/ surface_read_unlock(s) \/ surface_write_unlock(s)
  PROVE  Booked(s)
<1> DEFINE c == Call(s)
           r == Lock(c, "read")
           w == IF sf[s].skip THEN [c EXCEPT !.sf.skip = FALSE] ELSE Lock(c, "write")
           Read(a) == IF a.ok THEN a.x ELSE Unlock(a.x, "read")
           Write(a) == IF ~a.ok THEN Unlock(a.x, "write") ELSE IF sf[s].offset THEN a.x ELSE sync(a.x)
           Outcomes(x) == {[ok |-> TRUE, x |-> x]} \cup AllocAndMap(x, 0)
<1>1. \/ \E a \in Outcomes(r) : Return(s, Read(a))
      \/ \E a \in Outcomes(w) : Return(s, Write(a))
      \/ Return(s, Unlock(c, "read")) \/ Return(s, Unlock(c, "write"))
  <2>1. CASE surface_read_lock(s)
    <3> HIDE DEF c
    <3>1. \E a \in IF sf[s].client THEN {[ok |-> TRUE, x |-> r]} ELSE AllocAndMap(r, 0) : Return(s, Read(a))
      BY <2>1 DEF surface_read_lock, c
    <3> QED BY <3>1
  <2>2. CASE surface_write_lock(s)
    <3>1. \E a \in IF sf[s].client THEN {[ok |-> TRUE, x |-> w]} ELSE AllocAndMap(w, 0) : Return(s, Write(a))
      BY <2>2 DEF surface_write_lock
    <3> HIDE DEF w, Write
    <3> QED BY <3>1
  <2>3. CASE surface_read_unlock(s) \/ surface_write_unlock(s)
    BY <2>3 DEF surface_read_unlock, surface_write_unlock
  <2> QED BY <2>1, <2>2, <2>3
<1>2. Calm(c, c)
  BY CallCalm
<1>3. \A a : Return(s, a) /\ Calm(c, a) => Booked(s)
  BY CalmBooked
<1> HIDE DEF c
<1>4. Calm(c, r) /\ Calm(c, w)
  <2>1. Calm(c, [c EXCEPT !.sf.skip = FALSE]) /\ Calm(c, Lock(c, "write")) /\ Calm(c, Lock(c, "read"))
    BY <1>2, PutCalm, PoolsCalm, Zenon
  <2> QED BY <2>1
<1> HIDE DEF r, w
<1>5. ASSUME NEW x, Calm(c, x), NEW a \in Outcomes(x)
      PROVE  Calm(c, Read(a)) /\ Calm(c, Write(a))
  <2> DEFINE z == a.x
  <2>1. Calm(c, z)
    BY <1>5, AllocAndMapCalm
  <2> HIDE DEF z
  <2>2. Calm(c, Unlock(z, "read")) /\ Calm(c, Unlock(z, "write")) /\ Calm(c, sync(z))
    BY <2>1, PoolsCalm, SyncCalm, Zenon
  <2> QED BY <2>1, <2>2 DEF z
<1>6. Calm(c, Unlock(c, "read")) /\ Calm(c, Unlock(c, "write"))
  BY <1>2, PoolsCalm, Zenon
<1> HIDE DEF Read, Write, Outcomes
<1> QED
  BY <1>1, <1>3, <1>4, <1>5, <1>6

LEMMA FlushBooked ==
  ASSUME AccountInv, CountInv, NEW s \in Surfaces, NEW plain, NEW ident, surface_flush(s, plain, ident)
  PROVE  Booked(s)
<1> DEFINE x == Call(s)
           n == Elsewhere(s)
           z == IF sf[s].screen
                THEN IF plain /\ ident THEN ScreenObjectOutDirect(x)
                     ELSE IF hw.d3 THEN ScreenObjectOutVia3D(x) ELSE x
                ELSE IF sf[s].master
                THEN doPresent(IF ~ident THEN DMAOutStretchWithCopy(x)
                               ELSE IF plain /\ sf[s].direct THEN DMAOutDirect(x)
                               ELSE DMAOutWithCopy(x))
                ELSE IF plain /\ ident THEN GFBOutDirect(x) ELSE x
<1>1. Return(s, z)
  BY DEF surface_flush
<1>2. Ledger(x, n) /\ n \in Nat /\ x.sf = sf[s]
  BY CallLedger DEF Call
<1> HIDE DEF x, n
<1>3. Ledger(ScreenObjectOutDirect(x), n) /\ Ledger(GFBOutDirect(x), n) /\ Ledger(ScreenObjectOutVia3D(x), n)
  BY <1>2, OutLedger
<1>4. sf[s].master => /\ Ledger(doPresent(DMAOutStretchWithCopy(x)), n)
                      /\ Ledger(doPresent(DMAOutDirect(x)), n)
                      /\ Ledger(doPresent(DMAOutWithCopy(x)), n)
  BY <1>2, MasterOutLedger, PresentLedger
<1>5. Ledger(z, n)
  BY <1>2, <1>3, <1>4
<1> QED
  BY <1>1, <1>5 DEF Booked, n

LEMMA SurfaceStepBooked ==
  ASSUME AccountInv, CountInv, NEW s \in Surfaces, SurfaceStep(s) PROVE Booked(s)
<1> DEFINE x == Call(s)
<1>1. Calm(x, x)
  BY CallCalm
<1>2. ASSUME NEW wid, set_id_mode(s, wid) PROVE Booked(s)
  <2> DEFINE y == IF wid = "desktop" /\ x.sf.screen THEN createPrimaryScreen(x) ELSE x
  <2>1. Return(s, [y EXCEPT !.sf.wid = wid])
    BY <1>2 DEF set_id_mode
  <2> HIDE DEF x
  <2>2. Calm(x, y)
    BY <1>1, NeutralCalm
  <2> HIDE DEF y
  <2>3. Calm(x, [y EXCEPT !.sf.wid = wid])
    BY <2>2, PutCalm, Zenon
  <2> QED BY <2>1, <2>3, CalmBooked DEF x
<1>3. ASSUME NEW fit, NEW offset, set_scale(s, fit, offset) PROVE Booked(s)
  <2>1. Return(s, [x EXCEPT !.sf.fit = fit, !.sf.offset = offset])
    BY <1>3 DEF set_scale
  <2> HIDE DEF x
  <2>2. Calm(x, [x EXCEPT !.sf.fit = fit, !.sf.offset = offset])
    BY <1>1, PutCalm, Zenon
  <2> QED BY <2>1, <2>2, CalmBooked DEF x
<1>4. CASE Draw(s)
  BY <1>3, <1>4, ShapeBooked, LocksBooked, FlushBooked DEF Draw
<1> QED
  BY <1>2, <1>4, OpenBooked, CloseBooked DEF SurfaceStep

LEMMA HeldBooked ==
  ASSUME AccountInv, CountInv, NEW c, ctx[c].surf \in Surfaces,
         \/ swap_surface(c) \/ lock_memory(c) \/ unlock_memory(c) \/ CopyFramebufferRegion(c)
         \/ \E fit \in Fits : scale_surface(c, fit)
         \/ \E s \in Surfaces : CopySurfaceRegion(c, s)
  PROVE  Booked(ctx[c].surf)
<1> DEFINE s == ctx[c].surf
           x == Call(s)
           n == Elsewhere(s)
<1>1. Calm(x, x)
  BY CallCalm
<1>2. Ledger(x, n) /\ n \in Nat
  BY CallLedger
<1>3. \A z : OnSurface(c, z) /\ Ledger(z, n) => Booked(s)
  BY DEF OnSurface, Booked
<1>4. \A z : Calm(x, z) => Ledger(z, n)
  BY <1>2, LedgerCalm
<1>5. CASE swap_surface(c)
  <2>1. PICK z \in surface_flush_video(x) : OnSurface(c, z)
    BY <1>5 DEF swap_surface
  <2> HIDE DEF x, n
  <2> QED BY <1>1, <1>3, <1>4, <2>1, VideoCalm
<1>6. CASE lock_memory(c)
  <2>1. PICK z \in context_lock_memory(x) : OnSurface(c, z)
    BY <1>6 DEF lock_memory
  <2> HIDE DEF x, n
  <2> QED BY <1>1, <1>3, <1>4, <2>1, LockMemoryCalm
<1>7. CASE unlock_memory(c)
  <2>1. OnSurface(c, context_unlock_memory(x))
    BY <1>7 DEF unlock_memory
  <2> HIDE DEF x, n
  <2> QED BY <1>1, <1>3, <1>4, <2>1, LockMemoryCalm
<1>8. CASE CopyFramebufferRegion(c)
  <2>1. PICK z \in copy_framebuffer_region_to_self(x) : OnSurface(c, z)
    BY <1>8 DEF CopyFramebufferRegion
  <2> HIDE DEF x, n
  <2> QED BY <1>2, <1>3, <2>1, CopyLedger
<1>9. ASSUME NEW fit, scale_surface(c, fit) PROVE Booked(s)
  <2>1. OnSurface(c, [x EXCEPT !.sf.fit = fit, !.sf.offset = FALSE])
    BY <1>9 DEF scale_surface, context_scale_surface
  <2> HIDE DEF x, n
  <2>2. Calm(x, [x EXCEPT !.sf.fit = fit, !.sf.offset = FALSE])
    BY <1>1, PutCalm, Zenon
  <2> QED BY <1>3, <1>4, <2>1, <2>2
<1>10. ASSUME NEW t, CopySurfaceRegion(c, t) PROVE Booked(s)
  <2>1. PICK z \in copy_surface_region_to_self(x, sf[t], vtb[t]) : OnSurface(c, z)
    BY <1>10 DEF CopySurfaceRegion
  <2> HIDE DEF x, n
  <2> QED BY <1>2, <1>3, <2>1, CopyLedger
<1> QED
  BY <1>5, <1>6, <1>7, <1>8, <1>9, <1>10

LEMMA SetSurfaceBooked ==
  ASSUME AccountInv, CountInv, NEW s, findSurfaceForID(s), NEW yuv,
         \E x \in context_set_surface(Call(s), yuv) : Return(s, x)
  PROVE  s \in Surfaces /\ Booked(s)
<1>1. s \in Surfaces /\ sf[s].state = "open" /\ Call(s).sf = sf[s]
  BY DEF findSurfaceForID, Call
<1>2. PICK z \in context_set_surface(Call(s), yuv) : Return(s, z)
  OBVIOUS
<1>3. Ledger(Call(s), Elsewhere(s)) /\ Elsewhere(s) \in Nat
  BY <1>1, CallLedger
<1>4. Ledger(z, Elsewhere(s))
  BY <1>1, <1>2, <1>3, SetSurfaceLedger
<1> QED
  BY <1>1, <1>2, <1>4 DEF Booked

\* The books are not touched; the host surfaces to come are the same.
Unbooked == UNCHANGED <<acc, sf>> /\ \A H : Ends(dev, H) => Ends(dev', H)

LEMMA UnbookedInv == ASSUME CountInv, Unbooked PROVE CountInv'
BY DEF CountInv, Unbooked, Masters

LEMMA OnDeviceUnbooked ==
  ASSUME AccountInv, NEW c, finish(c) \/ DrawToFramebuffer(c) PROVE Unbooked
<1> DEFINE x == Accel
<1>1. DOMAIN x = {"acc", "dev"} /\ x.acc = acc /\ x.dev = dev /\ IsDevice(x.dev)
  BY DEF Accel, AccountInv
<1> HIDE DEF x
<1>2. ASSUME NEW z, OnDevice(c, z), z.acc = x.acc, \A H : Ends(x.dev, H) => Ends(z.dev, H) PROVE Unbooked
  BY <1>1, <1>2 DEF OnDevice, Unbooked
<1>3. ASSUME NEW k, Uses(k) = {}, k.op \notin {"define", "destroy"}, OnDevice(c, Queue(x, <<k>>)) PROVE Unbooked
  <2>1. \A H : Accepts(H, k) /\ Leaves(H, k) = H
    BY <1>3 DEF Accepts, Leaves
  <2> DEFINE z == Queue(x, <<k>>)
  <2>2. z.acc = x.acc
    BY <1>1 DEF Queue
  <2>3. \A H : Ends(x.dev, H) => Ends(z.dev, H)
    <3> TAKE H
    <3>1. Ends(x.dev, H) => Ends(z.dev, Leaves(H, k))
      BY <1>1, <2>1, QueueEnds
    <3> QED BY <2>1, <3>1
  <2>4. OnDevice(c, z)
    BY <1>3
  <2> HIDE DEF z
  <2> QED BY <1>2, <2>2, <2>3, <2>4
<1>4. OnDevice(c, x) => Unbooked
  BY <1>2
<1>5. CASE finish(c)
  <2> DEFINE z == SyncFIFO(x)
  <2>1. OnDevice(c, z)
    BY <1>5 DEF finish, x
  <2>2. z.acc = x.acc
    BY <1>1 DEF SyncFIFO
  <2>3. \A H : Ends(x.dev, H) => Ends(z.dev, H)
    BY <1>1, WaitEnds
  <2> HIDE DEF z
  <2> QED BY <1>2, <2>1, <2>2, <2>3
<1>6. CASE DrawToFramebuffer(c)
  <2>1. \/ OnDevice(c, x) \/ OnDevice(c, Queue(x, <<RectCopyCmd>>)) \/ OnDevice(c, Queue(x, <<RectFillCmd>>))
        \/ OnDevice(c, Queue(x, <<RectUpdate>>))
    BY <1>6 DEF DrawToFramebuffer, CopyRegion, RectCopy, RectFill, UpdateFramebufferAutoRing, x
  <2>2. RectCopyCmd.op = "rect_copy" /\ RectFillCmd.op = "rect_fill" /\ RectUpdate.op = "update"
    BY DEF RectCopyCmd, RectFillCmd, RectUpdate
  <2>3. Uses(RectCopyCmd) = {} /\ Uses(RectFillCmd) = {} /\ Uses(RectUpdate) = {}
    BY <2>2 DEF Uses
  <2> QED BY <1>3, <1>4, <2>1, <2>2, <2>3
<1> QED
  BY <1>5, <1>6

LEMMA NextBooked ==
  ASSUME AccountInv, ContextsInv, CountInv, [Next]_vars
  PROVE  (\E s \in Surfaces : Booked(s)) \/ Unbooked
<1>1. CASE UNCHANGED <<acc, dev, sf, vtb>>
  BY <1>1 DEF Unbooked
<1>2. CASE \E s \in Surfaces : SurfaceStep(s)
  BY <1>2, SurfaceStepBooked
<1>3. ASSUME NEW c \in Contexts, ContextStep(c) PROVE (\E s \in Surfaces : Booked(s)) \/ Unbooked
  <2>1. CASE finish(c) \/ DrawToFramebuffer(c)
    BY <2>1, OnDeviceUnbooked
  <2>2. CASE \/ swap_surface(c) \/ lock_memory(c) \/ unlock_memory(c) \/ CopyFramebufferRegion(c)
             \/ \E fit \in Fits : scale_surface(c, fit)
             \/ \E s \in Surfaces : CopySurfaceRegion(c, s)
    <3>1. Held(c)
      BY <2>2 DEF swap_surface, lock_memory, unlock_memory, CopyFramebufferRegion, scale_surface,
                  CopySurfaceRegion
    <3>2. ctx[c].surf \in Surfaces
      BY <3>1 DEF Held, ContextsInv
    <3>3. Booked(ctx[c].surf)
      BY <2>2, <3>2, HeldBooked
    <3> QED BY <3>2, <3>3
  <2>3. ASSUME NEW s, NEW yuv, set_surface(c, s, yuv) PROVE (\E t \in Surfaces : Booked(t)) \/ Unbooked
    <3>1. \/ UNCHANGED <<acc, dev, sf, vtb>>
          \/ findSurfaceForID(s) /\ \E x \in context_set_surface(Call(s), yuv) : Return(s, x)
      BY <2>3 DEF set_surface
    <3> QED BY <1>1, <3>1, SetSurfaceBooked
  <2>4. CASE OpenContext(c) \/ CloseContext(c)
    BY <1>1, <2>4 DEF OpenContext, CloseContext
  <2> QED BY <1>3, <2>1, <2>2, <2>3, <2>4 DEF ContextStep
<1>4. CASE DeviceStep
  <2>1. IsDevice(dev) /\ dev.queue # <<>> /\ dev' = Drain(dev, 1) /\ UNCHANGED <<acc, sf>>
    BY <1>4 DEF AccountInv, DeviceStep
  <2>2. 1 \in 0..Len(dev.queue)
    BY <2>1 DEF IsDevice
  <2>3. \A H : Ends(dev, H) => Ends(dev', H)
    BY <2>1, <2>2, DrainEnds
  <2> QED BY <2>1, <2>3 DEF Unbooked
<1>5. CASE UNCHANGED vars
  BY <1>1, <1>5 DEF vars
<1> QED
  BY <1>2, <1>3, <1>4, <1>5 DEF Next

LEMMA CountInit == ASSUME Init PROVE CountInv
<1>1. acc.sids = {} /\ acc.count = 0 /\ acc.master = NoId
  BY DEF Init, InitAccel
<1>2. dev.queue = <<>> /\ dev.host = {} /\ dev.error = FALSE
  BY DEF Init, InitAccel
<1>3. Masters = {}
  BY DEF Init, InitSurface, Masters, NewSurface
<1>4. Ends(dev, {})
  <2> DEFINE h == [i \in {0} |-> {}]
  <2>1. h[0] = {} /\ Len(dev.queue) = 0 /\ 1..0 = {}
    BY <1>2
  <2> HIDE DEF h
  <2>2. Trace(dev, h)
    BY <1>2, <2>1 DEF Trace, Runs
  <2> QED BY <2>1, <2>2 DEF Ends
<1> QED
  BY <1>1, <1>3, <1>4, FS_EmptySet DEF CountInv

\* The count of the master surface is the number of surfaces that have it,
\* the surface exists exactly while that is not zero, and no command reaches
\* the device that uses a host surface which is not there or defines one
\* again (VMsvga2Accel retainMasterSurface and releaseMasterSurface,
\* VMsvga2Surface Start3D, Cleanup3D and the ways to the screen).
THEOREM MasterKept == Spec => []MasterCounted
<1>1. Init => CountInv
  BY CountInit
<1>2. (AccountInv /\ ContextsInv) /\ CountInv /\ [Next]_vars => CountInv'
  BY NextBooked, BookedInv, UnbookedInv
<1>3. AccountInv /\ CountInv => MasterCounted
  <2> SUFFICES ASSUME AccountInv, CountInv PROVE MasterCounted
    OBVIOUS
  <2>1. PICK h : Trace(dev, h)
    BY DEF CountInv, Ends
  <2>2. IsDevice(dev) /\ Len(dev.queue) \in 0..Len(dev.queue)
    BY DEF AccountInv, IsDevice
  <2>3. Left(h, Len(dev.queue), Drain(dev, Len(dev.queue)))
    BY <2>1, <2>2, DrainTraces
  <2>4. Drain(dev, Len(dev.queue)).error = FALSE
    BY <2>3 DEF Left
  <2> QED BY <2>4 DEF CountInv, MasterCounted, Masters
<1> QED
  BY <1>1, <1>2, <1>3, AccountStays, PTL DEF Spec

=============================================================================
