----------------------------- MODULE RegionBlit -----------------------------
(***************************************************************************)
(* The copies the processor makes between surfaces and the framebuffer:    *)
(* the geometry of a surface, the clipping of a region to it, and the loop *)
(* over the rows of each rectangle.  Addresses count pixels from the start *)
(* of the backing or of the framebuffer.  Coordinates have the width of    *)
(* IOAccelBounds, Half being 2^15 there; sums of them are int and sizes    *)
(* and products uint32_t, HalfWord being 2^31 there; addresses are wider.  *)
(* Signed sums that overflow wrap, as the compiler has them do.            *)
(*                                                                         *)
(* A copy runs alone: surfaces and the mode of the screen do not change    *)
(* under it.                                                               *)
(***************************************************************************)
EXTENDS Integers, Sequences

CONSTANTS Half,         \* coordinates are -Half .. Half - 1
          HalfWord,     \* an int is -HalfWord .. HalfWord - 1
          PageSize,     \* to which the size of a backing is rounded
          Screen,       \* the mode: w, h, pitch
          Shapes,       \* geometries of surfaces, see ShapeAssumption
          Regions,      \* bounds and rects of the regions that are copied
          Points        \* destinations

VARIABLE blit           \* the copy: see NoBlit

Word == 2 * HalfWord
Coordinates == (-Half)..(Half - 1)
Ints == (-HalfWord)..(HalfWord - 1)

ASSUME HalfAssumption == Half \in Nat \ {0} /\ HalfWord \in Nat \ {0}

Int16(n) == ((n + Half) % (2 * Half)) - Half
Int32(n) == ((n + HalfWord) % Word) - HalfWord

InBox(p, w, h) == p[1] \in 0..(w - 1) /\ p[2] \in 0..(h - 1)
Pixels(r) == {<<x, y>> : x \in r.x..(r.x + r.w - 1), y \in r.y..(r.y + r.h - 1)}

\* What was asked, the rectangles, the one that is copied and its row, the
\* addresses that row goes to and comes from, and the pairs copied so far.
NoBlit == [st |-> "idle", ask |-> {}, rects |-> <<>>, at |-> 1, row |-> 0,
           to |-> 0, from |-> 0, copied |-> {}]

InitBlit == blit = NoBlit

-----------------------------------------------------------------------------
(* Geometry.                                                               *)

RoundUp(n) == (((n + PageSize - 1) \div PageSize) * PageSize) % Word

getScreenInfo == [size |-> Screen.h * Screen.pitch, pitch |-> Screen.pitch]

\* w, h: the source; x, y, bw, bh: the buffer.  Both come from the client as
\* they are (set_scale).  rowbytes, length, residue: the client's memory;
\* backing: the size of what was allocated last.  kind: what the geometry was
\* calculated from.
ASSUME ShapeAssumption ==
    /\ PageSize \in Nat \ {0} /\ Screen.h \in Nat /\ Screen.pitch \in Nat
    /\ Screen.h * Screen.pitch < Word
    /\ \A s \in Shapes :
         /\ {s.w, s.h, s.x, s.y, s.bw, s.bh} \subseteq Coordinates
         /\ {s.rowbytes, s.length, s.backing} \subseteq 0..(Word - 1)
         /\ s.residue \in Nat

\* The rows of the screen for the desktop, of the client for its own memory,
\* else packed.
calculateScaleParameters(s) ==
    LET pitch == CASE s.kind = "desktop" -> getScreenInfo.pitch
                   [] s.kind = "client"  -> s.rowbytes
                   [] OTHER              -> s.w % Word
        size == CASE s.kind = "desktop" -> getScreenInfo.size
                  [] s.kind = "client"  -> (s.length + s.residue) % Word
                  [] OTHER              -> (s.h * pitch) % Word
    IN  [size |-> RoundUp(size), pitch |-> pitch, offset |-> (s.y * pitch + s.x) % Word]

\* The size of the backing of a destination, which grows and never shrinks,
\* or is the client's memory.
allocBacking(s) ==
    LET size == calculateScaleParameters(s).size
    IN  IF s.kind = "client" \/ size > s.backing THEN size ELSE s.backing

\* Faulty variant: the limit counts from the start of the backing.
obtainKernelPtrsFromStart(s, size) ==
    LET p == calculateScaleParameters(s)
        t == s.residue + p.offset
    IN  [base |-> t, limit |-> t + (size % Word), pitch |-> p.pitch, end |-> size]

\* The kernel's view of a surface starts at its buffer and ends with its
\* backing, if it starts there: the difference is unsigned.
obtainKernelPtrs(s, size) ==
    LET p == calculateScaleParameters(s)
        t == s.residue + p.offset
    IN  [base |-> t, limit |-> t + ((size - t) % Word), pitch |-> p.pitch, end |-> size]

\* blitGFB: the framebuffer as an image.
GFBImage == LET size == Screen.h * Screen.pitch
            IN  [base |-> 0, limit |-> size, pitch |-> Screen.pitch, end |-> size]

-----------------------------------------------------------------------------
(* Clipping, which serves both axes alike.                                 *)

\* Faulty variant: what starts before the buffer is moved in and keeps its length.
ClipSpanMoves(pos, len, delta, size) ==
    LET x == Int32(pos + delta)
        at == IF x < 0 THEN 0 ELSE x
        end == IF Int32(at + len) > size THEN Int16(size - at) ELSE len
    IN  [pos |-> IF x < 0 THEN Int16(-delta) ELSE pos, len |-> IF end < 0 THEN 0 ELSE end]

ClipSpan(pos, len, delta, size) ==
    LET x == Int32(pos + delta)
        at == IF x < 0 THEN 0 ELSE x
        rest == IF x < 0 THEN Int16(len + x) ELSE len
        end == IF Int32(at + rest) > size THEN Int16(size - at) ELSE rest
    IN  [pos |-> IF x < 0 THEN Int16(-delta) ELSE pos, len |-> IF end < 0 THEN 0 ELSE end]

clipRegionToBuffer(rects, delta, s) ==
    [i \in DOMAIN rects |->
        LET r == rects[i]
            h == ClipSpan(r.x, r.w, delta[1], s.bw)
            v == ClipSpan(r.y, r.h, delta[2], s.bh)
        IN  [x |-> h.pos, y |-> v.pos, w |-> h.len, h |-> v.len]]

Shift(region, dest) == <<Int32(dest[1] - region.bounds.x), Int32(dest[2] - region.bounds.y)>>

\* The client's regions and destinations are not checked.
Boxes == [x : Coordinates, y : Coordinates, w : Coordinates, h : Coordinates]

ASSUME RegionAssumption ==
    /\ Points \subseteq Ints \X Ints
    /\ \A region \in Regions : region.bounds \in Boxes /\ region.rects \in Seq(Boxes)

-----------------------------------------------------------------------------
(* genericBlitCopy, and the calls that end in it.                          *)

\* Where the first row of a rectangle is.
Start(image, delta, r) ==
    image.base + ((Int32(r.y + delta[2]) * image.pitch) % Word) + Int32(r.x + delta[1])

IsEmpty(r) == r.w <= 0 \/ r.h <= 0

\* The copy b goes on with the first rectangle, from the i-th on, that is not
\* empty.
Enter(b, i) ==
    \E n \in i..(Len(b.rects) + 1) :
      /\ \A m \in i..(n - 1) : IsEmpty(b.rects[m])
      /\ \/ n > Len(b.rects) /\ blit' = [b EXCEPT !.at = n]
         \/ /\ n <= Len(b.rects) /\ ~IsEmpty(b.rects[n])
            /\ blit' = LET r == b.rects[n]
                       IN  [b EXCEPT !.at = n, !.row = 0,
                                     !.to = Start(b.ask.dst, b.ask.dstDelta, r),
                                     !.from = Start(b.ask.src, b.ask.srcDelta, r)]

genericBlitCopy(ask, rects) ==
    Enter([NoBlit EXCEPT !.st = "copy", !.ask = ask, !.rects = rects], 1)

Within(at, len, image) == at >= image.base /\ at + len <= image.limit

\* A row that does not fit is passed over, and the addresses stay.
CopyRow ==
    LET r == blit.rects[blit.at]
        b == [blit EXCEPT !.row = @ + 1]
        c == IF Within(b.to, r.w, b.ask.dst) /\ Within(b.from, r.w, b.ask.src)
             THEN [b EXCEPT !.to = @ + b.ask.dst.pitch, !.from = @ + b.ask.src.pitch,
                            !.copied = @ \cup {<<b.to + k, b.from + k>> : k \in 0..(r.w - 1)}]
             ELSE b
    IN  /\ blit.at \in DOMAIN blit.rects
        /\ IF c.row = r.h THEN Enter(c, c.at + 1) ELSE blit' = c

-----------------------------------------------------------------------------
(* What a copy is for: said with numbers of any size.                      *)

Address(image, delta, x, y) == image.base + (y + delta[2]) * image.pitch + x + delta[1]

\* Where a pixel goes to, and where it comes from.
Move(ask, p) == <<Address(ask.dst, ask.dstDelta, p[1], p[2]),
                  Address(ask.src, ask.srcDelta, p[1], p[2])>>

\* Memory ends where it ends, whatever the limit of the image is.
Stored(ask, p) == /\ Move(ask, p)[1] \in ask.dst.base..(ask.dst.end - 1)
                  /\ Move(ask, p)[2] \in ask.src.base..(ask.src.end - 1)

\* The rows of P down to the first that is not in memory.
StoredRows(ask, P) == {p \in P : \A q \in P : q[2] <= p[2] => Stored(ask, q)}

InBuffer(pixels, delta, s) == {p \in pixels : InBox(<<p[1] + delta[1], p[2] + delta[2]>>, s.bw, s.bh)}

\* No store or sum of clipRegionToBuffer wraps.
SpanFits(pos, len, delta, size) ==
    LET x == pos + delta
        at == IF x < 0 THEN 0 ELSE x
        rest == IF x < 0 THEN len + x ELSE len
    IN  /\ {x, at + rest} \subseteq Ints
        /\ x < 0 => {-delta, rest} \subseteq Coordinates
        /\ at + rest > size => size - at \in Coordinates

RegionFits(region, dest, s) ==
    LET delta == Shift(region, dest)
    IN  /\ dest[1] - region.bounds.x \in Ints /\ dest[2] - region.bounds.y \in Ints
        /\ \A i \in DOMAIN region.rects :
             LET r == region.rects[i]
             IN  SpanFits(r.x, r.w, delta[1], s.bw) /\ SpanFits(r.y, r.h, delta[2], s.bh)

\* An image whose buffer starts in its memory, and the first address of a
\* rectangle in it, which does not wrap.
ImageFits(image, delta, rects) ==
    /\ image.base <= image.end
    /\ \A i \in DOMAIN rects :
         ~IsEmpty(rects[i]) =>
            Start(image, delta, rects[i]) = Address(image, delta, rects[i].x, rects[i].y)

\* wanted: the pixels that have a place where they go, given those of each
\* rectangle; fits: no number wraps on the way to them.
Copy(dst, dstDelta, src, srcDelta, rects, asked, clips) ==
    LET ask == [dst |-> dst, dstDelta |-> dstDelta, src |-> src, srcDelta |-> srcDelta]
    IN  genericBlitCopy(
            [dst |-> dst, dstDelta |-> dstDelta, src |-> src, srcDelta |-> srcDelta,
             wanted |-> UNION {StoredRows(ask, asked[i]) : i \in DOMAIN asked},
             fits |-> /\ clips
                      /\ ImageFits(dst, dstDelta, rects) /\ ImageFits(src, srcDelta, rects)],
            rects)

Asked(rects) == [i \in DOMAIN rects |-> Pixels(rects[i])]
AskedOf(rects, delta, s) == [i \in DOMAIN rects |-> InBuffer(Pixels(rects[i]), delta, s)]

-----------------------------------------------------------------------------

isSourceValid(s) == s.w > 0 /\ s.h > 0

\* From another surface, which keeps the backing it has.  The bounds stand for
\* a region without rectangles, and are not clipped.
BlitSurface(s, source, region, dest) ==
    LET delta == Shift(region, dest)
        dst == obtainKernelPtrs(s, allocBacking(s))
        src == obtainKernelPtrs(source, source.backing)
    IN  /\ isSourceValid(s)
        /\ IF region.rects # <<>>
           THEN Copy(dst, delta, src, <<0, 0>>, clipRegionToBuffer(region.rects, delta, s),
                     AskedOf(region.rects, delta, s), RegionFits(region, dest, s))
           ELSE Copy(dst, delta, src, <<0, 0>>, <<region.bounds>>,
                     Asked(<<region.bounds>>), RegionFits(region, dest, s))

\* From the framebuffer, where there is neither a screen object nor 3D.
BlitFromGFB(s, region, dest) ==
    LET delta == Shift(region, dest)
    IN  /\ isSourceValid(s)
        /\ Copy(obtainKernelPtrs(s, allocBacking(s)), delta, GFBImage, <<0, 0>>,
                clipRegionToBuffer(region.rects, delta, s),
                AskedOf(region.rects, delta, s), RegionFits(region, dest, s))

\* surface_flush of a surface of the size of the region it is shown in.
GFBOutDirect(s, region) ==
    /\ s.bw = region.bounds.w /\ s.bh = region.bounds.h
    /\ Copy(GFBImage, <<0, 0>>, obtainKernelPtrs(s, s.backing),
            <<-region.bounds.x, -region.bounds.y>>, region.rects, Asked(region.rects), TRUE)

NextBlit ==
    \/ blit.st = "idle" /\ \E s \in Shapes, region \in Regions :
         \/ \E source \in Shapes, dest \in Points : BlitSurface(s, source, region, dest)
         \/ \E dest \in Points : BlitFromGFB(s, region, dest)
         \/ GFBOutDirect(s, region)
    \/ CopyRow

-----------------------------------------------------------------------------

\* Whatever geometry set_scale was given, whatever the region and wherever it
\* goes: where a surface's buffer starts in its backing, a copy (obtainKernelPtrs,
\* clipRegionToBuffer, genericBlitCopy) touches nothing before the buffer and
\* nothing behind the backing, although sizes, sums and products wrap on the
\* way and nothing else checks the rectangles.  A buffer that starts behind its
\* backing has a limit that wraps, and nothing is said of it.
BlitContained ==
    \A move \in blit.copied :
        LET dst == blit.ask.dst
            src == blit.ask.src
        IN  /\ dst.base <= dst.end => move[1] \in dst.base..(dst.end - 1)
            /\ src.base <= src.end => move[2] \in src.base..(src.end - 1)

\* A copy that has ended and in which no number wrapped has moved, of every
\* rectangle of its region, the pixels that have a place in the buffer, down to
\* the first row that is not in the memory of either side (the rows behind it
\* are lost, since genericBlitCopy passes over a row without advancing), from
\* where they are to where they belong, and has written nothing else.  A region
\* without rectangles is taken at its word.
BlitExact ==
    blit.st = "copy" /\ blit.at > Len(blit.rects) /\ blit.ask.fits
      => blit.copied = {Move(blit.ask, p) : p \in blit.ask.wanted}

=============================================================================
