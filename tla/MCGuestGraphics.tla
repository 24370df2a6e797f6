--------------------------- MODULE MCGuestGraphics ---------------------------
(* Small instance of GuestGraphics for TLC.                                *)
EXTENDS GuestGraphics

Hooks == {"enableController", "setupForCurrentConfig", "getVRAMRange",
          "getApertureRange", "setDisplayMode", "getInformationForDisplayMode",
          "getDisplayModes", "getPixelInformation", "getTimingInfoForDisplayMode",
          "connectFlags"}

\* All methods routed, and the patcher's among the original's.
MCRouteOutcomes == {Hooks, Hooks \ {"getVRAMRange", "setupForCurrentConfig", "connectFlags"}}

MCScreen == [w |-> 4, h |-> 4, pitch |-> 5]

Packed(w, h, x, y, bw, bh, backing) ==
    [kind |-> "packed", w |-> w, h |-> h, rowbytes |-> 0, length |-> 0, residue |-> 0,
     x |-> x, y |-> y, bw |-> bw, bh |-> bh, backing |-> backing]

\* A packed surface; one whose buffer is a part of it; one in the client's rows;
\* the desktop in the rows of the screen.  Geometries only set_scale gives:
\* larger than the backing that is there, a buffer wider than its rows and
\* higher than its source, buffers that start behind the backing and before it.
MCShapes ==
    {Packed(3, 3, 0, 0, 3, 3, 12),
     Packed(3, 3, 1, 1, 1, 2, 12),
     [Packed(3, 2, 0, 0, 3, 2, 12) EXCEPT !.kind = "client", !.rowbytes = 5, !.length = 10,
                                          !.residue = 1],
     [Packed(3, 3, 1, 1, 2, 3, 20) EXCEPT !.kind = "desktop"],
     Packed(3, 3, 0, 0, 3, 3, 4),
     Packed(2, 2, 0, 0, 3, 3, 4),
     Packed(2, 2, 3, 3, 2, 2, 4),
     Packed(2, 2, -1, 0, 2, 2, 4)}

Box(x, y, w, h) == [x |-> x, y |-> y, w |-> w, h |-> h]

\* Without rectangles, with the bounds, in parts, with a rectangle outside of
\* the bounds, and one of no size.
MCRegions ==
    LET Of(b, rects) == [bounds |-> b, rects |-> rects]
        Bounds == {Box(0, 0, 3, 3), Box(1, 1, 2, 3), Box(0, 1, 3, 1), Box(1, 0, 1, 2)}
    IN  UNION {{Of(b, <<>>), Of(b, <<b>>)} : b \in Bounds}
        \cup {Of(Box(0, 0, 3, 3), <<Box(0, 0, 1, 3), Box(2, 0, 1, 1)>>),
              Of(Box(0, 0, 1, 1), <<Box(-2, -1, 3, 2), Box(1, 1, 3, 3)>>),
              Of(Box(1, 1, 2, 2), <<Box(1, 1, -2, 2), Box(3, 3, 3, 3)>>)}

\* Near the buffer, where a size that is stored wraps, and where an int does.
MCPoints ==
    ({-2, -1, 0, 1, 3} \X {-2, -1, 0, 2}) \cup {<<8, 0>>, <<0, 8>>, <<-9, 1>>, <<0, -7>>, <<31, 0>>, <<0, -32>>}

=============================================================================
