----------------------------- MODULE MCSVGAFifo -----------------------------
(***************************************************************************)
(* Small instances of SVGAFifo: a ring of a few dwords, so that commands   *)
(* wrap, collide with STOP and need the bounce buffer; fence numbers that  *)
(* wrap after a few fences; a device with every capability and one with    *)
(* none.                                                                   *)
(***************************************************************************)
EXTENDS SVGAFifo

MCDevices == {{"reserve", "fence", "busy"}, {}}
=============================================================================
