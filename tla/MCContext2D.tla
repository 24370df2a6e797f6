----------------------------- MODULE MCContext2D -----------------------------
(***************************************************************************)
(* Hosts without acceleration, with a screen object, with 3D and with both;*)
(* for each the uses of the surfaces that its paths depend on.  One block  *)
(* of video memory, one guest memory region and one overlay stream make    *)
(* every pool run dry.                                                     *)
(***************************************************************************)
EXTENDS Context2D
CONSTANTS s1, s2

Plain == {"gmr"}
Screen == {"screen_object", "gmr"}
Host3D == {"extended_fifo", "3d", "gmr"}

Setup(caps, use) == [args |-> {"svga3d"}, caps |-> caps, use |-> use]
MCSetups ==
    {Setup(Plain, {"draw", "context", "client"}),
     Setup(Screen, {"draw", "context", "client", "offset"}),
     Setup(Screen, {"draw", "desktop", "context"}),
     Setup(Screen, {"context", "video", "extra"}),
     Setup(Screen \cup Host3D, {"draw", "read", "offset"}),
     Setup(Screen \cup Host3D, {"draw", "extra"}),
     Setup(Host3D, {"draw", "context"}),
     Setup(Host3D, {"draw", "desktop"}),
     Setup(Host3D, {"context", "video"}),
     Setup(Host3D \ {"gmr"}, {"draw", "extra"})}
=============================================================================
