-------------------------- MODULE MCDisplayRefresh --------------------------
(***************************************************************************)
(* Two tasks with 2D contexts and two threads that run timer actions.      *)
(***************************************************************************)
EXTENDS DisplayRefresh
=============================================================================
