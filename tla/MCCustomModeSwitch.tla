------------------------- MODULE MCCustomModeSwitch -------------------------
(***************************************************************************)
(* Two callers and three modes; requests beyond both ends of the range; a  *)
(* hardware that starts in a mode's size or in none.                       *)
(***************************************************************************)
EXTENDS CustomModeSwitch

(* Modes 2 and 3. *)
MCModeSize == <<2, 3>>
=============================================================================
