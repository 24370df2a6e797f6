---------------------------- MODULE GuestGraphics ----------------------------
(***************************************************************************)
(* The parts of the guest's graphics around the accelerator's core: the 2D *)
(* plug-in, the GL user clients, the framebuffer drivers, the helper with  *)
(* the drivers it watches, and the copies the processor makes.  They share *)
(* no state (the drivers are the same module under two workloads), so that *)
(* a behaviour takes the steps of one part, chosen at the start, and a     *)
(* property of one part holds of all of them side by side.                 *)
(***************************************************************************)
EXTENDS GAPlugIn, GLClients, QEMUHelper, RegionBlit

VARIABLE part   \* "plug-in", "clients", "drivers", "helper" or "copies"

vars == <<gaVars, glVars, fbVars, helperVars, blit, part>>

Init ==
    /\ part \in {"plug-in", "clients", "drivers", "helper", "copies"}
    /\ InitGA /\ InitGL /\ InitFB /\ InitHelper /\ InitBlit

PlugInStep == part = "plug-in" /\ NextGA /\ UNCHANGED <<glVars, fbVars, helperVars, blit, part>>
ClientStep == part = "clients" /\ NextGL /\ UNCHANGED <<gaVars, fbVars, helperVars, blit, part>>
DriverStep == part = "drivers" /\ NextDrivers /\ UNCHANGED <<gaVars, glVars, blit, part>>
HelperStep == part = "helper" /\ NextHelper /\ UNCHANGED <<gaVars, glVars, blit, part>>
CopyStep == part = "copies" /\ NextBlit /\ UNCHANGED <<gaVars, glVars, fbVars, helperVars, part>>

Next == PlugInStep \/ ClientStep \/ DriverStep \/ HelperStep \/ CopyStep

\* The work loop runs an armed timer and its action to the end, and IOKit's
\* threads deliver a notification to the end.
Fairness ==
    LET alone == UNCHANGED <<gaVars, glVars, blit, part>>
    IN  /\ WF_vars(part = "helper" /\ TimerAction /\ alone)
        /\ \A f \in Framebuffers : WF_vars(part = "helper" /\ Matching(f) /\ alone)

Spec == Init /\ [][Next]_vars /\ Fairness

=============================================================================
