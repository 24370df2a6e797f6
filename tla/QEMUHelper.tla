------------------------------ MODULE QEMUHelper ------------------------------
(***************************************************************************)
(* QEMUHelper: patches properties of the framebuffer from matching         *)
(* notifications, which run on IOKit's threads, and from a timer, whose    *)
(* action runs on the work loop.  Both read and write gFramebuffer, with   *)
(* no lock.                                                                *)
(*                                                                         *)
(* Assumed of IOKit: a framebuffer is not let go by the registry while its *)
(* notification runs, and the helper is not stopped then.  stop does not   *)
(* remove the notifiers: framebuffers that appear later are still stored.  *)
(***************************************************************************)
EXTENDS Framebuffers

CONSTANT MatchedDrivers  \* the drivers that appear beside the helper

VARIABLES hs,           \* the helper: state, timer, patchAttempts, limits raised
          gFramebuffer, \* the framebuffer it patches
          action,       \* timerFired: where it is, and the pointer it has read
          note          \* per framebuffer: where framebufferMatched is

helperVars == <<hs, gFramebuffer, action, note>>

Attempts == 5        \* the timer patches this often
RaisingAttempts == {2, 4}

Idle == [pc |-> "idle", fb |-> Nil]

InitHelper ==
    /\ hs = [st |-> "none", timer |-> "null", patchAttempts |-> 0, raised |-> {}]
    /\ gFramebuffer = Nil
    /\ action = Idle
    /\ note = [f \in Framebuffers |-> "none"]

\* IOService::start may fail; there may be no work loop, and then no timer.
startHelper ==
    /\ hs.st = "none"
    /\ \E t \in {"null", "idle"} : hs' = [hs EXCEPT !.st = "running", !.timer = t]
    /\ UNCHANGED <<gFramebuffer, action, note, fbVars>>

\* cancelTimeout; removeEventSource waits until the action has ended, and the
\* action may arm the timer again meanwhile.
stopCancel ==
    /\ hs.st = "running"
    /\ \A f \in Framebuffers : note[f] \in {"none", "done"}
    /\ hs' = [hs EXCEPT !.st = "stopping", !.timer = IF @ = "armed" THEN "idle" ELSE @]
    /\ UNCHANGED <<gFramebuffer, action, note, fbVars>>

stopRelease ==
    /\ hs.st = "stopping" /\ action = Idle
    /\ \A f \in Framebuffers : note[f] \in {"none", "done"}
    /\ hs' = [hs EXCEPT !.st = "stopped", !.timer = "null"]
    /\ fb' = IF gFramebuffer = Nil THEN fb ELSE [fb EXCEPT ![gFramebuffer].refs = @ - 1]
    /\ gFramebuffer' = Nil
    /\ UNCHANGED <<action, note, patch, acc, smc>>

-----------------------------------------------------------------------------
(* framebufferMatched: once for each framebuffer that is published, before *)
(* or after the helper starts.                                             *)

matchedRetain(f) ==
    /\ hs.st # "none" /\ fb[f].st = "started" /\ note[f] = "none"
    /\ note' = [note EXCEPT ![f] = "retained"]
    /\ fb' = [fb EXCEPT ![f].refs = @ + 1]
    /\ UNCHANGED <<hs, gFramebuffer, action, patch, acc, smc>>

\* Faulty variant: the framebuffer held before is released.
matchedStoreReleases(f) ==
    /\ note[f] = "retained"
    /\ note' = [note EXCEPT ![f] = "stored"]
    /\ gFramebuffer' = f
    /\ fb' = IF gFramebuffer = Nil THEN fb ELSE [fb EXCEPT ![gFramebuffer].refs = @ - 1]
    /\ UNCHANGED <<hs, action, patch, acc, smc>>

\* The framebuffer held before keeps the helper's reference for good.
matchedStore(f) ==
    /\ note[f] = "retained"
    /\ note' = [note EXCEPT ![f] = "stored"]
    /\ gFramebuffer' = f
    /\ UNCHANGED <<hs, action, fbVars>>

patchEDID(f) == {fb, [fb EXCEPT ![f].edid = TRUE]}      \* the data may not be had
patchVRAM(f) == {fb, [fb EXCEPT ![f].mem = "fixed"]}

\* setTimeoutMS sets the time anew when the timer is armed.
matchedPatch(f) ==
    /\ note[f] = "stored"
    /\ note' = [note EXCEPT ![f] = "done"]
    /\ fb' \in patchEDID(f)
    /\ hs' = [hs EXCEPT !.timer = IF @ = "null" THEN @ ELSE "armed"]
    /\ UNCHANGED <<gFramebuffer, action, patch, acc, smc>>

\* The framebuffer whose connect appeared, and the connect itself.
displayConnectMatched(f) ==
    /\ hs.st # "none" /\ fb[f].st = "started"
    /\ fb' \in patchEDID(f)
    /\ UNCHANGED <<helperVars, patch, acc, smc>>

-----------------------------------------------------------------------------
(* timerFired.  gFramebuffer is read for the test and again for each call. *)

timerFired ==
    /\ hs.timer = "armed" /\ action = Idle
    /\ IF gFramebuffer = Nil
       THEN hs' = [hs EXCEPT !.timer = "idle"] /\ UNCHANGED action
       ELSE /\ hs' = [hs EXCEPT !.timer = "idle", !.patchAttempts = @ + 1]
            /\ action' = [pc |-> "vram", fb |-> gFramebuffer]
    /\ UNCHANGED <<gFramebuffer, note, fbVars>>

actionVRAM ==
    /\ action.pc = "vram"
    /\ fb' \in patchVRAM(action.fb)
    /\ action' = [pc |-> "edid", fb |-> gFramebuffer]
    /\ UNCHANGED <<hs, gFramebuffer, note, patch, acc, smc>>

actionEDID ==
    /\ action.pc = "edid"
    /\ fb' \in patchEDID(action.fb)
    /\ action' = [pc |-> "limits", fb |-> Nil]
    /\ UNCHANGED <<hs, gFramebuffer, note, patch, acc, smc>>

raiseJetsamLimits == IF hs.patchAttempts \in RaisingAttempts
                     THEN hs.raised \cup {hs.patchAttempts} ELSE hs.raised

\* Faulty variant: the timer is armed again only after an attempt that raised
\* no limits.
actionEndSkips ==
    /\ action.pc = "limits"
    /\ action' = Idle
    /\ hs' = [hs EXCEPT !.raised = raiseJetsamLimits,
                        !.timer = IF hs.patchAttempts < Attempts
                                     /\ hs.patchAttempts \notin RaisingAttempts
                                  THEN "armed" ELSE @]
    /\ UNCHANGED <<gFramebuffer, note, fbVars>>

actionEnd ==
    /\ action.pc = "limits"
    /\ action' = Idle
    /\ hs' = [hs EXCEPT !.raised = raiseJetsamLimits,
                        !.timer = IF hs.patchAttempts < Attempts THEN "armed" ELSE @]
    /\ UNCHANGED <<gFramebuffer, note, fbVars>>

-----------------------------------------------------------------------------

Matching(f) == matchedRetain(f) \/ matchedStore(f) \/ matchedPatch(f)
TimerAction == timerFired \/ actionVRAM \/ actionEDID \/ actionEnd
Stopping_(f) == note[f] \in {"none", "done"} /\ Stopping(f) /\ UNCHANGED helperVars

NextHelper ==
    \/ startHelper \/ stopCancel \/ stopRelease
    \/ TimerAction
    \/ \E f \in Framebuffers : Matching(f) \/ displayConnectMatched(f) \/ Stopping_(f)
    \/ /\ \/ \E f \in Framebuffers : Starting(f, MatchedDrivers) \/ Configuring(f)
          \/ qdp_start
       /\ UNCHANGED helperVars

NextDrivers ==
    /\ \/ \E f \in Framebuffers : Starting(f, Drivers) \/ Stopping(f) \/ Configuring(f) \/ Using(f)
       \/ qdp_start
       \/ Accelerating
    /\ UNCHANGED helperVars

-----------------------------------------------------------------------------
(* Properties.                                                             *)

\* A framebuffer lives as long as someone uses it, and no longer than it has
\* to: its references are the registry's, the accelerator's and at most one
\* of the helper, which covers the pointer the helper keeps and the one its
\* timer action has read, however framebuffers come and go meanwhile.  What
\* a driver acquired it holds only while it is started, after a start that
\* failed at any step or a stop nothing is left, and BAR1 has exactly one
\* reference for its device, each range handed out and the accelerator's map.
\* (QEMUDisplay hands out BAR1 without one, and is left out there.)
FramebufferHeld ==
    /\ \A f \in Framebuffers :
         LET registry == IF fb[f].st \in {"attached", "started"} THEN 1 ELSE 0
             accel == IF acc.framebuffer = f THEN 1 ELSE 0
             map == IF accel = 1 /\ "vram_kernel_map" \in acc.held THEN 1 ELSE 0
         IN  /\ fb[f].refs \in registry + accel .. registry + accel + 1
             /\ note[f] = "none" => fb[f].refs = registry + accel
             /\ fb[f].held # {} => fb[f].st = "started"
             /\ fb[f].driver # "QEMUDisplay" => fb[f].bar = 1 + fb[f].ranges + map
    /\ \A f \in {gFramebuffer, action.fb} \ {Nil} : fb[f].refs > 0
    /\ gFramebuffer # Nil /\ fb[gFramebuffer].st = "gone" =>
         fb[gFramebuffer].refs = IF acc.framebuffer = gFramebuffer THEN 2 ELSE 1
    /\ acc.started = (acc.framebuffer # Nil) /\ (~acc.started => acc.held = {})

\* Once the helper has a framebuffer and a timer it finishes, unless it is
\* stopped: five attempts, the limits raised on the second and on the fourth,
\* although new framebuffers set the timer anew in the middle of an attempt.
HelperFinishes ==
    (hs.st = "running" /\ hs.timer # "null" /\ gFramebuffer # Nil) ~>
        \/ hs.st # "running"
        \/ hs.patchAttempts >= Attempts /\ hs.raised = RaisingAttempts

=============================================================================
