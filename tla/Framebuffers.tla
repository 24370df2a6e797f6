----------------------------- MODULE Framebuffers -----------------------------
(***************************************************************************)
(* The framebuffer drivers of the guest: QEMUDisplay, Apple's              *)
(* IONDRVFramebuffer with the methods QEMUDisplayPatcher has routed to its *)
(* own, and VMsvga2 with the accelerator VMsvga2Accel beside it.  A driver *)
(* is a counted object that the registry holds while it is attached; what  *)
(* it acquires, the memory ranges it hands out, and who else retains it    *)
(* are the state here, and the current mode, which is one that every query *)
(* answered for.  Timings, EDID blocks and attributes are constants.       *)
(*                                                                         *)
(* IOKit starts and stops the drivers of a device one at a time, and       *)
(* IOFramebuffer serializes the calls to one driver.                       *)
(***************************************************************************)
EXTENDS Naturals, FiniteSets

CONSTANTS Framebuffers, \* driver objects
          Drivers,      \* their classes: QEMUDisplay, IONDRVFramebuffer, VMsvga2
          Modes,        \* display modes that are asked for
          KnownModes,   \* those of them in the driver's table
          NDRVModes,    \* those of them that IONDRVFramebuffer answers for
          FittingModes, \* those of them whose pixels fit in BAR1
          FirstMode,    \* the mode of 1920 by 1080
          RouteOutcomes,\* sets of methods the patcher may succeed in routing
          Nil,          \* a null pointer
          MaxRanges     \* memory ranges a client holds at a time

ASSUME NilAssumption == Nil \notin Framebuffers

VARIABLES fb,     \* per driver object, see NoFramebuffer
          patch,  \* QEMUDisplayPatcher: routed methods, current mode, modes asked for
          acc,    \* VMsvga2Accel: m_framebuffer and what it has acquired
          smc     \* the keys written to the SMC

fbVars == <<fb, patch, acc, smc>>

\* mem is IOFBMemorySize by its writer; bar counts the references to BAR1 of
\* the device, ranges the memory ranges of it that clients hold.
NoFramebuffer == [st |-> "none", driver |-> Nil, refs |-> 0, held |-> {}, mem |-> "none",
                  edid |-> FALSE, mode |-> FirstMode, mask |-> {},
                  bar |-> 1, ranges |-> 0]

Stopped == [started |-> FALSE, framebuffer |-> Nil, held |-> {}]

InitFB ==
    /\ fb = [f \in Framebuffers |-> NoFramebuffer]
    /\ patch = [routes |-> "none", routed |-> {}, mode |-> FirstMode, asked |-> {}]
    /\ acc = Stopped
    /\ smc = {}

-----------------------------------------------------------------------------
(* IOKit (external).                                                       *)

\* A driver is created for its device, initialized and attached.
Attach(f, driver) ==
    /\ fb[f].st = "none"
    /\ fb' = [fb EXCEPT ![f] = [NoFramebuffer EXCEPT !.st = "attached",
                                                     !.driver = driver, !.refs = 1]]
    /\ UNCHANGED <<patch, acc, smc>>

\* start has returned with these fields; a driver that failed is detached.
Starts(f, x, ok) ==
    fb' = [fb EXCEPT ![f] = IF ok THEN [x EXCEPT !.st = "started"]
                            ELSE [x EXCEPT !.st = "gone", !.refs = @ - 1]]

Detaches(f, x) == fb' = [fb EXCEPT ![f] = [x EXCEPT !.st = "gone", !.refs = @ - 1]]

Is(f, driver) == fb[f].st = "started" /\ fb[f].driver = driver

-----------------------------------------------------------------------------
(* QEMUDisplay.                                                            *)

\* initDevice reads the registers; the size of the memory is published
\* before IOFramebuffer starts, which may fail, as may the search for BAR0.
startQEMUDisplay(f) ==
    /\ fb[f].st = "attached" /\ fb[f].driver = "QEMUDisplay"
    /\ \/ Starts(f, fb[f], FALSE)
       \/ \E ok \in BOOLEAN : Starts(f, [fb[f] EXCEPT !.mem = "register", !.mode = FirstMode], ok)
    /\ UNCHANGED <<patch, acc, smc>>

\* ioMap is never set.
stopQEMUDisplay(f) ==
    /\ Is(f, "QEMUDisplay")
    /\ Detaches(f, fb[f])
    /\ UNCHANGED <<patch, acc, smc>>

smcWriteKey(key) == smc \cup {key}

enableController(f) ==
    /\ Is(f, "QEMUDisplay")
    /\ smc' = smcWriteKey("HE0N") \cup smcWriteKey("HE2N")
    /\ fb' = [fb EXCEPT ![f].mem = "bar1"]
    /\ UNCHANGED <<patch, acc>>

\* The modes each query has an answer for; a client sets none that one of
\* them has refused.
getDisplayModes == KnownModes
getInformationForDisplayMode == KnownModes
getPixelInformation == KnownModes
getTimingInfoForDisplayMode == KnownModes
OfferedModes == getDisplayModes \cap getInformationForDisplayMode
                \cap getPixelInformation \cap getTimingInfoForDisplayMode

setDisplayMode(f, mode) ==
    /\ Is(f, "QEMUDisplay") /\ mode \in OfferedModes
    /\ mode \in KnownModes
    /\ fb' = [fb EXCEPT ![f].mode = mode]
    /\ UNCHANGED <<patch, acc, smc>>

\* BAR1 is handed out without a reference, as getDeviceMemoryWithRegister
\* returned it.
getVRAMRange(x) == [x EXCEPT !.ranges = @ + 1]

\* IODeviceMemory::withSubRange, or a retained BAR1: one more reference.
withSubRange(x) == [x EXCEPT !.bar = @ + 1, !.ranges = @ + 1]

\* None when the mode does not fit.
getApertureRange(x) == IF x.mode \in FittingModes THEN withSubRange(x) ELSE x

-----------------------------------------------------------------------------
(* QEMUDisplayPatcher.                                                     *)

\* qdp_start asks for the routes; they are made when IONDRVFramebuffer is
\* published, each method or not.  qdp_stop refuses, so they stay.
qdp_start ==
    /\ patch.routes = "none"
    /\ patch' = [patch EXCEPT !.routes = "asked"]
    /\ UNCHANGED <<fb, acc, smc>>

startIONDRVFramebuffer(f) ==
    /\ fb[f].st = "attached" /\ fb[f].driver = "IONDRVFramebuffer"
    /\ \E ok \in BOOLEAN : Starts(f, [fb[f] EXCEPT !.mem = "ndrv"], ok)
    /\ IF patch.routes = "asked"
       THEN \E r \in RouteOutcomes : patch' = [patch EXCEPT !.routes = "made", !.routed = r]
       ELSE UNCHANGED patch
    /\ UNCHANGED <<acc, smc>>

stopIONDRVFramebuffer(f) ==
    /\ Is(f, "IONDRVFramebuffer")
    /\ Detaches(f, fb[f])
    /\ UNCHANGED <<patch, acc, smc>>

Routed(f, method) == Is(f, "IONDRVFramebuffer") /\ method \in patch.routed

patchedEnableController(f) ==
    /\ Routed(f, "enableController")
    /\ smc' = smcWriteKey("HE0N") \cup smcWriteKey("HE2N")
    /\ fb' = [fb EXCEPT ![f].mem = "bar1"]
    /\ UNCHANGED <<patch, acc>>

\* After the original, which publishes its own size; the modes asked for so
\* far are published beside the counts of calls.
patchedSetupForCurrentConfig(f) ==
    /\ Routed(f, "setupForCurrentConfig")
    /\ fb' = [fb EXCEPT ![f].mem = "bar1", ![f].mask = patch.asked]
    /\ UNCHANGED <<patch, acc, smc>>

\* The method of IONDRVFramebuffer itself, when it is not routed.
originalSetupForCurrentConfig(f) ==
    /\ Is(f, "IONDRVFramebuffer") /\ "setupForCurrentConfig" \notin patch.routed
    /\ fb' = [fb EXCEPT ![f].mem = "ndrv"]
    /\ UNCHANGED <<patch, acc, smc>>

\* Each query answers from the patcher's table or, where it is not routed,
\* from the original's; connectFlags passes on what is not in the table.
patchedGetDisplayModes == KnownModes
patchedGetPixelInformation == KnownModes
patchedGetTimingInfoForDisplayMode == KnownModes
patchedConnectFlags == KnownModes \cup NDRVModes

PatchedAnswers ==
    [getDisplayModes |-> patchedGetDisplayModes,
     getInformationForDisplayMode |-> KnownModes,
     getPixelInformation |-> patchedGetPixelInformation,
     getTimingInfoForDisplayMode |-> patchedGetTimingInfoForDisplayMode,
     connectFlags |-> patchedConnectFlags]

PatchedOffers(f, mode) ==
    \A q \in DOMAIN PatchedAnswers :
        mode \in IF Routed(f, q) THEN PatchedAnswers[q] ELSE NDRVModes

\* One current mode for every framebuffer the patcher serves.
patchedSetDisplayMode(f, mode) ==
    /\ Routed(f, "setDisplayMode") /\ PatchedOffers(f, mode)
    /\ mode \in KnownModes
    /\ patch' = [patch EXCEPT !.mode = mode]
    /\ UNCHANGED <<fb, acc, smc>>

patchedGetInformationForDisplayMode(f, mode) ==
    /\ Routed(f, "getInformationForDisplayMode")
    /\ mode \in KnownModes
    /\ patch' = [patch EXCEPT !.asked = @ \cup {mode}]
    /\ UNCHANGED <<fb, acc, smc>>

patchedGetVRAMRange(x) == withSubRange(x)

\* When the mode does not fit, the original may have a range of its own memory.
patchedGetApertureRange(x) == IF patch.mode \in FittingModes THEN withSubRange(x) ELSE x

-----------------------------------------------------------------------------
(* VMsvga2: what start acquires, in its order.  Cleanup serves the failed  *)
(* start and stop.                                                         *)

SVGACleanup(held) == held \ {"bar2_map", "bounce_buffer"}

Cleanup_(held) == SVGACleanup(held) \ {"refresh_call", "restore_call", "edid", "iolock"}

\* SVGADevice::Start, which cleans up after itself.
SVGAStart(held) ==
    {[ok |-> FALSE, held |-> SVGACleanup(held)],                    \* BAR0, id or BAR2
     [ok |-> FALSE, held |-> SVGACleanup(held \cup {"bar2_map"})],  \* no bounce buffer
     [ok |-> TRUE, held |-> held \cup {"bar2_map", "bounce_buffer"}]}

\* The EDID and the restore call are not needed; the refresh call exists where
\* the device cannot trace writes.  Too few modes, a FIFO that cannot be set up
\* and a lock that cannot be had are failures.
startVMsvga2(f) ==
    /\ fb[f].st = "attached" /\ fb[f].driver = "VMsvga2"
    /\ \E edid \in {{}, {"edid"}} : \E s \in SVGAStart(edid) :
         \/ /\ ~s.ok
            /\ Starts(f, [fb[f] EXCEPT !.held = Cleanup_(s.held)], FALSE)
         \/ /\ s.ok
            /\ \E calls \in SUBSET {"restore_call", "refresh_call"} :
                 \/ Starts(f, [fb[f] EXCEPT !.held = Cleanup_(s.held \cup calls)], FALSE)
                 \/ Starts(f, [fb[f] EXCEPT !.held = s.held \cup calls \cup {"iolock"}], TRUE)
    /\ UNCHANGED <<patch, acc, smc>>

stopVMsvga2(f) ==
    /\ Is(f, "VMsvga2")
    /\ Detaches(f, [fb[f] EXCEPT !.held = Cleanup_(@)])
    /\ UNCHANGED <<patch, acc, smc>>

\* All of BAR1 or a part of it; the aperture may not be had.
VMsvga2GetVRAMRange(x) == withSubRange(x)
VMsvga2GetApertureRange(x) == {x, withSubRange(x)}

-----------------------------------------------------------------------------
(* Ranges.  A client gives back what it was handed out.  Nothing is said   *)
(* of what happens once BAR1 has been freed under its device.              *)

Ranges(f) ==
    LET x == fb[f]
    IN  CASE Is(f, "VMsvga2")     -> {VMsvga2GetVRAMRange(x)} \cup VMsvga2GetApertureRange(x)
          [] Is(f, "QEMUDisplay") -> {getVRAMRange(x), getApertureRange(x)}
          [] Is(f, "IONDRVFramebuffer") ->
               (IF Routed(f, "getVRAMRange") THEN {patchedGetVRAMRange(x)} ELSE {})
               \cup (IF Routed(f, "getApertureRange") THEN {patchedGetApertureRange(x)} ELSE {})

TakeRange(f) ==
    /\ fb[f].st = "started" /\ fb[f].ranges < MaxRanges /\ fb[f].bar > 0
    /\ \E x \in Ranges(f) : fb' = [fb EXCEPT ![f] = x]
    /\ UNCHANGED <<patch, acc, smc>>

GiveBackRange(f) ==
    /\ fb[f].ranges > 0 /\ fb[f].bar > 0
    /\ fb' = [fb EXCEPT ![f].ranges = @ - 1, ![f].bar = @ - 1]
    /\ UNCHANGED <<patch, acc, smc>>

-----------------------------------------------------------------------------
(* VMsvga2Accel: start, the map of video memory, stop.                     *)

\* x is [acc, fb]: the accelerator and the framebuffers.
AccelCleanup(x) ==
    LET f == x.acc.framebuffer
        maps == IF "vram_kernel_map" \in x.acc.held THEN 1 ELSE 0
    IN  [acc |-> Stopped,
         fb |-> IF f = Nil THEN x.fb
                ELSE [x.fb EXCEPT ![f].refs = @ - 1, ![f].bar = @ - maps]]

\* A started VMsvga2 on the same device, with the options for acceleration.
findFramebuffer(x) ==
    {x} \cup {[acc |-> [x.acc EXCEPT !.framebuffer = f], fb |-> [x.fb EXCEPT ![f].refs = @ + 1]] :
              f \in {g \in Framebuffers : Is(g, "VMsvga2")}}

\* The lock and the allocator are needed, IOSurfaceRoot is not; a start that
\* fails ends in stop.
startAccel ==
    /\ ~acc.started
    /\ \E x \in findFramebuffer([acc |-> acc, fb |-> fb]) :
         \E held \in {{}, {"iolock"}, {"iolock", "allocator"},
                     {"iolock", "allocator", "surface_root"}} :
           LET ok == x.acc.framebuffer # Nil /\ "allocator" \in held
               y == IF ok THEN [x EXCEPT !.acc.held = held, !.acc.started = TRUE]
                    ELSE AccelCleanup([x EXCEPT !.acc.held = held])
           IN  acc' = y.acc /\ fb' = y.fb
    /\ UNCHANGED <<patch, smc>>

\* Done once; when the allocator cannot take the memory, the map is released.
setupAllocator ==
    /\ acc.started /\ "vram_kernel_map" \notin acc.held
    /\ acc' = [acc EXCEPT !.held = @ \cup {"vram_kernel_map"}]
    /\ fb' = [fb EXCEPT ![acc.framebuffer].bar = @ + 1]
    /\ UNCHANGED <<patch, smc>>

stopAccel ==
    /\ acc.started
    /\ LET y == AccelCleanup([acc |-> acc, fb |-> fb]) IN acc' = y.acc /\ fb' = y.fb
    /\ UNCHANGED <<patch, smc>>

-----------------------------------------------------------------------------

\* A driver comes, and goes.
Starting(f, drivers) ==
    \/ \E d \in drivers : Attach(f, d)
    \/ startQEMUDisplay(f) \/ startIONDRVFramebuffer(f) \/ startVMsvga2(f)

Stopping(f) == stopQEMUDisplay(f) \/ stopIONDRVFramebuffer(f) \/ stopVMsvga2(f)

\* The calls that publish the size of video memory.
Configuring(f) ==
    \/ enableController(f) \/ patchedEnableController(f)
    \/ patchedSetupForCurrentConfig(f) \/ originalSetupForCurrentConfig(f)

Using(f) ==
    \/ \E mode \in Modes :
         \/ setDisplayMode(f, mode)
         \/ patchedSetDisplayMode(f, mode)
         \/ patchedGetInformationForDisplayMode(f, mode)
    \/ TakeRange(f)
    \/ GiveBackRange(f)

Accelerating == startAccel \/ setupAllocator \/ stopAccel

=============================================================================
