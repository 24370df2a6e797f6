-------------------------- MODULE CustomModeSwitch --------------------------
(***************************************************************************)
(* Setting a custom resolution (kexts/VMsvga2/FB/VMsvga2.cpp).  A user     *)
(* client calls CustomMode, which changes the size of mode 1, shrinks the  *)
(* mode list to it, tells the WindowServer that the display changed and    *)
(* waits for it to set the mode.  Up to Darwin 12 the full list comes back *)
(* two seconds later, from a timer (RestoreAllModes); from Darwin 13 on,   *)
(* as soon as the WindowServer is done.                                    *)
(*                                                                         *)
(* No lock protects any of it.  A size is one number: CustomMode clamps    *)
(* width and height alike.  The WindowServer and IOFramebuffer above the   *)
(* driver are the environment: they answer a connect-changed interrupt by  *)
(* reading the mode list, setting a mode of it and releasing the display.  *)
(***************************************************************************)
EXTENDS Integers, Sequences

CONSTANTS
  Clients,        \* callers of CustomMode
  MaxCalls,       \* bound: calls they make, from Darwin 13 on
  LegacyCalls,    \* bound: calls they make up to Darwin 12, where a second call
                  \* can meet RestoreAllModes and wait for ever
  Requests,       \* sizes they ask for
  MinSize, MaxSize,
  ModeSize,       \* sizes of modes 2..NumModes (modeList)
  DefaultMode,    \* the mode with kDisplayModeDefaultFlag
  BootSizes,      \* sizes the hardware may have when the driver starts
  WindowServer    \* a WindowServer has registered for the interrupt

CUSTOM_MODE_ID == 1
NumModes == Len(ModeSize) + 1
Modes == 1..NumModes
Sizes == MinSize..MaxSize

ASSUME SizeAssumption ==
  /\ MinSize \in Nat /\ MaxSize \in Nat /\ MinSize <= MaxSize
  /\ Requests \subseteq Nat /\ MaxCalls \in Nat /\ LegacyCalls \in Nat
  /\ ModeSize \in Seq(Sizes) /\ ModeSize # <<>>
  /\ DefaultMode \in 2..NumModes /\ BootSizes \subseteq Nat

ASSUME FlagAssumption == WindowServer \in BOOLEAN

VARIABLES
  darwin13,               \* version_major >= 13; never changes
  m_custom_switch,        \* 0: full list; 1: only mode 1, not set yet; 2: set
  customMode,             \* the size of mode 1
  m_display_mode,
  m_custom_mode_switched, \* the restored list has not been taken up yet
  m_modes,                \* the full list
  hw,                     \* the size set in the hardware
  restore_pending,        \* m_restore_call is armed
  restore,                \* where RestoreAllModes is
  client, want, calls,    \* where each caller is, its size; calls so far
  asleep,                 \* callers that wait on &m_custom_switch
  interrupt,              \* a connect-changed interrupt the WindowServer has to see
  server, picked          \* where the WindowServer is, the mode it picked

switch == <<darwin13, m_custom_switch, asleep>>
display == <<m_display_mode, m_custom_mode_switched, hw>>
callers == <<client, want, calls>>
restoring == <<restore_pending, restore, m_modes>>
serving == <<server, picked>>
vars == <<switch, customMode, display, restoring, callers, interrupt, serving>>

SizeOf(m) == IF m = CUSTOM_MODE_ID THEN customMode ELSE ModeSize[m - 1]

Clamp(w) == IF w < MinSize THEN MinSize ELSE IF w > MaxSize THEN MaxSize ELSE w

(* The first mode of that size, or the default of the table: the mode that *)
(* is reported then has not the size of the hardware.                      *)
TryDetectCurrentDisplayMode(w, m) ==
  LET Fits(n) == ModeSize[n - 1] = w
  IN  \/ Fits(m) /\ \A n \in 2..(m - 1) : ~Fits(n)
      \/ m = DefaultMode /\ \A n \in 2..NumModes : ~Fits(n)

Init ==
  /\ darwin13 \in BOOLEAN
  /\ m_custom_switch = 0 /\ asleep = {}
  /\ customMode = ModeSize[1]
  /\ hw \in BootSizes
  /\ m_display_mode \in 2..NumModes
  /\ TryDetectCurrentDisplayMode(hw, m_display_mode)
  /\ m_custom_mode_switched = FALSE
  /\ m_modes = [i \in Modes |-> i]
  /\ restore_pending = FALSE /\ restore = "idle"
  /\ client = [c \in Clients |-> "idle"]
  /\ want = [c \in Clients |-> MinSize]
  /\ calls = 0
  /\ interrupt = FALSE
  /\ server = "idle" /\ picked = CUSTOM_MODE_ID

(* EmitConnectChangedEvent *)
Emit == interrupt' = (interrupt \/ WindowServer)

(* CustomSwitchStepSet: the value first, then the wake-up. *)
SetSwitch(value) == m_custom_switch' = value /\ UNCHANGED <<darwin13, asleep>>
Wakeup == asleep' = {} /\ UNCHANGED <<darwin13, m_custom_switch>>

-----------------------------------------------------------------------------
(* CustomMode *)

ClientAt(c, from, to) ==
  /\ client[c] = from
  /\ client' = [client EXCEPT ![c] = to]

(* A size that is reported already, or no size at all, is answered at once. *)
CustomMode(c) ==
  /\ calls < IF darwin13 THEN MaxCalls ELSE LegacyCalls
  /\ calls' = calls + 1
  /\ \E w \in Requests :
       /\ Clamp(w) # SizeOf(m_display_mode)
       /\ want' = [want EXCEPT ![c] = Clamp(w)]
  /\ ClientAt(c, "idle", "size")
  /\ UNCHANGED <<switch, customMode, display, restoring, interrupt, serving>>

ChangeSize(c) ==
  /\ customMode' = want[c]
  /\ ClientAt(c, "size", "set")
  /\ UNCHANGED <<switch, display, restoring, want, calls, interrupt, serving>>

ShrinkList(c) ==
  /\ SetSwitch(1)
  /\ ClientAt(c, "set", "wake")
  /\ UNCHANGED <<customMode, display, restoring, want, calls, interrupt, serving>>

WakeOthers(c) ==
  /\ Wakeup
  /\ ClientAt(c, "wake", "emit")
  /\ UNCHANGED <<customMode, display, restoring, want, calls, interrupt, serving>>

TellServer(c) ==
  /\ Emit
  /\ ClientAt(c, "emit", "wait")
  /\ UNCHANGED <<switch, customMode, display, restoring, want, calls, serving>>

(* CustomSwitchStepWait: look, say that one is about to sleep, look again  *)
(* and wake everybody if the value has come meanwhile, sleep.              *)
Awaited == IF darwin13 THEN 0 ELSE 2

WaitOver(c) ==
  /\ m_custom_switch = Awaited
  /\ ClientAt(c, "wait", IF darwin13 THEN "idle" ELSE "arm")
  /\ UNCHANGED <<switch, customMode, display, restoring, want, calls, interrupt, serving>>

Look(c) ==
  /\ m_custom_switch # Awaited
  /\ ClientAt(c, "wait", "assert")
  /\ UNCHANGED <<switch, customMode, display, restoring, want, calls, interrupt, serving>>

AssertWait(c) ==
  /\ asleep' = asleep \cup {c}
  /\ ClientAt(c, "assert", "recheck")
  /\ UNCHANGED <<darwin13, m_custom_switch, customMode, display, restoring, want, calls, interrupt, serving>>

\* Faulty variant: the value is not looked at again before sleeping.
RecheckMissing(c) ==
  /\ ClientAt(c, "recheck", "block")
  /\ UNCHANGED <<switch, customMode, display, restoring, want, calls, interrupt, serving>>

(* The wake-up is a step of its own: the value may change before it. *)
Recheck(c) ==
  /\ ClientAt(c, "recheck", IF m_custom_switch = Awaited THEN "rouse" ELSE "block")
  /\ UNCHANGED <<switch, customMode, display, restoring, want, calls, interrupt, serving>>

Rouse(c) ==
  /\ Wakeup
  /\ ClientAt(c, "rouse", "block")
  /\ UNCHANGED <<customMode, display, restoring, want, calls, interrupt, serving>>

Unblock(c) ==
  /\ c \notin asleep
  /\ ClientAt(c, "block", "wait")
  /\ UNCHANGED <<switch, customMode, display, restoring, want, calls, interrupt, serving>>

ArmRestore(c) ==
  /\ restore_pending' = TRUE
  /\ ClientAt(c, "arm", "idle")
  /\ UNCHANGED <<switch, customMode, display, restore, m_modes, want, calls, interrupt, serving>>

Calling(c) ==
  \/ ChangeSize(c) \/ ShrinkList(c) \/ WakeOthers(c) \/ TellServer(c) \/ ArmRestore(c)
  \/ WaitOver(c) \/ Look(c) \/ AssertWait(c) \/ Recheck(c) \/ Rouse(c) \/ Unblock(c)

-----------------------------------------------------------------------------
(* RestoreAllModes *)

RestoreAt(from, to) ==
  /\ restore = from
  /\ restore' = to

RestoreBegin ==
  /\ restore_pending /\ restore_pending' = FALSE
  /\ RestoreAt("idle", IF m_custom_switch = 2 THEN "swap" ELSE "idle")
  /\ UNCHANGED <<switch, customMode, display, m_modes, callers, interrupt, serving>>

\* Faulty variant: the mode is copied to the front, not swapped.
RestoreSwapCopies ==
  /\ LET Other == {i \in Modes : SizeOf(m_modes[i]) # customMode}
     IN  IF Other = {}
           THEN RestoreAt("swap", "idle") /\ UNCHANGED <<m_modes, m_custom_mode_switched>>
           ELSE \E i \in Other :
                  /\ \A j \in Other : i <= j
                  /\ m_modes' = [m_modes EXCEPT ![1] = m_modes[i]]
                  /\ m_custom_mode_switched' = TRUE
                  /\ RestoreAt("swap", "set")
  /\ UNCHANGED <<switch, customMode, m_display_mode, hw, restore_pending, callers, interrupt, serving>>

(* The first mode of another size comes to the front of the list. *)
RestoreSwap ==
  /\ LET Other == {i \in Modes : SizeOf(m_modes[i]) # customMode}
     IN  IF Other = {}
           THEN RestoreAt("swap", "idle") /\ UNCHANGED <<m_modes, m_custom_mode_switched>>
           ELSE \E i \in Other :
                  /\ \A j \in Other : i <= j
                  /\ m_modes' = [m_modes EXCEPT ![1] = m_modes[i], ![i] = m_modes[1]]
                  /\ m_custom_mode_switched' = TRUE
                  /\ RestoreAt("swap", "set")
  /\ UNCHANGED <<switch, customMode, m_display_mode, hw, restore_pending, callers, interrupt, serving>>

RestoreSet ==
  /\ SetSwitch(0)
  /\ RestoreAt("set", "wake")
  /\ UNCHANGED <<customMode, display, restore_pending, m_modes, callers, interrupt, serving>>

RestoreWake ==
  /\ Wakeup
  /\ RestoreAt("wake", "emit")
  /\ UNCHANGED <<customMode, display, restore_pending, m_modes, callers, interrupt, serving>>

RestoreTell ==
  /\ Emit
  /\ RestoreAt("emit", "idle")
  /\ UNCHANGED <<switch, customMode, display, restore_pending, m_modes, callers, serving>>

RestoreAllModes == RestoreBegin \/ RestoreSwap \/ RestoreSet \/ RestoreWake \/ RestoreTell

-----------------------------------------------------------------------------
(* The WindowServer, and what its calls do in the driver. *)

ServerAt(from, to) ==
  /\ server = from
  /\ server' = to

(* getDisplayModeCount, getDisplayModes *)
Offered == IF m_custom_switch # 0 THEN {CUSTOM_MODE_ID} ELSE {m_modes[i] : i \in Modes}

ServerReadModes ==
  /\ interrupt /\ interrupt' = FALSE
  /\ picked' \in Offered
  /\ ServerAt("idle", "setmode")
  /\ UNCHANGED <<switch, customMode, display, restoring, callers>>

(* setDisplayMode while the restored list has not been taken up: the       *)
(* hardware keeps the custom size.                                         *)
SetModeSwitched ==
  /\ m_custom_mode_switched
  /\ ServerAt("setmode", "release")
  /\ m_custom_mode_switched' = (SizeOf(picked) # customMode)
  /\ m_display_mode' = picked
  /\ UNCHANGED <<switch, customMode, hw, restoring, callers, interrupt, picked>>

\* Faulty variant: the mode that is set already is not set again.
SetModeHardwareOnce ==
  /\ ~m_custom_mode_switched
  /\ ServerAt("setmode", "hardware")
  /\ hw' = IF m_display_mode = picked THEN hw ELSE SizeOf(picked)
  /\ UNCHANGED <<switch, customMode, m_display_mode, m_custom_mode_switched, restoring, callers,
                 interrupt, picked>>

SetModeHardware ==
  /\ ~m_custom_mode_switched
  /\ ServerAt("setmode", "hardware")
  /\ hw' = SizeOf(picked)
  /\ UNCHANGED <<switch, customMode, m_display_mode, m_custom_mode_switched, restoring, callers,
                 interrupt, picked>>

SetModeDone ==
  /\ ServerAt("hardware", "release")
  /\ m_display_mode' = picked
  /\ UNCHANGED <<switch, customMode, m_custom_mode_switched, hw, restoring, callers, interrupt, picked>>

(* setAttribute(kIOCapturedAttribute, 0) *)
setAttribute ==
  /\ IF m_custom_switch = 1 /\ m_display_mode = CUSTOM_MODE_ID
       THEN SetSwitch(IF darwin13 THEN 0 ELSE 2) /\ ServerAt("release", "wake")
       ELSE UNCHANGED switch /\ ServerAt("release", "idle")
  /\ UNCHANGED <<customMode, display, restoring, callers, interrupt, picked>>

ServerWake ==
  /\ Wakeup
  /\ ServerAt("wake", "idle")
  /\ UNCHANGED <<customMode, display, restoring, callers, interrupt, picked>>

Serving ==
  \/ ServerReadModes \/ SetModeSwitched \/ SetModeHardware \/ SetModeDone
  \/ setAttribute \/ ServerWake

-----------------------------------------------------------------------------
Next ==
  \/ \E c \in Clients : CustomMode(c) \/ Calling(c)
  \/ RestoreAllModes
  \/ Serving

Spec == Init /\ [][Next]_vars

(* Callers, the timer and the WindowServer keep going once they have       *)
(* something to do; nobody has to call.                                    *)
Fairness ==
  /\ \A c \in Clients : WF_vars(Calling(c))
  /\ WF_vars(RestoreAllModes)
  /\ WF_vars(Serving)

FairSpec == Spec /\ Fairness

-----------------------------------------------------------------------------
(* Properties *)

(* Every variable has its type. *)
TypeOK ==
  /\ darwin13 \in BOOLEAN
  /\ m_custom_switch \in 0..2 /\ asleep \subseteq Clients
  /\ customMode \in Sizes /\ hw \in Sizes \cup BootSizes
  /\ m_display_mode \in Modes /\ m_custom_mode_switched \in BOOLEAN
  /\ m_modes \in [Modes -> Modes]
  /\ restore_pending \in BOOLEAN /\ restore \in {"idle", "swap", "set", "wake", "emit"}
  /\ client \in [Clients -> {"idle", "size", "set", "wake", "emit", "wait", "assert", "recheck", "rouse", "block",
                             "arm"}]
  /\ want \in [Clients -> Sizes] /\ calls \in Nat
  /\ interrupt \in BOOLEAN
  /\ server \in {"idle", "setmode", "hardware", "release", "wake"} /\ picked \in Modes

(* Nobody has anything left to do; a caller may still sleep. *)
Quiet ==
  /\ ~interrupt /\ server = "idle"
  /\ restore = "idle" /\ ~restore_pending
  /\ \A c \in Clients : client[c] = "idle" \/ (client[c] = "block" /\ c \in asleep)

(* Once a caller has asked for a size and the WindowServer has seen every  *)
(* change, the hardware shows the size of the mode the driver reports      *)
(* (getCurrentDisplayMode), although CustomMode changes that size behind   *)
(* setDisplayMode's back, and although the two may differ at the start     *)
(* (TryDetectCurrentDisplayMode).                                          *)
HardwareFollows ==
  calls > 0 /\ Quiet /\ ~m_custom_mode_switched => hw = SizeOf(m_display_mode)

(* ... and all the modes are offered again (getDisplayModes), although     *)
(* RestoreAllModes reorders the list.                                      *)
ListRestored == Quiet => m_custom_switch = 0 /\ Offered = Modes

(* CustomMode returns: its wait for the WindowServer ends, and no wake-up  *)
(* is lost between its look at the switch and its sleep.                   *)
CustomModeReturns ==
  \A c \in Clients : client[c] = "wait" ~> client[c] = "idle"
=============================================================================
