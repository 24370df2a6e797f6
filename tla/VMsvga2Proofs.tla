--------------------------- MODULE VMsvga2Proofs ---------------------------
(***************************************************************************)
(* The two state machines of the framebuffer driver VMsvga2.               *)
(*                                                                         *)
(* A custom resolution, for any number of callers that ask for any number  *)
(* of sizes at any time: the full mode list comes back, and the hardware   *)
(* shows the mode that is reported (CustomModeSwitch).                     *)
(*                                                                         *)
(* The refresh of the screen (DisplayRefresh): if calls of useAccelUpdates *)
(* do not overlap, which nothing in the driver enforces, no interleaving   *)
(* of mode sets, regime switches and timer actions loses the refresh       *)
(* timer, for every set of tasks and of threads that run timer actions.    *)
(***************************************************************************)
EXTENDS CustomModeSwitch, DisplayRefresh, TLAPS

(* Where a caller is after it has cut the list, until its wait ends. *)
AfterShrink == {"wake", "emit", "wait", "assert", "recheck", "rouse", "block"}

AllListed == \A m \in Modes : \E i \in Modes : m_modes[i] = m

(* From Darwin 13 on nothing is left to a timer. *)
NoTimer ==
  darwin13 => /\ m_custom_switch # 2 /\ restore = "idle" /\ ~restore_pending
              /\ \A c \in Clients : client[c] # "arm"

(* Whoever cuts the list tells the WindowServer, which then sets mode 1. *)
CutIsTold ==
  m_custom_switch = 1 =>
    \/ \E c \in Clients : client[c] \in {"wake", "emit"}
    \/ interrupt
    \/ server \in {"setmode", "hardware"} /\ picked = CUSTOM_MODE_ID
    \/ server = "release" /\ m_display_mode = CUSTOM_MODE_ID

(* Up to Darwin 12 a caller waits for that, and arms the timer. *)
CutIsAwaited ==
  m_custom_switch = 1 /\ ~darwin13 => \E c \in Clients : client[c] \in AfterShrink

SetIsRestored ==
  m_custom_switch = 2 =>
    \/ \E c \in Clients : client[c] \in AfterShrink \cup {"arm"}
    \/ restore_pending
    \/ restore \in {"swap", "set"}

(* A sleeper has a wake-up under way. *)
SetIsHeard ==
  m_custom_switch = 2 => \A c \in Clients : client[c] = "block" /\ c \in asleep =>
    \/ server = "wake" \/ restore = "wake"
    \/ \E d \in Clients : client[d] \in {"wake", "rouse"}

ListInv ==
  /\ TypeOK /\ AllListed /\ NoTimer
  /\ CutIsTold /\ CutIsAwaited /\ SetIsRestored /\ SetIsHeard

-----------------------------------------------------------------------------
LEMMA Lists ==
  /\ NumModes \in Nat /\ NumModes >= 2 /\ Modes = 1..NumModes
  /\ CUSTOM_MODE_ID \in Modes /\ ModeSize[1] \in Sizes
  /\ \A m \in Modes : m # CUSTOM_MODE_ID => ModeSize[m - 1] \in Sizes
<1>1. Len(ModeSize) \in Nat \ {0} /\ ModeSize \in [1..Len(ModeSize) -> Sizes]
  BY SizeAssumption
<1> QED
  BY <1>1 DEF NumModes, Modes, CUSTOM_MODE_ID

LEMMA Clamped == ASSUME NEW w \in Nat PROVE Clamp(w) \in Sizes
BY SizeAssumption DEF Clamp, Sizes

LEMMA SizeType == ASSUME customMode \in Sizes, NEW m \in Modes PROVE SizeOf(m) \in Sizes
BY Lists DEF SizeOf

(* The list stays a list of all the modes. *)
LEMMA SwapKeeps ==
  ASSUME m_modes \in [Modes -> Modes], AllListed, RestoreSwap
  PROVE  m_modes' \in [Modes -> Modes] /\ AllListed'
<1>1. CASE m_modes' = m_modes
  BY <1>1 DEF AllListed
<1>2. ASSUME NEW i \in Modes, m_modes' = [m_modes EXCEPT ![1] = m_modes[i], ![i] = m_modes[1]]
      PROVE  m_modes' \in [Modes -> Modes] /\ AllListed'
  <2>1. 1 \in Modes
    BY Lists DEF CUSTOM_MODE_ID
  <2>2. m_modes' \in [Modes -> Modes]
    BY <1>2, <2>1
  <2>3. /\ m_modes'[i] = m_modes[1] /\ m_modes'[1] = m_modes[i]
        /\ \A j \in Modes : j # i /\ j # 1 => m_modes'[j] = m_modes[j]
    BY <1>2, <2>1
  <2> QED
    BY <2>1, <2>2, <2>3 DEF AllListed
<1> QED
  BY <1>1, <1>2 DEF RestoreSwap

LEMMA InitList == Init => ListInv
<1> SUFFICES ASSUME Init PROVE ListInv
  OBVIOUS
<1> USE Lists DEF Init
<1>1. hw \in Sizes \cup BootSizes /\ m_display_mode \in Modes
  BY DEF CUSTOM_MODE_ID
<1>2. MinSize \in Sizes
  BY SizeAssumption DEF Sizes
<1>3. m_modes \in [Modes -> Modes] /\ \A i \in Modes : m_modes[i] = i
  OBVIOUS
<1>4. customMode \in Sizes /\ want \in [Clients -> Sizes] /\ CUSTOM_MODE_ID \in Modes
  BY <1>2
<1>5. /\ darwin13 \in BOOLEAN /\ m_custom_mode_switched \in BOOLEAN
      /\ restore_pending \in BOOLEAN /\ interrupt \in BOOLEAN
  OBVIOUS
<1>6. /\ m_custom_switch \in 0..2 /\ asleep \subseteq Clients /\ restore = "idle"
      /\ client = [c \in Clients |-> "idle"] /\ calls \in Nat
      /\ server = "idle" /\ picked = CUSTOM_MODE_ID
  OBVIOUS
<1>7. TypeOK
  <2> HIDE Lists DEF Init
  <2> QED
    BY <1>1, <1>3, <1>4, <1>5, <1>6 DEF TypeOK
<1> QED
  BY <1>3, <1>7 DEF ListInv, AllListed, NoTimer, CutIsTold, CutIsAwaited, SetIsRestored, SetIsHeard

(* Types are kept. *)
LEMMA NextType == TypeOK /\ AllListed /\ [Next]_vars => TypeOK' /\ AllListed'
<1> SUFFICES ASSUME TypeOK, AllListed, [Next]_vars PROVE TypeOK' /\ AllListed'
  OBVIOUS
<1> USE DEF TypeOK
<1>a. m_modes' = m_modes => AllListed'
  BY DEF AllListed
<1>1. ASSUME NEW c \in Clients, CustomMode(c) PROVE TypeOK' /\ AllListed'
  <2>1. want' \in [Clients -> Sizes]
    BY <1>1, Clamped, SizeAssumption DEF CustomMode
  <2>2. calls' \in Nat
    BY <1>1 DEF CustomMode
  <2> QED
    BY <1>1, <1>a, <2>1, <2>2
       DEF CustomMode, ClientAt, switch, display, restoring, serving
<1>2. ASSUME NEW c \in Clients, Calling(c) PROVE TypeOK' /\ AllListed'
  <2>1. CASE ChangeSize(c)
    BY <2>1, <1>a DEF ClientAt, ChangeSize, switch, display, restoring, serving
  <2>2. CASE ShrinkList(c)
    BY <2>2, <1>a DEF ClientAt, ShrinkList, SetSwitch, display, restoring, serving
  <2>3. CASE WakeOthers(c)
    BY <2>3, <1>a DEF ClientAt, WakeOthers, Wakeup, display, restoring, serving
  <2>4. CASE TellServer(c)
    BY <2>4, <1>a DEF ClientAt, TellServer, Emit, switch, display, restoring, serving
  <2>5. CASE ArmRestore(c)
    BY <2>5, <1>a DEF ClientAt, ArmRestore, switch, display, serving
  <2>6. CASE WaitOver(c)
    BY <2>6, <1>a DEF ClientAt, WaitOver, switch, display, restoring, serving
  <2>7. CASE Look(c)
    BY <2>7, <1>a DEF ClientAt, Look, switch, display, restoring, serving
  <2>8. CASE AssertWait(c)
    BY <2>8, <1>a DEF ClientAt, AssertWait, display, restoring, serving
  <2>9. CASE Recheck(c)
    BY <2>9, <1>a DEF ClientAt, Recheck, switch, display, restoring, serving
  <2>10. CASE Rouse(c)
    BY <2>10, <1>a DEF ClientAt, Rouse, Wakeup, display, restoring, serving
  <2>11. CASE Unblock(c)
    BY <2>11, <1>a DEF ClientAt, Unblock, switch, display, restoring, serving
  <2> QED
    BY <1>2, <2>1, <2>2, <2>3, <2>4, <2>5, <2>6, <2>7, <2>8, <2>9, <2>10, <2>11 DEF Calling
<1>3. ASSUME RestoreSwap PROVE TypeOK' /\ AllListed'
  <2>1. m_custom_mode_switched' \in BOOLEAN /\ restore' \in {"idle", "set"}
    BY <1>3 DEF RestoreSwap, RestoreAt
  <2>2. UNCHANGED <<switch, customMode, m_display_mode, hw, restore_pending, callers, interrupt,
                    serving>>
    BY <1>3 DEF RestoreSwap
  <2> QED
    BY <1>3, SwapKeeps, <2>1, <2>2 DEF switch, callers, serving
<1>4. ASSUME RestoreBegin \/ RestoreSet \/ RestoreWake \/ RestoreTell PROVE TypeOK' /\ AllListed'
  <2>1. CASE RestoreBegin
    BY <2>1, <1>a DEF RestoreAt, RestoreBegin, switch, display, callers, serving
  <2>2. CASE RestoreSet
    BY <2>2, <1>a DEF RestoreAt, RestoreSet, SetSwitch, display, callers, serving
  <2>3. CASE RestoreWake
    BY <2>3, <1>a DEF RestoreAt, RestoreWake, Wakeup, display, callers, serving
  <2>4. CASE RestoreTell
    BY <2>4, <1>a DEF RestoreAt, RestoreTell, Emit, switch, display, callers, serving
  <2> QED
    BY <1>4, <2>1, <2>2, <2>3, <2>4
<1>5. ASSUME Serving PROVE TypeOK' /\ AllListed'
  <2>a. Offered \subseteq Modes
    BY Lists DEF Offered
  <2>b. SizeOf(picked) \in Sizes
    BY SizeType
  <2>1. CASE ServerReadModes
    BY <2>1, <1>a, <2>a, <2>b DEF ServerAt, ServerReadModes, switch, display, restoring, callers
  <2>2. CASE SetModeSwitched
    BY <2>2, <1>a, <2>a, <2>b DEF ServerAt, SetModeSwitched, switch, restoring, callers
  <2>3. CASE SetModeHardware
    BY <2>3, <1>a, <2>a, <2>b DEF ServerAt, SetModeHardware, switch, restoring, callers
  <2>4. CASE SetModeDone
    BY <2>4, <1>a, <2>a, <2>b DEF ServerAt, SetModeDone, switch, restoring, callers
  <2>5. CASE setAttribute
    BY <2>5, <1>a, <2>a, <2>b DEF ServerAt, setAttribute, SetSwitch, switch, display, restoring, callers
  <2>6. CASE ServerWake
    BY <2>6, <1>a, <2>a, <2>b DEF ServerAt, ServerWake, Wakeup, display, restoring, callers
  <2> QED
    BY <1>5, <2>1, <2>2, <2>3, <2>4, <2>5, <2>6 DEF Serving
<1>6. ASSUME UNCHANGED vars PROVE TypeOK' /\ AllListed'
  BY <1>6, <1>a DEF vars, switch, display, restoring, callers, serving
<1> QED
  BY <1>1, <1>2, <1>3, <1>4, <1>5, <1>6 DEF Next, RestoreAllModes

(* modeList holds more than one size. *)
TwoSizes == \E i, j \in 1..Len(ModeSize) : ModeSize[i] # ModeSize[j]

LEMMA OtherSize ==
  ASSUME TypeOK, AllListed, TwoSizes
  PROVE  \E i \in Modes : SizeOf(m_modes[i]) # customMode
<1>1. PICK k \in 1..Len(ModeSize) : ModeSize[k] # customMode
  BY DEF TwoSizes
<1>2. /\ k + 1 \in Modes /\ k + 1 # CUSTOM_MODE_ID
      /\ SizeOf(k + 1) = ModeSize[k]
  BY Lists DEF NumModes, Modes, CUSTOM_MODE_ID, SizeOf
<1>3. PICK i \in Modes : m_modes[i] = k + 1
  BY <1>2 DEF AllListed
<1> QED
  BY <1>1, <1>2, <1>3

LEMMA NextNoTimer ==
  ASSUME TypeOK, NoTimer, [Next]_vars
  PROVE  NoTimer'
<1> USE DEF TypeOK, NoTimer
<1>1. ASSUME NEW c \in Clients, CustomMode(c) PROVE NoTimer'
  BY <1>1 DEF CustomMode, ClientAt, switch, display, restoring, serving
<1>2. ASSUME NEW c \in Clients, Calling(c) PROVE NoTimer'
  <2>1. CASE ChangeSize(c)
    BY <2>1 DEF ChangeSize, ClientAt, switch, display, restoring, serving
  <2>2. CASE ShrinkList(c)
    BY <2>2 DEF ShrinkList, ClientAt, SetSwitch, display, restoring, serving
  <2>3. CASE WakeOthers(c)
    BY <2>3 DEF WakeOthers, ClientAt, Wakeup, display, restoring, serving
  <2>4. CASE TellServer(c)
    BY <2>4 DEF TellServer, ClientAt, Emit, switch, display, restoring, serving
  <2>5. CASE ArmRestore(c)
    BY <2>5 DEF ArmRestore, ClientAt, switch, display, serving
  <2>6. CASE WaitOver(c)
    BY <2>6 DEF WaitOver, ClientAt, Awaited, switch, display, restoring, serving
  <2>7. CASE Look(c)
    BY <2>7 DEF Look, ClientAt, switch, display, restoring, serving
  <2>8. CASE AssertWait(c)
    BY <2>8 DEF AssertWait, ClientAt, display, restoring, serving
  <2>9. CASE Recheck(c)
    BY <2>9 DEF Recheck, ClientAt, Awaited, switch, display, restoring, serving
  <2>10. CASE Rouse(c)
    BY <2>10 DEF Rouse, ClientAt, Wakeup, display, restoring, serving
  <2>11. CASE Unblock(c)
    BY <2>11 DEF Unblock, ClientAt, switch, display, restoring, serving
  <2> QED
    BY <1>2, <2>1, <2>2, <2>3, <2>4, <2>5, <2>6, <2>7, <2>8, <2>9, <2>10, <2>11 DEF Calling
<1>3. ASSUME RestoreAllModes PROVE NoTimer'
  <2>1. CASE RestoreBegin
    BY <2>1 DEF RestoreBegin, RestoreAt, switch, display, callers, serving
  <2>2. CASE RestoreSwap
    BY <2>2 DEF RestoreSwap, RestoreAt, switch, callers, serving
  <2>3. CASE RestoreSet
    BY <2>3 DEF RestoreSet, RestoreAt, SetSwitch, display, callers, serving
  <2>4. CASE RestoreWake
    BY <2>4 DEF RestoreWake, RestoreAt, Wakeup, display, callers, serving
  <2>5. CASE RestoreTell
    BY <2>5 DEF RestoreTell, RestoreAt, Emit, switch, display, callers, serving
  <2> QED
    BY <1>3, <2>1, <2>2, <2>3, <2>4, <2>5 DEF RestoreAllModes
<1>4. ASSUME Serving PROVE NoTimer'
  <2>1. CASE ServerReadModes
    BY <2>1 DEF ServerReadModes, ServerAt, Offered, switch, display, restoring, callers
  <2>2. CASE SetModeSwitched
    BY <2>2 DEF SetModeSwitched, ServerAt, switch, restoring, callers
  <2>3. CASE SetModeHardware
    BY <2>3 DEF SetModeHardware, ServerAt, switch, restoring, callers
  <2>4. CASE SetModeDone
    BY <2>4 DEF SetModeDone, ServerAt, switch, restoring, callers
  <2>5. CASE setAttribute
    <3>1. UNCHANGED <<restore, restore_pending, client>> /\ (darwin13' <=> darwin13)
      BY <2>5 DEF setAttribute, SetSwitch, switch, restoring, callers
    <3>2. m_custom_switch' \in {m_custom_switch, IF darwin13 THEN 0 ELSE 2}
      BY <2>5 DEF setAttribute, SetSwitch, switch
    <3> QED
      BY <3>1, <3>2
  <2>6. CASE ServerWake
    BY <2>6 DEF ServerWake, ServerAt, Wakeup, display, restoring, callers
  <2> QED
    BY <1>4, <2>1, <2>2, <2>3, <2>4, <2>5, <2>6 DEF Serving
<1>5. ASSUME UNCHANGED vars PROVE NoTimer'
  BY <1>5 DEF vars, switch, display, restoring, callers, serving
<1> QED
  BY <1>1, <1>2, <1>3, <1>4, <1>5 DEF Next

LEMMA NextTold ==
  ASSUME WindowServer = TRUE, TypeOK, CutIsTold, [Next]_vars
  PROVE  CutIsTold'
<1> USE DEF TypeOK, CutIsTold
<1>1. ASSUME NEW c \in Clients, CustomMode(c) PROVE CutIsTold'
  BY <1>1 DEF CustomMode, ClientAt, switch, display, restoring, serving
<1>2. ASSUME NEW c \in Clients, Calling(c) PROVE CutIsTold'
  <2>1. CASE ChangeSize(c)
    BY <2>1 DEF ChangeSize, ClientAt, switch, display, restoring, serving
  <2>2. CASE ShrinkList(c)
    BY <2>2 DEF ShrinkList, ClientAt, SetSwitch, display, restoring, serving
  <2>3. CASE WakeOthers(c)
    BY <2>3 DEF WakeOthers, ClientAt, Wakeup, display, restoring, serving
  <2>4. CASE TellServer(c)
    <3>1. interrupt'
      BY <2>4 DEF TellServer, Emit
    <3> QED
      BY <3>1
  <2>5. CASE ArmRestore(c)
    BY <2>5 DEF ArmRestore, ClientAt, switch, display, serving
  <2>6. CASE WaitOver(c)
    BY <2>6 DEF WaitOver, ClientAt, Awaited, switch, display, restoring, serving
  <2>7. CASE Look(c)
    BY <2>7 DEF Look, ClientAt, switch, display, restoring, serving
  <2>8. CASE AssertWait(c)
    BY <2>8 DEF AssertWait, ClientAt, display, restoring, serving
  <2>9. CASE Recheck(c)
    BY <2>9 DEF Recheck, ClientAt, Awaited, switch, display, restoring, serving
  <2>10. CASE Rouse(c)
    BY <2>10 DEF Rouse, ClientAt, Wakeup, display, restoring, serving
  <2>11. CASE Unblock(c)
    BY <2>11 DEF Unblock, ClientAt, switch, display, restoring, serving
  <2> QED
    BY <1>2, <2>1, <2>2, <2>3, <2>4, <2>5, <2>6, <2>7, <2>8, <2>9, <2>10, <2>11 DEF Calling
<1>3. ASSUME RestoreAllModes PROVE CutIsTold'
  <2>1. CASE RestoreBegin
    BY <2>1 DEF RestoreBegin, RestoreAt, switch, display, callers, serving
  <2>2. CASE RestoreSwap
    BY <2>2 DEF RestoreSwap, RestoreAt, switch, callers, serving
  <2>3. CASE RestoreSet
    BY <2>3 DEF RestoreSet, RestoreAt, SetSwitch, display, callers, serving
  <2>4. CASE RestoreWake
    BY <2>4 DEF RestoreWake, RestoreAt, Wakeup, display, callers, serving
  <2>5. CASE RestoreTell
    BY <2>5 DEF RestoreTell, RestoreAt, Emit, switch, display, callers, serving
  <2> QED
    BY <1>3, <2>1, <2>2, <2>3, <2>4, <2>5 DEF RestoreAllModes
<1>4. ASSUME Serving PROVE CutIsTold'
  <2>1. CASE ServerReadModes
    BY <2>1 DEF ServerReadModes, ServerAt, Offered, switch, display, restoring, callers
  <2>2. CASE SetModeSwitched
    BY <2>2 DEF SetModeSwitched, ServerAt, switch, restoring, callers
  <2>3. CASE SetModeHardware
    BY <2>3 DEF SetModeHardware, ServerAt, switch, restoring, callers
  <2>4. CASE SetModeDone
    BY <2>4 DEF SetModeDone, ServerAt, switch, restoring, callers
  <2>5. CASE setAttribute
    BY <2>5 DEF setAttribute, ServerAt, SetSwitch, switch, display, restoring, callers
  <2>6. CASE ServerWake
    BY <2>6 DEF ServerWake, ServerAt, Wakeup, display, restoring, callers
  <2> QED
    BY <1>4, <2>1, <2>2, <2>3, <2>4, <2>5, <2>6 DEF Serving
<1>5. ASSUME UNCHANGED vars PROVE CutIsTold'
  BY <1>5 DEF vars, switch, display, restoring, callers, serving
<1> QED
  BY <1>1, <1>2, <1>3, <1>4, <1>5 DEF Next

LEMMA NextAwaited ==
  ASSUME TypeOK, CutIsAwaited, [Next]_vars
  PROVE  CutIsAwaited'
<1> USE DEF TypeOK, CutIsAwaited, AfterShrink
<1>1. ASSUME NEW c \in Clients, CustomMode(c) PROVE CutIsAwaited'
  BY <1>1 DEF CustomMode, ClientAt, switch, display, restoring, serving
<1>2. ASSUME NEW c \in Clients, Calling(c) PROVE CutIsAwaited'
  <2>1. CASE ChangeSize(c)
    BY <2>1 DEF ChangeSize, ClientAt, switch, display, restoring, serving
  <2>2. CASE ShrinkList(c)
    BY <2>2 DEF ShrinkList, ClientAt, SetSwitch, display, restoring, serving
  <2>3. CASE WakeOthers(c)
    BY <2>3 DEF WakeOthers, ClientAt, Wakeup, display, restoring, serving
  <2>4. CASE TellServer(c)
    BY <2>4 DEF TellServer, ClientAt, Emit, switch, display, restoring, serving
  <2>5. CASE ArmRestore(c)
    BY <2>5 DEF ArmRestore, ClientAt, switch, display, serving
  <2>6. CASE WaitOver(c)
    BY <2>6 DEF WaitOver, ClientAt, Awaited, switch, display, restoring, serving
  <2>7. CASE Look(c)
    BY <2>7 DEF Look, ClientAt, switch, display, restoring, serving
  <2>8. CASE AssertWait(c)
    BY <2>8 DEF AssertWait, ClientAt, display, restoring, serving
  <2>9. CASE Recheck(c)
    BY <2>9 DEF Recheck, ClientAt, Awaited, switch, display, restoring, serving
  <2>10. CASE Rouse(c)
    BY <2>10 DEF Rouse, ClientAt, Wakeup, display, restoring, serving
  <2>11. CASE Unblock(c)
    BY <2>11 DEF Unblock, ClientAt, switch, display, restoring, serving
  <2> QED
    BY <1>2, <2>1, <2>2, <2>3, <2>4, <2>5, <2>6, <2>7, <2>8, <2>9, <2>10, <2>11 DEF Calling
<1>3. ASSUME RestoreAllModes PROVE CutIsAwaited'
  <2>1. CASE RestoreBegin
    BY <2>1 DEF RestoreBegin, RestoreAt, switch, display, callers, serving
  <2>2. CASE RestoreSwap
    BY <2>2 DEF RestoreSwap, RestoreAt, switch, callers, serving
  <2>3. CASE RestoreSet
    BY <2>3 DEF RestoreSet, RestoreAt, SetSwitch, display, callers, serving
  <2>4. CASE RestoreWake
    BY <2>4 DEF RestoreWake, RestoreAt, Wakeup, display, callers, serving
  <2>5. CASE RestoreTell
    BY <2>5 DEF RestoreTell, RestoreAt, Emit, switch, display, callers, serving
  <2> QED
    BY <1>3, <2>1, <2>2, <2>3, <2>4, <2>5 DEF RestoreAllModes
<1>4. ASSUME Serving PROVE CutIsAwaited'
  <2>1. CASE ServerReadModes
    BY <2>1 DEF ServerReadModes, ServerAt, Offered, switch, display, restoring, callers
  <2>2. CASE SetModeSwitched
    BY <2>2 DEF SetModeSwitched, ServerAt, switch, restoring, callers
  <2>3. CASE SetModeHardware
    BY <2>3 DEF SetModeHardware, ServerAt, switch, restoring, callers
  <2>4. CASE SetModeDone
    BY <2>4 DEF SetModeDone, ServerAt, switch, restoring, callers
  <2>5. CASE setAttribute
    BY <2>5 DEF setAttribute, ServerAt, SetSwitch, switch, display, restoring, callers
  <2>6. CASE ServerWake
    BY <2>6 DEF ServerWake, ServerAt, Wakeup, display, restoring, callers
  <2> QED
    BY <1>4, <2>1, <2>2, <2>3, <2>4, <2>5, <2>6 DEF Serving
<1>5. ASSUME UNCHANGED vars PROVE CutIsAwaited'
  BY <1>5 DEF vars, switch, display, restoring, callers, serving
<1> QED
  BY <1>1, <1>2, <1>3, <1>4, <1>5 DEF Next

LEMMA NextRestored ==
  ASSUME TwoSizes, TypeOK, AllListed, NoTimer, CutIsAwaited, SetIsRestored, [Next]_vars
  PROVE  SetIsRestored'
<1> USE DEF TypeOK, SetIsRestored, NoTimer, CutIsAwaited, AfterShrink
<1>1. ASSUME NEW c \in Clients, CustomMode(c) PROVE SetIsRestored'
  BY <1>1 DEF CustomMode, ClientAt, switch, display, restoring, serving
<1>2. ASSUME NEW c \in Clients, Calling(c) PROVE SetIsRestored'
  <2>1. CASE ChangeSize(c)
    BY <2>1 DEF ChangeSize, ClientAt, switch, display, restoring, serving
  <2>2. CASE ShrinkList(c)
    BY <2>2 DEF ShrinkList, ClientAt, SetSwitch, display, restoring, serving
  <2>3. CASE WakeOthers(c)
    BY <2>3 DEF WakeOthers, ClientAt, Wakeup, display, restoring, serving
  <2>4. CASE TellServer(c)
    BY <2>4 DEF TellServer, ClientAt, Emit, switch, display, restoring, serving
  <2>5. CASE ArmRestore(c)
    BY <2>5 DEF ArmRestore, ClientAt, switch, display, serving
  <2>6. CASE WaitOver(c)
    BY <2>6 DEF WaitOver, ClientAt, Awaited, switch, display, restoring, serving
  <2>7. CASE Look(c)
    BY <2>7 DEF Look, ClientAt, switch, display, restoring, serving
  <2>8. CASE AssertWait(c)
    BY <2>8 DEF AssertWait, ClientAt, display, restoring, serving
  <2>9. CASE Recheck(c)
    BY <2>9 DEF Recheck, ClientAt, Awaited, switch, display, restoring, serving
  <2>10. CASE Rouse(c)
    BY <2>10 DEF Rouse, ClientAt, Wakeup, display, restoring, serving
  <2>11. CASE Unblock(c)
    BY <2>11 DEF Unblock, ClientAt, switch, display, restoring, serving
  <2> QED
    BY <1>2, <2>1, <2>2, <2>3, <2>4, <2>5, <2>6, <2>7, <2>8, <2>9, <2>10, <2>11 DEF Calling
<1>3. ASSUME RestoreAllModes PROVE SetIsRestored'
  <2>1. CASE RestoreBegin
    BY <2>1 DEF RestoreBegin, RestoreAt, switch, display, callers, serving
  <2>2. CASE RestoreSwap
    <3>1. \E i \in Modes : SizeOf(m_modes[i]) # customMode
      BY OtherSize
    <3> QED
      BY <2>2, <3>1 DEF RestoreSwap, RestoreAt, switch, callers, serving
  <2>3. CASE RestoreSet
    BY <2>3 DEF RestoreSet, RestoreAt, SetSwitch, display, callers, serving
  <2>4. CASE RestoreWake
    BY <2>4 DEF RestoreWake, RestoreAt, Wakeup, display, callers, serving
  <2>5. CASE RestoreTell
    BY <2>5 DEF RestoreTell, RestoreAt, Emit, switch, display, callers, serving
  <2> QED
    BY <1>3, <2>1, <2>2, <2>3, <2>4, <2>5 DEF RestoreAllModes
<1>4. ASSUME Serving PROVE SetIsRestored'
  <2>1. CASE ServerReadModes
    BY <2>1 DEF ServerReadModes, ServerAt, Offered, switch, display, restoring, callers
  <2>2. CASE SetModeSwitched
    BY <2>2 DEF SetModeSwitched, ServerAt, switch, restoring, callers
  <2>3. CASE SetModeHardware
    BY <2>3 DEF SetModeHardware, ServerAt, switch, restoring, callers
  <2>4. CASE SetModeDone
    BY <2>4 DEF SetModeDone, ServerAt, switch, restoring, callers
  <2>5. CASE setAttribute
    BY <2>5 DEF setAttribute, ServerAt, SetSwitch, switch, display, restoring, callers
  <2>6. CASE ServerWake
    BY <2>6 DEF ServerWake, ServerAt, Wakeup, display, restoring, callers
  <2> QED
    BY <1>4, <2>1, <2>2, <2>3, <2>4, <2>5, <2>6 DEF Serving
<1>5. ASSUME UNCHANGED vars PROVE SetIsRestored'
  BY <1>5 DEF vars, switch, display, restoring, callers, serving
<1> QED
  BY <1>1, <1>2, <1>3, <1>4, <1>5 DEF Next

LEMMA NextHeard ==
  ASSUME TypeOK, NoTimer, SetIsHeard, [Next]_vars
  PROVE  SetIsHeard'
<1> USE DEF TypeOK, SetIsHeard, NoTimer
<1>1. ASSUME NEW c \in Clients, CustomMode(c) PROVE SetIsHeard'
  BY <1>1 DEF CustomMode, ClientAt, switch, display, restoring, serving
<1>2. ASSUME NEW c \in Clients, Calling(c) PROVE SetIsHeard'
  <2>1. CASE ChangeSize(c)
    BY <2>1 DEF ChangeSize, ClientAt, switch, display, restoring, serving
  <2>2. CASE ShrinkList(c)
    BY <2>2 DEF ShrinkList, ClientAt, SetSwitch, display, restoring, serving
  <2>3. CASE WakeOthers(c)
    BY <2>3 DEF WakeOthers, ClientAt, Wakeup, display, restoring, serving
  <2>4. CASE TellServer(c)
    BY <2>4 DEF TellServer, ClientAt, Emit, switch, display, restoring, serving
  <2>5. CASE ArmRestore(c)
    BY <2>5 DEF ArmRestore, ClientAt, switch, display, serving
  <2>6. CASE WaitOver(c)
    BY <2>6 DEF WaitOver, ClientAt, Awaited, switch, display, restoring, serving
  <2>7. CASE Look(c)
    BY <2>7 DEF Look, ClientAt, switch, display, restoring, serving
  <2>8. CASE AssertWait(c)
    BY <2>8 DEF AssertWait, ClientAt, display, restoring, serving
  <2>9. CASE Recheck(c)
    BY <2>9 DEF Recheck, ClientAt, Awaited, switch, display, restoring, serving
  <2>10. CASE Rouse(c)
    BY <2>10 DEF Rouse, ClientAt, Wakeup, display, restoring, serving
  <2>11. CASE Unblock(c)
    BY <2>11 DEF Unblock, ClientAt, switch, display, restoring, serving
  <2> QED
    BY <1>2, <2>1, <2>2, <2>3, <2>4, <2>5, <2>6, <2>7, <2>8, <2>9, <2>10, <2>11 DEF Calling
<1>3. ASSUME RestoreAllModes PROVE SetIsHeard'
  <2>1. CASE RestoreBegin
    BY <2>1 DEF RestoreBegin, RestoreAt, switch, display, callers, serving
  <2>2. CASE RestoreSwap
    BY <2>2 DEF RestoreSwap, RestoreAt, switch, callers, serving
  <2>3. CASE RestoreSet
    BY <2>3 DEF RestoreSet, RestoreAt, SetSwitch, display, callers, serving
  <2>4. CASE RestoreWake
    BY <2>4 DEF RestoreWake, RestoreAt, Wakeup, display, callers, serving
  <2>5. CASE RestoreTell
    BY <2>5 DEF RestoreTell, RestoreAt, Emit, switch, display, callers, serving
  <2> QED
    BY <1>3, <2>1, <2>2, <2>3, <2>4, <2>5 DEF RestoreAllModes
<1>4. ASSUME Serving PROVE SetIsHeard'
  <2>1. CASE ServerReadModes
    BY <2>1 DEF ServerReadModes, ServerAt, Offered, switch, display, restoring, callers
  <2>2. CASE SetModeSwitched
    BY <2>2 DEF SetModeSwitched, ServerAt, switch, restoring, callers
  <2>3. CASE SetModeHardware
    BY <2>3 DEF SetModeHardware, ServerAt, switch, restoring, callers
  <2>4. CASE SetModeDone
    BY <2>4 DEF SetModeDone, ServerAt, switch, restoring, callers
  <2>5. CASE setAttribute
    BY <2>5 DEF setAttribute, ServerAt, SetSwitch, switch, display, restoring, callers
  <2>6. CASE ServerWake
    BY <2>6 DEF ServerWake, ServerAt, Wakeup, display, restoring, callers
  <2> QED
    BY <1>4, <2>1, <2>2, <2>3, <2>4, <2>5, <2>6 DEF Serving
<1>5. ASSUME UNCHANGED vars PROVE SetIsHeard'
  BY <1>5 DEF vars, switch, display, restoring, callers, serving
<1> QED
  BY <1>1, <1>2, <1>3, <1>4, <1>5 DEF Next

(* No step leaves the list cut for good. *)
LEMMA NextList ==
  ASSUME WindowServer = TRUE, TwoSizes
  PROVE  ListInv /\ [Next]_vars => ListInv'
BY NextType, NextNoTimer, NextTold, NextAwaited, NextRestored, NextHeard DEF ListInv

LEMMA QuietIsFull == ListInv /\ Quiet => m_custom_switch = 0 /\ Offered = Modes
<1> SUFFICES ASSUME ListInv, Quiet PROVE m_custom_switch = 0 /\ Offered = Modes
  OBVIOUS
<1>1. m_custom_switch # 1
  BY DEF ListInv, CutIsTold, Quiet
<1>2. m_custom_switch # 2
  BY DEF ListInv, SetIsRestored, SetIsHeard, Quiet, AfterShrink
<1>3. m_custom_switch = 0
  BY <1>1, <1>2 DEF ListInv, TypeOK
<1> QED
  BY <1>3 DEF ListInv, TypeOK, AllListed, Offered

(* With a WindowServer that answers and modes of more than one size, the   *)
(* full list is offered once everybody is done, whoever called how often,  *)
(* and although a caller may sleep for ever.                               *)
THEOREM ModesComeBack == ASSUME WindowServer = TRUE, TwoSizes PROVE Spec => []ListRestored
<1>1. ListInv => ListRestored
  BY QuietIsFull DEF ListRestored
<1> QED
  BY InitList, NextList, <1>1, PTL DEF Spec
-----------------------------------------------------------------------------
(* What the hardware shows                                                 *)

Starting == {"size", "set", "wake", "emit"}

(* Before the first call has told the WindowServer. *)
NotTold == calls = 0 \/ \E c \in Clients : client[c] \in Starting

(* Up to Darwin 12, with one call: mode 1 gets its size before anybody     *)
(* looks; from there to the timer the hardware shows that size.            *)
OneCall ==
  /\ calls \in {0, 1}
  /\ calls = 0 => m_custom_switch = 0 /\ \A c \in Clients : client[c] = "idle"
  /\ \A c, d \in Clients : client[c] # "idle" /\ client[d] # "idle" => c = d

BeforeServer ==
  NotTold => /\ server = "idle" /\ ~interrupt
             /\ restore = "idle" /\ ~restore_pending
             /\ ~m_custom_mode_switched /\ m_custom_switch # 2

WhileCut ==
  m_custom_switch = 1 =>
    /\ restore = "idle" /\ ~m_custom_mode_switched
    /\ server = "setmode" => picked = CUSTOM_MODE_ID
    /\ server \in {"hardware", "release"} => hw = customMode
    /\ server \in {"setmode", "hardware", "release"} => ~interrupt

WhileSet ==
  m_custom_switch = 2 => ~interrupt /\ server \in {"idle", "wake"} /\ hw = customMode

WhileRestored ==
  /\ restore \in {"swap", "set"} => m_custom_switch = 2
  /\ restore \in {"wake", "emit"} => m_custom_switch = 0
  /\ m_custom_mode_switched => hw = customMode

LegacyCall == OneCall /\ BeforeServer /\ WhileCut /\ WhileSet /\ WhileRestored
Legacy == ~darwin13 => LegacyCall

(* What will make the hardware show the current mode, or that it does: at  *)
(* the start it may not, until somebody asks for a size.                   *)
Follows ==
  ~m_custom_mode_switched =>
    \/ NotTold
    \/ interrupt
    \/ server = "setmode"
    \/ server = "hardware" /\ hw = SizeOf(picked)
    \/ server # "hardware" /\ hw = SizeOf(m_display_mode)

HardwareInv ==
  /\ TypeOK /\ AllListed /\ NoTimer
  /\ (darwin13 => ~m_custom_mode_switched)
  /\ Legacy /\ Follows

LEMMA NextCall ==
  ASSUME LegacyCalls \in {0, 1}, ~darwin13, TypeOK, LegacyCall, [Next]_vars
  PROVE  LegacyCall'
<1> USE DEF TypeOK, LegacyCall, OneCall, BeforeServer, WhileCut, WhileSet, WhileRestored, NotTold, Starting
<1>1. ASSUME NEW c \in Clients, CustomMode(c) PROVE LegacyCall'
  BY <1>1 DEF CustomMode, ClientAt, switch, display, restoring, serving
<1>2. ASSUME NEW c \in Clients, Calling(c) PROVE LegacyCall'
  <2>1. CASE ChangeSize(c)
    BY <2>1 DEF ChangeSize, ClientAt, switch, display, restoring, serving
  <2>2. CASE ShrinkList(c)
    BY <2>2 DEF ShrinkList, ClientAt, SetSwitch, display, restoring, serving
  <2>3. CASE WakeOthers(c)
    BY <2>3 DEF WakeOthers, ClientAt, Wakeup, display, restoring, serving
  <2>4. CASE TellServer(c)
    BY <2>4 DEF TellServer, ClientAt, Emit, switch, display, restoring, serving
  <2>5. CASE ArmRestore(c)
    BY <2>5 DEF ArmRestore, ClientAt, switch, display, serving
  <2>6. CASE WaitOver(c)
    BY <2>6 DEF WaitOver, ClientAt, Awaited, switch, display, restoring, serving
  <2>7. CASE Look(c)
    BY <2>7 DEF Look, ClientAt, switch, display, restoring, serving
  <2>8. CASE AssertWait(c)
    BY <2>8 DEF AssertWait, ClientAt, display, restoring, serving
  <2>9. CASE Recheck(c)
    BY <2>9 DEF Recheck, ClientAt, Awaited, switch, display, restoring, serving
  <2>10. CASE Rouse(c)
    BY <2>10 DEF Rouse, ClientAt, Wakeup, display, restoring, serving
  <2>11. CASE Unblock(c)
    BY <2>11 DEF Unblock, ClientAt, switch, display, restoring, serving
  <2> QED
    BY <1>2, <2>1, <2>2, <2>3, <2>4, <2>5, <2>6, <2>7, <2>8, <2>9, <2>10, <2>11 DEF Calling
<1>3. ASSUME RestoreAllModes PROVE LegacyCall'
  <2>1. CASE RestoreBegin
    BY <2>1 DEF RestoreBegin, RestoreAt, switch, display, callers, serving
  <2>2. CASE RestoreSwap
    BY <2>2 DEF RestoreSwap, RestoreAt, switch, callers, serving
  <2>3. CASE RestoreSet
    BY <2>3 DEF RestoreSet, RestoreAt, SetSwitch, display, callers, serving
  <2>4. CASE RestoreWake
    BY <2>4 DEF RestoreWake, RestoreAt, Wakeup, display, callers, serving
  <2>5. CASE RestoreTell
    BY <2>5 DEF RestoreTell, RestoreAt, Emit, switch, display, callers, serving
  <2> QED
    BY <1>3, <2>1, <2>2, <2>3, <2>4, <2>5 DEF RestoreAllModes
<1>4. ASSUME Serving PROVE LegacyCall'
  <2>1. CASE ServerReadModes
    BY <2>1 DEF ServerReadModes, ServerAt, Offered, switch, display, restoring, callers
  <2>2. CASE SetModeSwitched
    BY <2>2 DEF SetModeSwitched, ServerAt, switch, restoring, callers
  <2>3. CASE SetModeHardware
    <3>1. m_custom_switch = 1 => SizeOf(picked) = customMode
      BY <2>3 DEF SetModeHardware, ServerAt, SizeOf
    <3> QED
      BY <2>3, <3>1 DEF SetModeHardware, ServerAt, switch, restoring, callers
  <2>4. CASE SetModeDone
    BY <2>4 DEF SetModeDone, ServerAt, switch, restoring, callers
  <2>5. CASE setAttribute
    BY <2>5 DEF setAttribute, ServerAt, SetSwitch, switch, display, restoring, callers
  <2>6. CASE ServerWake
    BY <2>6 DEF ServerWake, ServerAt, Wakeup, display, restoring, callers
  <2> QED
    BY <1>4, <2>1, <2>2, <2>3, <2>4, <2>5, <2>6 DEF Serving
<1>5. ASSUME UNCHANGED vars PROVE LegacyCall'
  BY <1>5 DEF vars, switch, display, restoring, callers, serving
<1> QED
  BY <1>1, <1>2, <1>3, <1>4, <1>5 DEF Next

LEMMA NextFollows ==
  ASSUME WindowServer = TRUE, TypeOK, darwin13 => ~m_custom_mode_switched, Legacy, Follows, [Next]_vars
  PROVE  Follows'
<1> USE DEF TypeOK, Follows, SizeOf, NotTold, Starting
<1>1. ASSUME NEW c \in Clients, CustomMode(c) PROVE Follows'
  BY <1>1 DEF CustomMode, ClientAt, switch, display, restoring, serving
<1>2. ASSUME NEW c \in Clients, Calling(c) PROVE Follows'
  <2>1. CASE ChangeSize(c)
    BY <2>1 DEF ChangeSize, ClientAt, switch, display, restoring, serving
  <2>2. CASE ShrinkList(c)
    BY <2>2 DEF ShrinkList, ClientAt, SetSwitch, display, restoring, serving
  <2>3. CASE WakeOthers(c)
    BY <2>3 DEF WakeOthers, ClientAt, Wakeup, display, restoring, serving
  <2>4. CASE TellServer(c)
    BY <2>4 DEF TellServer, ClientAt, Emit, switch, display, restoring, serving
  <2>5. CASE ArmRestore(c)
    BY <2>5 DEF ArmRestore, ClientAt, switch, display, serving
  <2>6. CASE WaitOver(c)
    BY <2>6 DEF WaitOver, ClientAt, Awaited, switch, display, restoring, serving
  <2>7. CASE Look(c)
    BY <2>7 DEF Look, ClientAt, switch, display, restoring, serving
  <2>8. CASE AssertWait(c)
    BY <2>8 DEF AssertWait, ClientAt, display, restoring, serving
  <2>9. CASE Recheck(c)
    BY <2>9 DEF Recheck, ClientAt, Awaited, switch, display, restoring, serving
  <2>10. CASE Rouse(c)
    BY <2>10 DEF Rouse, ClientAt, Wakeup, display, restoring, serving
  <2>11. CASE Unblock(c)
    BY <2>11 DEF Unblock, ClientAt, switch, display, restoring, serving
  <2> QED
    BY <1>2, <2>1, <2>2, <2>3, <2>4, <2>5, <2>6, <2>7, <2>8, <2>9, <2>10, <2>11 DEF Calling
<1>3. ASSUME RestoreAllModes PROVE Follows'
  <2>1. CASE RestoreBegin
    BY <2>1 DEF RestoreBegin, RestoreAt, switch, display, callers, serving
  <2>2. CASE RestoreSwap
    BY <2>2 DEF RestoreSwap, RestoreAt, switch, callers, serving
  <2>3. CASE RestoreSet
    BY <2>3 DEF RestoreSet, RestoreAt, SetSwitch, display, callers, serving
  <2>4. CASE RestoreWake
    BY <2>4 DEF RestoreWake, RestoreAt, Wakeup, display, callers, serving
  <2>5. CASE RestoreTell
    BY <2>5 DEF RestoreTell, RestoreAt, Emit, switch, display, callers, serving
  <2> QED
    BY <1>3, <2>1, <2>2, <2>3, <2>4, <2>5 DEF RestoreAllModes
<1>4. ASSUME Serving PROVE Follows'
  <2>1. CASE ServerReadModes
    BY <2>1 DEF ServerReadModes, ServerAt, Offered, switch, display, restoring, callers
  <2>2. CASE SetModeSwitched
    <3>1. hw = customMode
      BY <2>2 DEF SetModeSwitched, Legacy, LegacyCall, WhileRestored
    <3>2. /\ hw' = hw /\ customMode' = customMode /\ m_display_mode' = picked
          /\ server' = "release" /\ m_custom_mode_switched' = (SizeOf(picked) # customMode)
      BY <2>2 DEF SetModeSwitched, ServerAt
    <3>3. ~m_custom_mode_switched' => SizeOf(picked) = customMode
      BY <3>2
    <3>4. SizeOf(m_display_mode)' = SizeOf(picked)
      BY <3>2 DEF SizeOf
    <3> QED
      BY <3>1, <3>2, <3>3, <3>4
  <2>3. CASE SetModeHardware
    BY <2>3 DEF SetModeHardware, ServerAt, switch, restoring, callers
  <2>4. CASE SetModeDone
    BY <2>4 DEF SetModeDone, ServerAt, switch, restoring, callers
  <2>5. CASE setAttribute
    BY <2>5 DEF setAttribute, ServerAt, SetSwitch, switch, display, restoring, callers
  <2>6. CASE ServerWake
    BY <2>6 DEF ServerWake, ServerAt, Wakeup, display, restoring, callers
  <2> QED
    BY <1>4, <2>1, <2>2, <2>3, <2>4, <2>5, <2>6 DEF Serving
<1>5. ASSUME UNCHANGED vars PROVE Follows'
  BY <1>5 DEF vars, switch, display, restoring, callers, serving
<1> QED
  BY <1>1, <1>2, <1>3, <1>4, <1>5 DEF Next

LEMMA InitHardware == Init => HardwareInv
<1> SUFFICES ASSUME Init PROVE HardwareInv
  OBVIOUS
<1>1. TypeOK /\ AllListed /\ NoTimer
  BY InitList DEF ListInv
<1>2. LegacyCall
  BY DEF Init, LegacyCall, OneCall, BeforeServer, WhileCut, WhileSet, WhileRestored
<1> QED
  BY <1>1, <1>2 DEF Init, HardwareInv, Legacy, Follows, NotTold

(* Every change of a size that the hardware shows is followed by setting   *)
(* a mode, from Darwin 13 on for any number of calls, before for one.      *)
LEMMA NextHardware ==
  ASSUME WindowServer = TRUE, LegacyCalls \in {0, 1}
  PROVE  HardwareInv /\ [Next]_vars => HardwareInv'
<1> SUFFICES ASSUME HardwareInv, [Next]_vars PROVE HardwareInv'
  OBVIOUS
<1>1. TypeOK' /\ AllListed' /\ NoTimer'
  BY NextType, NextNoTimer DEF HardwareInv
<1>2. darwin13' <=> darwin13
  BY DEF Next, vars, switch, Calling, RestoreAllModes, Serving, SetSwitch, Wakeup,
     CustomMode, ChangeSize, ShrinkList, WakeOthers, TellServer, ArmRestore, WaitOver, Look, AssertWait,
     Recheck, Rouse, Unblock, RestoreBegin, RestoreSwap, RestoreSet, RestoreWake, RestoreTell,
     ServerReadModes, SetModeSwitched, SetModeHardware, SetModeDone, setAttribute, ServerWake
<1>3. ~darwin13 => LegacyCall'
  BY NextCall DEF HardwareInv, Legacy
<1>4. darwin13 => ~m_custom_mode_switched'
  <2> SUFFICES ASSUME darwin13 PROVE ~m_custom_mode_switched'
    OBVIOUS
  <2>1. ~m_custom_mode_switched /\ restore = "idle"
    BY DEF HardwareInv, NoTimer
  <2> QED
    BY <2>1 DEF Next, vars, display, Calling, RestoreAllModes, Serving, RestoreAt,
       CustomMode, ChangeSize, ShrinkList, WakeOthers, TellServer, ArmRestore, WaitOver, Look,
       AssertWait, Recheck, Rouse, Unblock, RestoreBegin, RestoreSwap, RestoreSet, RestoreWake,
       RestoreTell, ServerReadModes, SetModeSwitched, SetModeHardware, SetModeDone, setAttribute,
       ServerWake
<1>5. Follows'
  BY NextFollows DEF HardwareInv
<1> QED
  BY <1>1, <1>2, <1>3, <1>4, <1>5 DEF HardwareInv, Legacy

(* Whatever size the hardware has at the start: once somebody has asked    *)
(* for a size and everybody is done, it shows the size of the mode that    *)
(* the driver reports.                                                     *)
THEOREM HardwareShowsMode ==
  ASSUME WindowServer = TRUE, LegacyCalls \in {0, 1}
  PROVE  Spec => []HardwareFollows
<1>1. HardwareInv => HardwareFollows
  BY DEF HardwareInv, Follows, HardwareFollows, Quiet, NotTold, Starting
<1> QED
  BY InitHardware, NextHardware, <1>1, PTL DEF Spec

-----------------------------------------------------------------------------
(* Refresh. *)

RefreshInv == RefreshTypeOK /\ OneAtATime /\ TimerNotLost

(* The initial states satisfy the invariant. *)
LEMMA RefreshStarts ==
  ASSUME Overlap = FALSE
  PROVE  RefreshInit => RefreshInv
BY TaskAssumption DEF RefreshInit, RefreshInv, RefreshTypeOK, OneAtATime, TimerNotLost

(* A step of a timer action, of setDisplayMode or of useAccelUpdates keeps *)
(* the invariant when no two calls of the last overlap.                    *)
LEMMA RefreshStep ==
  ASSUME Overlap = FALSE
  PROVE  RefreshInv /\ [RefreshNext]_refreshVars => RefreshInv'
<1> SUFFICES ASSUME RefreshInv, [RefreshNext]_refreshVars PROVE RefreshInv'
  OBVIOUS
<1> USE TaskAssumption DEF RefreshInv, RefreshTypeOK, OneAtATime, TimerNotLost
<1>1. ASSUME NEW c \in Callouts, refreshTimerAction(c) PROVE RefreshInv'
  <2>1. CASE Fire(c)
    BY <2>1 DEF Fire, At
  <2>2. CASE Draw(c)
    BY <2>2 DEF Draw, At
  <2>3. CASE Again(c)
    BY <2>3 DEF Again, At
  <2>4. CASE Rearm(c)
    BY <2>4 DEF Rearm, At, scheduleRefreshTimer
  <2> QED
    BY <1>1, <2>1, <2>2, <2>3, <2>4 DEF refreshTimerAction
<1>2. CASE setDisplayMode
  <2>1. CASE SetModeBegin \/ SetModeInHardware
    BY <2>1 DEF SetModeBegin, SetModeInHardware, ModeAt
  <2>2. CASE SetModeCancel
    BY <2>2 DEF SetModeCancel, ModeAt, cancelRefreshTimer
  <2>3. CASE SetModeEnd
    BY <2>3 DEF SetModeEnd, ModeAt
  <2>4. CASE SetModeSchedule
    BY <2>4 DEF SetModeSchedule, ModeAt, scheduleRefreshTimer
  <2> QED
    BY <1>2, <2>1, <2>2, <2>3, <2>4 DEF setDisplayMode
<1>3. ASSUME NEW t \in Tasks, AccelBegin(t) PROVE RefreshInv'
  BY <1>3 DEF AccelBegin, TaskAt
<1>4. ASSUME NEW t \in Tasks, AccelOwn(t) PROVE RefreshInv'
  BY <1>4 DEF AccelOwn, TaskAt
<1>5. ASSUME NEW t \in Tasks, AccelSame(t) PROVE RefreshInv'
  BY <1>5 DEF AccelSame, TaskAt
<1>6. ASSUME NEW t \in Tasks, AccelFlag(t) PROVE RefreshInv'
  BY <1>6 DEF AccelFlag, TaskAt
<1>7. ASSUME NEW t \in Tasks, AccelTimer(t) PROVE RefreshInv'
  BY <1>7 DEF AccelTimer, TaskAt, scheduleRefreshTimer,
              cancelRefreshTimer
<1>8. ASSUME NEW t \in Tasks, AccelTraces(t) PROVE RefreshInv'
  BY <1>8 DEF AccelTraces, TaskAt
<1>9. CASE UNCHANGED refreshVars
  BY <1>9 DEF refreshVars
<1> QED
  BY <1>1, <1>2, <1>3, <1>4, <1>5, <1>6, <1>7, <1>8, <1>9 DEF RefreshNext, Accelerating

-----------------------------------------------------------------------------
(* RefreshInv is inductive. *)
LEMMA RefreshInductive ==
  ASSUME Overlap = FALSE
  PROVE  RefreshSpec => []RefreshInv
BY RefreshStarts, RefreshStep, PTL DEF RefreshSpec

(* No interleaving of setDisplayMode, useAccelUpdates and timer actions    *)
(* leaves the screen without a refresh.                                    *)
THEOREM TimerKept ==
  ASSUME Overlap = FALSE
  PROVE  RefreshSpec => []TimerNotLost
<1>1. RefreshInv => TimerNotLost
  BY DEF RefreshInv
<1> QED
  BY RefreshInductive, <1>1, PTL
=============================================================================
