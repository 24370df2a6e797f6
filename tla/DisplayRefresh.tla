--------------------------- MODULE DisplayRefresh ---------------------------
(***************************************************************************)
(* Who refreshes the screen (kexts/VMsvga2/FB/VMsvga2.cpp).  Without       *)
(* accelerated updates the framebuffer driver asks the device to redraw:   *)
(* a device with SVGA_CAP_TRACES watches VRAM by itself, any other is told *)
(* by a timer that re-arms itself.  setDisplayMode stops and restarts the  *)
(* timer, useAccelUpdates switches between the two regimes, and a timer    *)
(* action that has started cannot be cancelled.                            *)
(*                                                                         *)
(* A section under m_iolock is one step; between the sections everything   *)
(* interleaves.                                                            *)
(***************************************************************************)
EXTENDS Naturals

CONSTANTS
  Tasks,      \* tasks with a 2D context (WindowServer and others)
  NoTask,     \* nobody drives the accelerator: m_updating_ga == 0
  Callouts,   \* kernel threads that run timer actions
  Overlap     \* calls of useAccelUpdates may overlap: nothing in the driver
              \* prevents it, and the properties below need it not to happen

ASSUME TaskAssumption == NoTask \notin Tasks

ASSUME OverlapAssumption == Overlap \in BOOLEAN

VARIABLES
  hasTraces,       \* the device has SVGA_CAP_TRACES, and no timer; never changes
  m_accel_updates,
  m_updating_ga,   \* the task that switched accelerated updates on
  traces,          \* SVGA_REG_TRACES
  armed,           \* m_refresh_call is pending
  callout,         \* where each timer action is
  mode,            \* where setDisplayMode is; the framebuffer runs one at a time
  task,            \* where each task is in useAccelUpdates
  state            \* the argument of that call

refreshVars == <<hasTraces, m_accel_updates, m_updating_ga, traces, armed, callout, mode, task, state>>

RefreshInit ==
  /\ hasTraces \in BOOLEAN
  /\ m_accel_updates = FALSE
  /\ m_updating_ga = NoTask
  /\ traces = hasTraces
  /\ armed = ~hasTraces
  /\ callout = [c \in Callouts |-> "off"]
  /\ mode = "idle"
  /\ task = [t \in Tasks |-> "idle"]
  /\ state = [t \in Tasks |-> FALSE]

scheduleRefreshTimer == armed' = ~hasTraces
cancelRefreshTimer == armed' = FALSE

-----------------------------------------------------------------------------
(* refreshTimerAction *)

At(c, from, to) ==
  /\ callout[c] = from
  /\ callout' = [callout EXCEPT ![c] = to]
  /\ UNCHANGED <<hasTraces, m_accel_updates, m_updating_ga, traces, mode, task, state>>

Fire(c) == armed /\ armed' = FALSE /\ At(c, "off", "draw")
Draw(c) == At(c, "draw", "drawn") /\ UNCHANGED armed
\* Faulty variant: the action re-arms the timer whatever the regime.
AgainAlways(c) == At(c, "drawn", "schedule") /\ UNCHANGED armed

Again(c) == At(c, "drawn", IF m_accel_updates THEN "off" ELSE "schedule") /\ UNCHANGED armed

\* Faulty variant: the action does not re-arm the timer.
RearmMissing(c) == At(c, "schedule", "off") /\ UNCHANGED armed

Rearm(c) == scheduleRefreshTimer /\ At(c, "schedule", "off")

refreshTimerAction(c) == Fire(c) \/ Draw(c) \/ Again(c) \/ Rearm(c)

-----------------------------------------------------------------------------
(* setDisplayMode, for a mode that exists and is set in the hardware. *)

ModeAt(from, to) ==
  /\ mode = from
  /\ mode' = to
  /\ UNCHANGED <<hasTraces, m_accel_updates, m_updating_ga, traces, callout, task, state>>

SetModeBegin == ModeAt("idle", IF m_accel_updates THEN "set" ELSE "cancel") /\ UNCHANGED armed
SetModeCancel == cancelRefreshTimer /\ ModeAt("cancel", "set")
SetModeInHardware == ModeAt("set", "after") /\ UNCHANGED armed

\* Faulty variant: the timer is not restarted after the mode is set.
SetModeEndForgets == ModeAt("after", "idle") /\ UNCHANGED armed

SetModeEnd ==
  ModeAt("after", IF m_accel_updates THEN "idle" ELSE "schedule") /\ UNCHANGED armed

SetModeSchedule == scheduleRefreshTimer /\ ModeAt("schedule", "idle")

setDisplayMode ==
  \/ SetModeBegin \/ SetModeCancel \/ SetModeInHardware \/ SetModeEnd \/ SetModeSchedule

-----------------------------------------------------------------------------
(* useAccelUpdates: VMsvga2Accel checks and takes the ownership, VMsvga2   *)
(* then switches the flag, the timer and the TRACES register.              *)

TaskAt(t, from, to) ==
  /\ task[t] = from
  /\ task' = [task EXCEPT ![t] = to]
  /\ UNCHANGED <<hasTraces, callout, mode>>

(* Another task's accelerated updates are none of this task's business. *)
AccelBegin(t) ==
  /\ Overlap \/ \A u \in Tasks : task[u] = "idle"
  /\ m_updating_ga \in {NoTask, t}
  /\ \E s \in BOOLEAN : state' = [state EXCEPT ![t] = s]
  /\ TaskAt(t, "idle", "own")
  /\ UNCHANGED <<m_accel_updates, m_updating_ga, traces, armed>>

AccelOwn(t) ==
  /\ m_updating_ga' = IF state[t] THEN t ELSE NoTask
  /\ TaskAt(t, "own", "flag")
  /\ UNCHANGED <<m_accel_updates, traces, armed, state>>

AccelSame(t) ==
  /\ m_accel_updates = state[t]
  /\ TaskAt(t, "flag", "idle")
  /\ UNCHANGED <<m_accel_updates, m_updating_ga, traces, armed, state>>

AccelFlag(t) ==
  /\ m_accel_updates # state[t]
  /\ m_accel_updates' = state[t]
  /\ TaskAt(t, "flag", "timer")
  /\ UNCHANGED <<m_updating_ga, traces, armed, state>>

AccelTimer(t) ==
  /\ IF state[t] THEN cancelRefreshTimer ELSE scheduleRefreshTimer
  /\ TaskAt(t, "timer", "traces")
  /\ UNCHANGED <<m_accel_updates, m_updating_ga, traces, state>>

AccelTraces(t) ==
  /\ traces' = (hasTraces /\ ~state[t])
  /\ TaskAt(t, "traces", "idle")
  /\ UNCHANGED <<m_accel_updates, m_updating_ga, armed, state>>

Accelerating(t) ==
  AccelOwn(t) \/ AccelSame(t) \/ AccelFlag(t) \/ AccelTimer(t) \/ AccelTraces(t)

-----------------------------------------------------------------------------
RefreshNext ==
  \/ \E c \in Callouts : refreshTimerAction(c)
  \/ setDisplayMode
  \/ \E t \in Tasks : AccelBegin(t) \/ Accelerating(t)

RefreshSpec == RefreshInit /\ [][RefreshNext]_refreshVars

(* A timer that is due is run, and whoever is inside a call goes on. *)
RefreshFairness ==
  /\ WF_refreshVars(\E c \in Callouts : refreshTimerAction(c))
  /\ \A c \in Callouts : WF_refreshVars(Draw(c) \/ Again(c) \/ Rearm(c))
  /\ WF_refreshVars(SetModeCancel \/ SetModeInHardware \/ SetModeEnd \/ SetModeSchedule)
  /\ \A t \in Tasks : WF_refreshVars(Accelerating(t))

RefreshFairSpec == RefreshSpec /\ RefreshFairness

-----------------------------------------------------------------------------
(* Properties *)

(* Every variable has its type. *)
RefreshTypeOK ==
  /\ hasTraces \in BOOLEAN
  /\ m_accel_updates \in BOOLEAN /\ traces \in BOOLEAN /\ armed \in BOOLEAN
  /\ m_updating_ga \in Tasks \cup {NoTask}
  /\ callout \in [Callouts -> {"off", "draw", "drawn", "schedule"}]
  /\ mode \in {"idle", "cancel", "set", "after", "schedule"}
  /\ task \in [Tasks -> {"idle", "own", "flag", "timer", "traces"}]
  /\ state \in [Tasks -> BOOLEAN]

(* At most one task is inside useAccelUpdates, and it knows the regime. *)
OneAtATime ==
  /\ \A t, u \in Tasks : task[t] # "idle" /\ task[u] # "idle" => t = u
  /\ \A t \in Tasks : task[t] \in {"timer", "traces"} => state[t] = m_accel_updates

(* While accelerated updates are off, the timer is pending, or somebody    *)
(* who is about to look at the flag will arm it: whatever cancellation and *)
(* restart interleave, no schedule is lost (cancelRefreshTimer in          *)
(* setDisplayMode and useAccelUpdates against scheduleRefreshTimer).       *)
TimerNotLost ==
  ~hasTraces /\ ~m_accel_updates =>
    \/ armed
    \/ \E c \in Callouts : callout[c] # "off"
    \/ mode # "idle"
    \/ \E t \in Tasks : task[t] = "timer"

(* Without SVGA_CAP_TRACES the screen is redrawn again and again, by the   *)
(* timer or by the accelerator (refreshTimerAction re-arms itself).        *)
RefreshGoesOn ==
  []<>(hasTraces \/ m_accel_updates \/ mode = "after" \/ \E c \in Callouts : callout[c] = "drawn")

(* Once accelerated updates stay on, the timer dies out, although an       *)
(* action that was running may arm it once more.                           *)
TimerDiesOut == <>[]m_accel_updates /\ <>[](mode = "idle") => <>[]~armed
=============================================================================
