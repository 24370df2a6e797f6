SPECIFICATION RefreshFairSpec
CONSTANTS
  Tasks = {t1, t2}
  NoTask = NoTask
  Callouts = {c1, c2}
  Overlap = FALSE
INVARIANTS
  TimerNotLost
PROPERTIES
  RefreshGoesOn
  TimerDiesOut
