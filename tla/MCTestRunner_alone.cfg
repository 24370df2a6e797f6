CONSTANTS
  r1 = r1
  r2 = r2
  Runners <- TwoRunners
  InputVerify = TRUE
  Fractional = FALSE
  Alone = TRUE
  SameSecond = FALSE
  Surface = TRUE
SPECIFICATION Spec
CHECK_DEADLOCK FALSE
INVARIANTS PassNeedsBoth TornDown NoLeftover OwnLog
PROPERTY Ends
