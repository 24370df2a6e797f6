CONSTANTS
  r1 = r1
  r2 = r2
  Runners <- OneRunner
  InputVerify = FALSE
  Fractional = TRUE
  Alone = TRUE
  SameSecond = FALSE
  Surface = TRUE
SPECIFICATION Spec
CHECK_DEADLOCK FALSE
INVARIANT TornDownAlways
