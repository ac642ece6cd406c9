SPECIFICATION FairSpec
CONSTANTS
  Tasks = {"http", "serial"}
  Ops = {"update", "id_current"}
  N = 1
  Attempts = 1
  Overlap = TRUE
  Aligned = {TRUE}
  Refusals = TRUE
PROPERTY SerialEnds
CHECK_DEADLOCK FALSE
