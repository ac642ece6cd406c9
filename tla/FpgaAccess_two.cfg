SPECIFICATION Spec
CONSTANTS
  Tasks = {"http", "serial"}
  Ops = {"sram", "update", "id", "id_current"}
  N = 2
  Attempts = 2
  Overlap = TRUE
  Aligned = {TRUE}
  Refusals = TRUE
INVARIANT HoldsOneLock
PROPERTY FlashExclusive
PROPERTY WrittenUnlessLost
INVARIANT NoForeignStream
CHECK_DEADLOCK FALSE
