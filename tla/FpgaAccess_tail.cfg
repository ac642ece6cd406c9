SPECIFICATION Spec
CONSTANTS
  Tasks = {"serial"}
  Ops = {"update"}
  N = 2
  Attempts = 1
  Overlap = TRUE
  Aligned = {FALSE}
  Refusals = FALSE
INVARIANT SuccessMeansWritten
