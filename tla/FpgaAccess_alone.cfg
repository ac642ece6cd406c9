SPECIFICATION FairSpec
CONSTANTS
  Tasks = {"http", "serial"}
  Ops = {"sram", "update", "id", "id_current"}
  N = 2
  Attempts = 2
  Overlap = FALSE
  Aligned = {TRUE}
  Refusals = TRUE
INVARIANT TypeOK
INVARIANT OwnFlashKept
PROPERTY SramSuccessIsWhole
PROPERTY BridgeIsTemporary
PROPERTY SerialEnds
PROPERTY ImplementsFpgaDesigns
