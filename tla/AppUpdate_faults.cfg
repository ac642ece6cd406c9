SPECIFICATION Spec
CONSTANTS
  Tasks = {"serial"}
  Images <- AllImages
  Magic <- AllMagic
  Bootable <- Apps
  Healthy <- Good
  N = 3
  MaxSeq = 3
  Faults = {"power", "commit_loss", "nvs", "no_page"}
  Migrated = TRUE
INVARIANT SelectedIsComplete
INVARIANT RememberedIsComplete
PROPERTY ImplementsAppStore
