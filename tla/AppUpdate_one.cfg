SPECIFICATION Spec
CONSTANTS
  Tasks = {"http"}
  Images <- AllImages
  Magic <- AllMagic
  Bootable <- Apps
  Healthy <- Good
  N = 3
  MaxSeq = 3
  Faults = {"power"}
  Migrated = FALSE
INVARIANT TypeOK
INVARIANT ResumeIsLastRun
INVARIANT LastInv
