SPECIFICATION FairSpec
CONSTANTS
  Tasks = {"http", "serial"}
  Images <- Apps
  Magic <- Apps
  Bootable <- Apps
  Healthy <- Good
  N = 2
  MaxSeq = 3
  Faults = {}
  Migrated = FALSE
PROPERTY CrashingAppYields
PROPERTY SerialUpdateEnds
