SPECIFICATION FairSpec
CONSTANTS
  Sensors <- MCSensors
  Words = {"cycles", "value"}
  CYCLES = 2
  CLICK = 2
  RESCAN = 3
INVARIANTS
  SnapshotWhole
  RescanKept
PROPERTIES
  RescanServed
  FramesGoOn
