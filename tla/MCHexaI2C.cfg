SPECIFICATION Spec
CONSTANTS
  Tasks = {t1, t2}
  NoTask = NoTask
  Power = Power
  Junk = Junk
  MaxAddr = 1
  Devices = {1}
  MaxReg = 1
  Calls <- SafetyCalls
  NByteMax = 1
  TmpMax = 2
  BusTimeout = 1
  ScanTimeout = 1
SYMMETRY TaskSymmetry
INVARIANTS
  StatusIsOwn
  ReadIsSnapshot
  WriteIsComplete
  AbsentNeverOk
  ChunksAddUp
