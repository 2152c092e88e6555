SPECIFICATION Spec
CONSTANTS
  Tasks = {t1}
  NoTask = NoTask
  Power = Power
  Junk = Junk
  MaxAddr = 1
  Devices = {1}
  MaxReg = 1
  Calls <- StaleCalls
  NByteMax = 1
  TmpMax = 1
  BusTimeout = 3
  ScanTimeout = 1
INVARIANT
  OkReadIsRight
