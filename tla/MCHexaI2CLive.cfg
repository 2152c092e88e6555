SPECIFICATION FairSpec
CONSTANTS
  Tasks = {t1, t2}
  NoTask = NoTask
  Power = Power
  Junk = Junk
  MaxAddr = 1
  Devices = {1}
  MaxReg = 1
  Calls <- RawCalls
  NByteMax = 1
  TmpMax = 1
  BusTimeout = 1
  ScanTimeout = 1
PROPERTIES
  MutexIsReleased
  ImplementsLock
