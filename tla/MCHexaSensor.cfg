SPECIFICATION FairSpec
CONSTANTS
  Sensors = {"vl53l0x", "aht20", "bmp280"}
  TICK_RATE_HZ = 100
  MaxTicks = 20
INVARIANTS
  FreshResult
  HonestTimeout
  CalibIsLoaded
PROPERTIES
  JobsEnd
