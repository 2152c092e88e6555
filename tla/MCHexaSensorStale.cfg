SPECIFICATION Spec
CONSTANTS
  Sensors = {"vl53l0x"}
  TICK_RATE_HZ = 100
  MaxTicks = 20
INVARIANT
  AlwaysFresh
