SPECIFICATION FairSpec
CONSTANTS
  BOARD_BTN_COUNT = 2
  DEBOUNCE_MAX = 2
  Modes = {"loop", "interrupt", "task"}
INVARIANTS
  NothingLost
  ReportedOnce
  SettlesInTime
PROPERTIES
  ChangesApart
  PressIsReported
