SPECIFICATION Spec
CONSTANTS
  BOARD_BTN_COUNT = 2
  DEBOUNCE_MAX = 2
  Modes = {"task"}
INVARIANT
  ExactlyOnce
