SPECIFICATION FairSpec
CONSTANTS
  app_main = app_main
  input = input
  sensor = sensor
  ui = ui
  Tasks = {app_main, input, sensor, ui}
  Idle = Idle
  END = END
  NULL = NULL
  Main = {app_main}
  configMAX_PRIORITIES = 7
  BasePriority <- MCPriority
  Users = {input, sensor, ui}
  Delays = {0, 1}
  Period <- MCPeriod
  WRAP = 3
  MaxPended = 2
INVARIANTS
  ListsExact
  HighestRuns
  PriorityIsLent
  NobodyForgotten
PROPERTIES
  WakesOnTime
  ImplementsLock
  WaiterServed
  StackComesBack
