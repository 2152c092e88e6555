SPECIFICATION Spec
CONSTANTS
  Requests <- MCRequests
  RandomTimes <- MCRandomTimes
  MaxSeconds = 2
INVARIANTS
  ValidMeansSet
PROPERTIES
  TimeWasShown
  SetTimeHolds
