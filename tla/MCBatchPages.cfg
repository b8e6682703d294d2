SPECIFICATION Spec
CONSTANTS
  Keys <- MCKeys
  First = 0
  Cols <- MCCols
  Vals <- MCVals
  Jobs <- MCJobs
  MaxRuns = 2
  MaxChanges = 1
INVARIANTS
  EachOnce
  NoneMissed
  FailuresOnRecord
PROPERTIES
  ImplementsCursor
  EveryRunEnds
CHECK_DEADLOCK FALSE
