SPECIFICATION Spec
CONSTANTS
  t = t
  Missed = TRUE
  Deepest = 12
  Entry = "main"
  Tables <- MCTables
  Routines <- MCRoutines
  Sorted <- MCSorted
  Statements <- MCStatements
  Depth <- MCDepth
  Programs <- MCPrograms
CONSTRAINT Bounded
CHECK_DEADLOCK FALSE
INVARIANTS
  RefusedWasReported
