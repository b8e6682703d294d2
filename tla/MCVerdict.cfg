SPECIFICATION Spec
CONSTANTS
  a = a
  b = b
  h = h
  k = k
  None = None
  Routine = {a, b, h}
  Package = {k}
  Variant = {"scaled", "double"}
  Program <- MCPrograms
  Outcome = {"none", "match", "differ", "skipped"}
  MayRaise = TRUE
  MaxEdits = 1
  MaxCaptures = 2
INVARIANTS
  TypeOK
  AutoIsTested
  AutoWasRun
  WorstReachable
  TestedIsAuto
