SPECIFICATION Spec
CONSTANTS
  Programs <- MCPrograms
  Patience = 20
INVARIANTS
  Laminar
  LandsTheSame
  RefusedOnlyIfAsked
  AcceptedOnlyIfNot
  SameRun
  LeftIsReported
PROPERTIES
  ImplementsNest
  NestingEnds
CHECK_DEADLOCK FALSE
