SPECIFICATION GuidedSpec
CONSTANTS
  p1 = p1
  p2 = p2
  s1 = s1
  s2 = s2
  None = None
  Torn = Torn
  Process = {p1, p2}
  Person = p1
  Source = {s1, s2}
  AtFirst = {s1}
  Limits <- MCLimits
  Asks <- MCAsks
  MaxEdits = 2
  MaxCrashes = 1
INVARIANT
  TestMatchesApprovals
PROPERTY
  AdviceEnds
CHECK_DEADLOCK FALSE
