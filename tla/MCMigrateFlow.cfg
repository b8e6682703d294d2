SPECIFICATION Spec
CONSTANTS
  p1 = p1
  p2 = p2
  s1 = s1
  s2 = s2
  None = None
  Torn = Torn
  Process = {p1}
  Person = p1
  Source = {s1}
  AtFirst = {s1}
  Limits <- MCLimits
  Asks <- MCAsks
  MaxEdits = 1
  MaxCrashes = 0
INVARIANTS
  TypeOK
  TestCoversContents
  NoSilentQuestion
PROPERTY
  NothingForgotten
