SPECIFICATION Spec
CONSTANTS
  i1 = i1
  i2 = i2
  t1 = t1
  t2 = t2
  t3 = t3
  hilo = hilo
  counter = counter
  Nobody = Nobody
  Instance = {i1, i2}
  Thread = {t1, t2, t3}
  Home <- MCHome
  Name = {hilo, counter}
  Rows = {hilo, counter}
  Block <- MCBlock
  Start <- MCStart
  MaxAttempts = 2
  MaxCalls = 3
  MaxCrashes = 1
INVARIANTS
  TypeOK
  NoDuplicate
  Conservation
  RealTimeOrder
PROPERTY
  ImplementsAllocator
SYMMETRY SameHome
