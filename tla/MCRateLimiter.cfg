SPECIFICATION Spec
CONSTANTS
  k1 = k1
  k2 = k2
  r1 = r1
  r2 = r2
  r3 = r3
  NoBucket = NoBucket
  Key <- MCKey
  Request <- MCRequest
  Rate = 1
  Burst = 1
  Cap = 1
  EvictAge = 1
  IdleAge = 1
  MaxTime = 2
  MaxSweeps = 1
SYMMETRY Symmetry
INVARIANTS
  TypeOK
  RateHeld
  SizeAccounted
CHECK_DEADLOCK FALSE
