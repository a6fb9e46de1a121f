SPECIFICATION Spec
CONSTANTS
  p1 = p1
  p2 = p2
  f1 = f1
  f2 = f2
  f3 = f3
  Pixel <- MCPixel
  Fire <- MCFire
  Tick = 2
  TokenTTL = 4
  ClaimTTL = 4
  Delay = 1
  MaxTime = 6
  MaxFaults = 1
  MaxResends = 1
SYMMETRY Symmetry
INVARIANTS
  TypeOK
  CountedOnce
  OneLossPerFault
CHECK_DEADLOCK FALSE
