SPECIFICATION Spec
CONSTANTS
  w1 = w1
  w2 = w2
  NoOwner = NoOwner
  Worker <- MCWorker
  LockTTL = 5
  TickTimeout = 3
  Delay = 1
  MaxLate = 1
  MaxLife = 1
  MaxResends = 1
INVARIANTS
  TypeOK
  MutualExclusion
PROPERTY
  LockFreed
