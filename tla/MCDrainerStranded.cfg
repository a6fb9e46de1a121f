SPECIFICATION Spec
CONSTANTS
  w1 = w1
  w2 = w2
  a1 = a1
  h1 = h1
  h2 = h2
  Worker <- MCOneWorker
  Ad = {a1}
  Event = {"impression"}
  Hit <- MCHit
  MaxDay = 2
  MaxFailures = 0
INVARIANT
  OldDaysDrained
