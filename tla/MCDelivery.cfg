SPECIFICATION VSpec
CONSTANTS
  r1 = r1
  r2 = r2
  b1 = b1
  u1 = u1
  u2 = u2
  u3 = u3
  NoUser = NoUser
  Browser = {b1}
  Named = {u1}
  a1 = a1
  a2 = a2
  a3 = a3
  c1 = c1
  c2 = c2
  NoAd = NoAd
  Request <- MCRequest
  User = {u1, u2, u3}
  Ad <- MCAd
  Campaign <- MCCampaign
  CampaignOf <- MCCampaignOf
  Snapshots <- MCSnapshots
  Targets <- MCTargets
  MaxAttempts = 2
  MaxResends = 1
SYMMETRY Symmetry
INVARIANTS
  VTypeOK
  BudgetCeiling
  FreqCapHeld
  PriorityHeld
  NoFillJustified
  ViewerCapHeld
PROPERTY
  ImplementsAllowance
CHECK_DEADLOCK FALSE
