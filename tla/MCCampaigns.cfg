SPECIFICATION CampaignsSpec
CONSTANTS
  c1 = c1
  a1 = a1
  a2 = a2
  Campaign <- MCCampaign
  Ad <- MCAd
  Budgets = {0, 1, 2}
  MaxImps = 2
  MaxEdits = 4
  MaxFaults = 1
  MaxMessages = 1
INVARIANT
  CampaignsTypeOK
PROPERTIES
  CompletesOnlySpent
  SpentCompletes
  StopsServing
CHECK_DEADLOCK FALSE
