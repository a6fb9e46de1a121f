SPECIFICATION PickerSpec
CONSTANTS
  u1 = u1
  u2 = u2
  k1 = k1
  k2 = k2
  Urls = {u1, u2}
  Refused = {u2}
  Keys = {k1, k2}
  Responses <- MCResponses
  MaxOpens = 2
  MaxCalls = 2
SYMMETRY Symmetry
INVARIANTS
  PickerTypeOK
  SavedMediaExists
CHECK_DEADLOCK FALSE
