SPECIFICATION Spec
CONSTANTS
  b1 = b1
  b2 = b2
  ann = ann
  Ann = Ann
  bob = bob
  p1 = p1
  p2 = p2
  Browser <- MCBrowser
  Email <- MCEmail
  Password = {p1, p2}
  Lower <- MCLower
  SessionTTL = 2
INVARIANTS
  TypeOK
  OneAccountPerAddress
PROPERTIES
  SetupCloses
  Settles
