SPECIFICATION Spec
CONSTANTS
  US = US
  us = us
  DE = DE
  mobile = mobile
  Mobile = Mobile
  ctv = ctv
  toaster = toaster
  home = home
  abroad = abroad
  Blank = Blank
  Wildcard = Wildcard
  Null = Null
  WordBits = 2
  Int32Max = 7
  Tolerance = 2
  Scale = 2
  Grid = 2
  Position <- MCPosition
  Code <- MCCode
  Classifiers <- MCClassifiers
  Geo <- MCGeo
  Canonical <- MCCanonical
  Loads <- MCLoads
  Queries <- MCQueries
INVARIANTS
  TypeOK
  AnswersAsRows
  FairShare
  ReportsEveryEvent
