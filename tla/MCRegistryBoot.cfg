SPECIFICATION Spec
CONSTANTS
  MaxCommits = 1
  MaxFailures = 1
  MaxMessages = 1
  MaxOpen = 1
  Attempts = 2
PROPERTY
  BootDecides
CHECK_DEADLOCK FALSE
