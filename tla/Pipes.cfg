SPECIFICATION FairSpec
CONSTANTS
  Lines = 3
  Capacity = 1
  MayFail = TRUE
INVARIANTS
  Composes
PROPERTIES
  Drains
