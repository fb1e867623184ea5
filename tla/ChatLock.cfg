SPECIFICATION FairSpec
CONSTANTS
  Clients = {c1, c2, c3}
  Main = main
  None = None
  Interrupts = TRUE
INVARIANTS
  LockedIffInside
PROPERTIES
  ImplementsSharedLists
  ReadersGetIn
  SigintShutsDown
CHECK_DEADLOCK FALSE
