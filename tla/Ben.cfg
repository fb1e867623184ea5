SPECIFICATION FairSpec
CONSTANTS
  Customers = {c1, c2}
  Cooks = {k1, k2}
  Main = main
  None = None
  Junk = Junk
  OrdersPerCustomer = 2
  MaxSize = 2
  MallocFailures = 1
  SetupMayFail = TRUE
  SpuriousWakeups = TRUE
INVARIANTS
  BoundedBuffer
  OneOwner
  OrdersAccountedFor
  CloseIsQuiet
  NoLostWakeup
PROPERTIES
  RestaurantCloses
  ImplementsBook
