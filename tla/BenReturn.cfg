SPECIFICATION Spec
CONSTANTS
  Customers = {c1}
  Cooks = {k1, k2}
  Main = main
  None = None
  Junk = Junk
  OrdersPerCustomer = 2
  MaxSize = 2
  MallocFailures = 0
  SetupMayFail = FALSE
  SpuriousWakeups = FALSE
PROPERTIES
  ReturnsTheOrderNumber
