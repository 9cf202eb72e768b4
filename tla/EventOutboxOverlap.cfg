SPECIFICATION BoundedSpec
CONSTANTS
  MaxEvents = 2
  w1 = w1
  WorkOrders = {w1}
  WorkOrderOf <- MCWorkOrderOf
  Publishers = {p1, p2}
  Handlers = {h1, h2}
  BatchSize = 2
  MaxRetries = 2
  MaxMishaps = 1
  None = None
INVARIANTS
  TypeOK
  
PROPERTIES
  PromiseKept
  AnnouncedIsConsumed
CHECK_DEADLOCK FALSE
