SPECIFICATION FairSpec
CONSTANTS
  MaxEvents = 1
  w1 = w1
  WorkOrders = {w1}
  WorkOrderOf <- MCWorkOrderOf
  Publishers = {p1}
  Handlers = {h1}
  BatchSize = 2
  MaxRetries = 2
  MaxMishaps = 0
  None = None
PROPERTY
  FailedIsClaimedAgain
CHECK_DEADLOCK FALSE
