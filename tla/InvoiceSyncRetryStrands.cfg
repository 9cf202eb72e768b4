SPECIFICATION FairSpec
CONSTANTS
  w1 = w1
  w2 = w2
  c1 = c1
  None = None
  DefaultCustomer = DefaultCustomer
  Customers = {c1}
  CustomerOf <- MCCustomerOf
  WorkOrders = {w2}
  Records = {r1}
  QbInvoiceIds = {i1, i2}
  QbCustomerIds = {qc1}
  Procs = {p1}
  Mortal = {}
  Creators = {}
  Requeuers = {}
  Services = {}
  Retriers = {t1}
  BatchSize = 2
  MaxAttempts = 2
PROPERTY
  RetryIsTakenUp
CHECK_DEADLOCK FALSE
