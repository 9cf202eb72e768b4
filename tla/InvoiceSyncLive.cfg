SPECIFICATION FairSpec
CONSTANTS
  w1 = w1
  w2 = w2
  c1 = c1
  None = None
  DefaultCustomer = DefaultCustomer
  Customers = {c1}
  CustomerOf <- MCCustomerOf
  WorkOrders = {w1}
  Records = {r1, r2}
  QbInvoiceIds = {i1, i2}
  QbCustomerIds = {qc1}
  Procs = {p1}
  Mortal = {}
  Creators = {}
  Requeuers = {q1}
  Services = {}
  Retriers = {}
  BatchSize = 2
  MaxAttempts = 2
PROPERTY
  PendingIsSettled
CHECK_DEADLOCK FALSE
