SPECIFICATION Spec
CONSTANTS
  w1 = w1
  w2 = w2
  c1 = c1
  None = None
  DefaultCustomer = DefaultCustomer
  Customers = {c1}
  CustomerOf <- MCCustomerOf
  WorkOrders = {w1}
  Records = {r1, r2}
  QbInvoiceIds = {i1, i2, i3}
  QbCustomerIds = {qc1, qc2, qc3}
  Procs = {p1, p2}
  Mortal = {p1, p2}
  Creators = {k1}
  Requeuers = {q1}
  Services = {}
  Retriers = {}
  BatchSize = 2
  MaxAttempts = 2
CONSTRAINT OverlapOnOneRow
SYMMETRY Symmetry
INVARIANTS
  TypeOK
  InvoicesBoundedByAttempts
  QbCustomersBoundedByProcs
  SyncedMatchesMapping
CHECK_DEADLOCK FALSE
