SPECIFICATION Spec
CONSTANTS
  w1 = w1
  w2 = w2
  c1 = c1
  None = None
  DefaultCustomer = DefaultCustomer
  Customers = {c1}
  CustomerOf <- MCCustomerOf
  WorkOrders = {w2}
  Records = {r1, r2}
  QbInvoiceIds = {i1, i2}
  QbCustomerIds = {qc1}
  Procs = {p1, p2}
  Mortal = {}
  Creators = {}
  Requeuers = {}
  Services = {s1}
  Retriers = {t1}
  BatchSize = 1
  MaxAttempts = 1
SYMMETRY Symmetry
INVARIANTS
  ReferencesAreOwn
  SyncedHasReference
  SyncedMatchesMapping
CHECK_DEADLOCK FALSE
