SPECIFICATION Spec
CONSTANTS
  q1 = q1
  None = None
  Payments = {q1}
  PaymentOf <- MCPaymentOf
  MaxRecords = 2
  MaxNotices = 1
  Known = {1}
  Hooks = {h1, h2}
  Workers = {}
  Mortal = {}
  Requeuers = {}
  Retriers = {}
  BatchSize = 1
  MaxAttempts = 1
  MaxMishaps = 0
INVARIANT
  OneRowPerPayment
CHECK_DEADLOCK FALSE
