SPECIFICATION FairSpec
CONSTANTS
  q1 = q1
  None = None
  Payments = {q1}
  PaymentOf <- MCPaymentOf
  MaxRecords = 2
  MaxNotices = 2
  Known = {}
  Hooks = {h1}
  Workers = {w1, w2}
  Mortal = {}
  Requeuers = {u1}
  Retriers = {}
  BatchSize = 2
  MaxAttempts = 1
  MaxMishaps = 0
INVARIANT
  InProgressIsHeld
PROPERTY
  PendingIsSettled
CHECK_DEADLOCK FALSE
