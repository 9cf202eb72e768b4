SPECIFICATION FairSpec
CONSTANTS
  q1 = q1
  None = None
  Payments = {q1}
  PaymentOf <- MCPaymentOf
  MaxRecords = 2
  MaxNotices = 2
  Known = {1}
  Hooks = {h1, h2}
  Workers = {w1}
  Mortal = {w1}
  Requeuers = {}
  Retriers = {t1}
  BatchSize = 1
  MaxAttempts = 1
  MaxMishaps = 1
INVARIANTS
  TypeOK
  AnsweredIsStored
PROPERTY
  NoticesAreAnswered
CHECK_DEADLOCK FALSE
