SPECIFICATION Spec
CONSTANTS
  Orders = {o1}
  p1 = p1
  p2 = p2
  Parts = {p1, p2}
  Clerks = {c1, c2}
  Asks <- MCAsks
  MaxLate = 1
  Lots = {l1, l2}
  Reservations = {r1, r2}
  Locations = {s1, s2}
  WorkOrderParts = {w1}
  Requested = 1
  MaxOnHand = 2
  MaxCorrections = 1
  None = None
CONSTRAINT OneKindAtATime
SYMMETRY Symmetry
INVARIANTS
  TypeOK
  NeverOverReceived
  
  BalanceIsLedger
  ReservationsAreCovered
  PartsHoldTheirReservations
  OpenReservationsCanSettle
  TransfersBalance
  ReceiptsMatchLines
PROPERTIES
  SettledOrdersStay
  ClosedLotsStayEmpty
  AccountKept
CHECK_DEADLOCK FALSE
