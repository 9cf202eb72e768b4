SPECIFICATION BoundedSpec
CONSTANTS
  e1 = e1  e2 = e2  t1 = t1  t2 = t2
  a1 = a1  a2 = a2  b1 = b1  b2 = b2  r1 = r1  r2 = r2
  w1 = w1  w2 = w2  q1 = q1  x1 = x1  x2 = x2
  Configurations = {a1, a2}
  Boms = {b1, b2}
  Routes = {r1, r2}
  Group <- MCGroup
  RouteFor <- MCRouteFor
  Engineers = {e1, e2}
  MaxStale = 1
  None = None
  WorkOrders = {w1, w2}
  Operations = {x1, x2}
  Technicians = {t1, t2}
  Targets = {"IN_PROGRESS", "BLOCKED", "DONE", "CANCELLED"}
  QuoteIds = {q1}
  Sellers = {s1, s2}
  NumberOf <- MCNumberOf
  Slots = {l1, l2}
  Planners = {p1, p2, p3}
  Minutes <- MCMinutes
  Capacities = {1, 2}
  Builders = {k1}
SYMMETRY Symmetry
INVARIANTS
  TypeOK
  OneInForce
  InForceIsLogged
  SuccessorsLeadToReleased
  OrdersAreBuiltOnSignedPackages
  OneOrderPerQuote
  OverMeansOver
  OrderFollowsOperations
  HistoryEndsAtStatus
  SlotsHoldTheirAssignments
PROPERTIES
  EndedWorkStaysEnded
CHECK_DEADLOCK FALSE
