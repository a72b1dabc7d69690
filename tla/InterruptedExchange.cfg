SPECIFICATION PendingSpec
CONSTANTS
  Handlers = {p1}
  Conns = {c1}
  Attempts = {a1, a2}
  Grants = {g1, g2}
  Names = {n1}
  None = None
  MaxOpen = 2
  Ops <- ProgressOps
  Fuel = 2
  MaxAuthorizing = 2
  FuelWhenConnected = 2
  MaxAborts = 1
  c1 = c1
  a1 = a1
  g1 = g1
  n1 = n1
CHECK_DEADLOCK FALSE
INVARIANT InterruptedExchangeReviewable
