SPECIFICATION ConnectionsSpec
CONSTANTS
  Handlers = {p1, p2, p3}
  Conns = {c1, c2}
  Attempts = {a1, a2}
  Grants = {g1, g2}
  Names = {n1}
  None = None
  MaxOpen = 2
  Ops <- AllOps
  Fuel = 5
  FuelWhenConnected = 3
  MaxAuthorizing = 2
  MaxAborts = 1
  c1 = c1
  a1 = a1
  g1 = g1
  n1 = n1
ACTION_CONSTRAINT BoundedStep
CHECK_DEADLOCK FALSE
INVARIANTS TypeOK NoOrphanCiphertext AbandonableHoldsNoTokens OneExchangePerAttempt NoBlindRetry
PROPERTIES GrantsAccountedFor DispatchesCurrentCredential ConfirmedMeansRevoked BlockedStaysBlocked
SYMMETRY HandlerSymmetry
