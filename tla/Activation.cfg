SPECIFICATION Spec
CONSTANTS
  Callers = {p1, p2, p3}
  Queue = Queue
  Users = {u1, u2}
  Resources = {r}
  Connectors = {k1, k2}
  Connections = {c1, c2, c3}
  ConnectorSelectors = {k1, k2, type}
  KeyOf <- KeyOfConnection
  KeysOf <- KeysOfSelector
  Requests <- RequestsOfHost
  Runs <- RunsOfSession
  None = None
  MaxRunning = 1
  MaxWaiting = 1
  MaxRetries = 1
  MaxQueued = 3
  MaxWaiters = 2
  MaxRequests = 3
  MaxChanges = 1
  p1 = p1
  p2 = p2
  p3 = p3
  u1 = u1
  u2 = u2
  r = r
  k1 = k1
  k2 = k2
  type = type
  c1 = c1
  c2 = c2
  c3 = c3
SYMMETRY Symmetry
CHECK_DEADLOCK FALSE
INVARIANTS OneAccountPerConnector SlotsAreHeld
PROPERTIES AnsweredInOrder
