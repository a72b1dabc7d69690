SPECIFICATION MCSpec
CONSTANTS
  Calls = {x1, x2}
  Processes = {w1, w2}
  Keys = {k1}
  CleanupBatch = 1
  CleanupGap = 0
  Horizon = 5
  Kids = {kid1}
  Resources = {r1}
  None = None
  Ordinary = {s1}
  Reserved = {mcp}
  Mcp = mcp
  MaxChanges = 2
  MaxRequests = 3
  SigningKeys = {j1, j2}
  Visits = {v1, v2}
  Proofs = {d1}
  Assertions = {i1}
  Ttl = 2
  Throttle = 1
  Timeout = 1
  MaxEntries = 1
  ProofLife = 1
  AssertionLife = 2
  MaxVisits = 2
ACTION_CONSTRAINT BoundedStep
CHECK_DEADLOCK FALSE
SYMMETRY Interchangeable
INVARIANTS AssertionBuysOneToken UsedOnce
PROPERTIES OncePerWindow IssuedUnderCurrentAccess FollowsKey
