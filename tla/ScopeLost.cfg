SPECIFICATION ManagedSpec
CONSTANTS
  Emails = {e1, e2}
  Providers = {p1}
  Groups = {g1}
  Resources = {r1}
  Skills = {k1}
  Scopes = {s1, s2}
  Admin = Admin
  Forms = {f1}
  None = None
  MaxChanges = 3
  ConfiguredChanges = 2
  ManagedChanges = 1
  Requests = {q1}
  MaxMoves = 1
  ScopeAddresses = {sa}
  AssignmentAddresses = {aa, ab}
  Runners = {u1}
  MaxPlans = 2
  PublishingChanges = 0
  Refreshers = {}
  MaxRefreshes = 0
  MaxEditions = 0
  ManagedPlans = 1
ACTION_CONSTRAINT BoundedStep
CHECK_DEADLOCK FALSE
INVARIANT RequiredScopesExist
SYMMETRY Interchangeable
