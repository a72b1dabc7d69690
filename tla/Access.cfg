SPECIFICATION MCSpec
CONSTANTS
  Emails = {e1, e2}
  Providers = {p1}
  Groups = {g1}
  Resources = {r1}
  Skills = {k1}
  Scopes = {s1, s2}
  Admin = Admin
  Forms = {f1}
  None = None
  MaxChanges = 3
  ConfiguredChanges = 2
  ManagedChanges = 1
  Requests = {q1}
  MaxMoves = 1
  ScopeAddresses = {sa}
  AssignmentAddresses = {aa, ab}
  Runners = {u1, u2}
  MaxPlans = 2
  PublishingChanges = 2
  Refreshers = {w1, w2}
  MaxRefreshes = 3
  MaxEditions = 1
  ManagedPlans = 2
ACTION_CONSTRAINT BoundedStep
CHECK_DEADLOCK FALSE
INVARIANTS AdministratorRemains RequiredScopesKept ChangeStaysDue
PROPERTIES GrantedIsJustified MissingIsCertain OverwritesOnlyPlanned AppliedIsDesired NeverGoesBack
SYMMETRY Interchangeable
