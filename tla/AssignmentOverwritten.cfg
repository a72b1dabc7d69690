SPECIFICATION Spec
CONSTANTS
  Emails = {e1, e2}
  Providers = {}
  Groups = {}
  Resources = {}
  Skills = {}
  Scopes = {s1}
  Admin = Admin
  Forms = {f1, f2}
  None = None
  MaxChanges = 5
  ConfiguredChanges = 2
  ManagedChanges = 1
  Requests = {}
  MaxMoves = 0
  ScopeAddresses = {}
  AssignmentAddresses = {}
  Runners = {}
  MaxPlans = 2
  PublishingChanges = 0
  Refreshers = {}
  MaxRefreshes = 0
  MaxEditions = 0
  ManagedPlans = 2
CHECK_DEADLOCK FALSE
PROPERTY SeenIsReplaced
