SPECIFICATION Spec
CONSTANTS
  Handlers = {h1, h2}
  Attempts = {a1, a2, a3}
  Providers = {p1}
  First = p1
  p1 = p1
  Subjects = {s1}
  Emails = {e1, e2}
  Tokens = {t1, t2}
  None = None
  MaxChanges = 3
SYMMETRY Symmetry
CHECK_DEADLOCK FALSE
INVARIANTS NoSetupAttemptAfterwards
PROPERTIES InstalledOnce LoginByUnchangedProvider
