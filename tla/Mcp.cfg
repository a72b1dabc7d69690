SPECIFICATION MCSpec
CONSTANTS
  Keys <- Versions
  Callers = {p1, p2}
  Loads = {l1, l2}
  None = None
  Sizes = {1, 3}
  MaxEntries = 2
  MaxBytes = 3
  MaxInFlight = 2
  Actors = {a1, a2}
  UseScopes = {s1}
  Credentials = {c1, c2}
  NoCredential = NoCredential
  MaxChanges = 1
  MaxOperations = 2
  MaxRequests = 3
SYMMETRY Symmetry
CHECK_DEADLOCK FALSE
INVARIANTS WithinLimits NoOneAbandoned SingleFlight
PROPERTIES ServesWhatIsCurrent
