SPECIFICATION Spec
CONSTANTS
  None = None
  Clients = {p1, p2}
  Tokens = {t1, t2, t3}
  Commands = {"access", "exchange", "whoami", "login", "logout"}
  MaxCommands = 4
  MaxLosses = 0
  MaxFailures = 0
SYMMETRY Symmetry
INVARIANTS NoneTakenForReuse
CHECK_DEADLOCK FALSE
