SPECIFICATION FairSpec
CONSTANTS
  None = None
  Clients = {p1, p2}
  Tokens = {t1, t2, t3}
  Commands = {"access", "exchange", "whoami", "login", "logout"}
  MaxCommands = 3
  MaxLosses = 1
  MaxFailures = 1
INVARIANTS SingleLiveToken NoSelfReuse RevokedTogether NotLoggedInIsTrue
PROPERTIES NoResurrection CommandsEnd
CHECK_DEADLOCK FALSE
