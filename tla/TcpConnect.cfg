SPECIFICATION FairSpec
CONSTANTS
  c1 = c1
  w1 = w1
  w2 = w2
  Conns = {c1}
  Workers = {w1, w2}
  Protected = {"connect.json", "established", "error.json"}
  None = None
  MaxFaults = 2
INVARIANTS TypeOK OutcomeIsTrue
PROPERTIES SettledForGood PendingIsHandled
CHECK_DEADLOCK FALSE
