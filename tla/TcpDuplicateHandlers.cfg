SPECIFICATION Spec
CONSTANTS
  c1 = c1
  w1 = w1
  w2 = w2
  Conns = {c1}
  Workers = {w1, w2}
  Protected = {}
  None = None
  MaxFaults = 0
INVARIANTS OneSocketPerConnection
CHECK_DEADLOCK FALSE
