SPECIFICATION StartedSpec
CONSTANTS
  r1 = r1
  s1 = s1
  w1 = w1
  Requests = {r1}
  Admissible = {r1}
  Servers = {s1}
  Workers = {w1}
  Watchers = {"polling"}
  UnlinkMayFail = FALSE
  RefusedListings = {}
  None = None
  MaxFaults = 0
PROPERTIES WrittenBeforeStartIsProcessed
CHECK_DEADLOCK FALSE
