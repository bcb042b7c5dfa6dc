SPECIFICATION Spec
CONSTANTS
  r1 = r1
  s1 = s1
  s2 = s2
  w1 = w1
  w2 = w2
  Requests = {r1}
  Admissible = {r1}
  Servers = {s1, s2}
  Workers = {w1, w2}
  Watchers = {"inotify", "watchdog", "polling"}
  UnlinkMayFail = TRUE
  RefusedListings = {s2}
  None = None
  MaxFaults = 1
INVARIANTS WaitingAccountedFor AtMostOncePerProcess
SYMMETRY ThreadSymmetry
CHECK_DEADLOCK FALSE
