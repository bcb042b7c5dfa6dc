SPECIFICATION FairSpec
CONSTANTS
  r1 = r1
  r2 = r2
  s1 = s1
  w1 = w1
  w2 = w2
  Requests = {r1, r2}
  Admissible = {r1}
  Servers = {s1}
  Workers = {w1, w2}
  Watchers = {"inotify", "watchdog", "polling"}
  UnlinkMayFail = FALSE
  RefusedListings = {}
  None = None
  MaxFaults = 2
INVARIANTS TypeOK AtMostOnceForward OneThreadPerRequest WaitingAccountedFor NoStrayFiles SafetyInv
PROPERTIES ImplementsRequestReply OwedIsServed
CHECK_DEADLOCK FALSE
