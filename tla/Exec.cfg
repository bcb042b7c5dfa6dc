SPECIFICATION FairSpec
CONSTANTS
  r1 = r1
  r2 = r2
  paths = paths
  label = label
  count = count
  NotText = NotText
  Unreadable = Unreadable
  None = None
  ParamNames = {paths, label, count}
  Requests = {r1, r2}
  Histories <- MCHistories
  CallsOf <- MCCallsOf
  Dirs = {"project", "home", "a..b"}
  Dotted = {"a..b"}
  UnlinkMayFail = TRUE
  MaxFaults = 1
INVARIANTS TypeOK OnlyPolicyRuns CommandFillsTemplate RefusalsAreThePolicys
PROPERTIES ImplementsRequestReply AnsweredUnlessLost
CHECK_DEADLOCK FALSE
