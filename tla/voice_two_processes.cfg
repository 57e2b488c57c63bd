SPECIFICATION Spec
CONSTANTS
  p1 = p1  p2 = p2  r1 = r1  r2 = r2  r3 = r3
  NoRequest = NoRequest
  Processes <- TwoProcesses
  Requests <- TwoRequests
  MaxSessions = 1
  MaxSeconds = 3
  Duration = 3
  Cooldown = 1
  Inactivity = 2
  Slack = 1
  Horizon = 2
CHECK_DEADLOCK FALSE
INVARIANT SessionsWithinQuota
