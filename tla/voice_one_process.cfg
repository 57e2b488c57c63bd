SPECIFICATION Spec
CONSTANTS
  p1 = p1  p2 = p2  r1 = r1  r2 = r2  r3 = r3
  NoRequest = NoRequest
  Processes <- OneProcess
  Requests <- ThreeRequests
  MaxSessions = 2
  MaxSeconds = 2
  Duration = 3
  Cooldown = 1
  Inactivity = 2
  Slack = 1
  Horizon = 8
CHECK_DEADLOCK FALSE
SYMMETRY Interchangeable
INVARIANTS
  TypeOK
  SessionsWithinQuota
  ChargedForWhatItLasted
  OverdraftIsOneSession
  StartsAreSpaced
