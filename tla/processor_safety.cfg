SPECIFICATION Spec
CONSTANTS
  e1 = e1  e2 = e2  e3 = e3  w1 = w1  w2 = w2  v1 = v1  v2 = v2
  NoPayload = NoPayload  NoToken = NoToken  NoEvent = NoEvent
  Events <- TwoEvents
  Workers <- TwoWorkers
  Payloads <- OneMapper
  Tokens <- SomeTokens
  Malformed <- NoEvents
  Unmappable <- NoEvents
  FaultKinds <- PlainFaults
  BatchSize = 2
  MaxAttempts = 2
  AttemptCap = 3
  MaxFaults = 3
CHECK_DEADLOCK FALSE
SYMMETRY Interchangeable
INVARIANTS
  TypeOK
  ClaimIsExclusive
  PendingHasAttemptLeft
  OneFaultNeverFails
PROPERTIES
  SettledIsFinal
  OvertakenWorkerIsHarmless
  ImplementsTraceDelivery
