SPECIFICATION FairSpec
CONSTANTS
  e1 = e1  e2 = e2  e3 = e3  w1 = w1  w2 = w2  v1 = v1  v2 = v2
  NoPayload = NoPayload  NoToken = NoToken  NoEvent = NoEvent
  Events <- ThreeEvents
  Workers <- OneWorker
  Payloads <- TwoMappers
  Tokens <- SomeTokens
  Malformed <- Third
  Unmappable <- Second
  FaultKinds <- AllFaults
  BatchSize = 1
  MaxAttempts = 2
  AttemptCap = 3
  MaxFaults = 2
CHECK_DEADLOCK FALSE
INVARIANT
  CompletedMeansRecorded
PROPERTY
  EverySubmissionSettles
