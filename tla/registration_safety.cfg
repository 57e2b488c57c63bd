SPECIFICATION MCSpec
CONSTANTS
  d1 = d1  d2 = d2  r1 = r1  r2 = r2  r3 = r3  r4 = r4
  a = a  b = b  x = x  y = y
  NoCourses = NoCourses  NoContext = NoContext
  NoDevice = NoDevice  NoRequest = NoRequest
  Devices <- TwoDevices
  Contexts <- TwoContexts
  Requests <- ThreeRequests
  Courses <- TwoLists
  Rejected <- RejectedInY
  MaxChanges = 1
  MaxLost = 1
CHECK_DEADLOCK FALSE
SYMMETRY Interchangeable
INVARIANTS
  TypeOK
  DecidedOnThePrevious
  WithdrawalEndsASubmission
  SuccessMeansStored
  RefusalMeansNothingStored
PROPERTY
  ImplementsIntentLog
