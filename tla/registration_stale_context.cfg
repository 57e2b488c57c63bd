SPECIFICATION Spec
CONSTANTS
  d1 = d1  d2 = d2  r1 = r1  r2 = r2  r3 = r3  r4 = r4
  a = a  b = b  x = x  y = y
  NoCourses = NoCourses  NoContext = NoContext
  NoDevice = NoDevice  NoRequest = NoRequest
  Devices <- TwoDevices
  Contexts <- TwoContexts
  Requests <- ThreeRequests
  Courses <- OneList
  Rejected <- NoneRejected
  MaxChanges = 1
  MaxLost = 0
CHECK_DEADLOCK FALSE
PROPERTY ValidatedStateIsCurrent
