SPECIFICATION FairSpec
CONSTANTS
  c1 = c1  c2 = c2  c3 = c3
  Calls <- ThreeCalls
  Capacity = 2
CHECK_DEADLOCK FALSE
INVARIANTS
  TypeOK
  AbandonedWorkIsTold
  AnsweredHoldsNoSlot
PROPERTIES
  IsAdmissionControl
  FullIsTemporary
