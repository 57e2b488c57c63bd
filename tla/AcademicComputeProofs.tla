------------------------ MODULE AcademicComputeProofs ------------------------
(***************************************************************************)
(* Safety of the academic-compute limiter for every number of calls and    *)
(* every capacity.                                                         *)
(*                                                                         *)
(* The argument: the semaphore and the counter are the complement and the  *)
(* size of one set, the calls whose worker has not run finish.  Only an    *)
(* admission adds to that set and only finish takes from it; everything a  *)
(* caller may live through meanwhile leaves it alone.                      *)
(***************************************************************************)
EXTENDS AcademicCompute, FiniteSetTheorems, TLAPS

Types ==
    /\ slots \in Nat
    /\ caller \in [Calls -> CallerStates]
    /\ worker \in [Calls -> WorkerStates]
    /\ outcome \in [Calls -> Outcomes]
    /\ cancelled \in [Calls -> BOOLEAN]
    /\ expired \in [Calls -> BOOLEAN]

SlotAccount ==
    /\ inUse = Cardinality(Holding)
    /\ slots + Cardinality(Holding) = Capacity

\* Where a caller and its worker may stand together.
Together(c) ==
    /\ caller[c] \in {"new", "busy"} => worker[c] = "none"
    /\ worker[c] \in {"exited", "done"} => outcome[c] # "none"
    /\ caller[c] \in {"value", "error"} => worker[c] = "done"
    /\ caller[c] \in Answers /\ c \in Holding => cancelled[c]

Inv == Types /\ SlotAccount /\ \A c \in Calls : Together(c)

(***************************************************************************)
(* The set of live workers is finite and its size a natural number.        *)
(***************************************************************************)
LEMMA HoldingIsFinite == IsFiniteSet(Holding) /\ Cardinality(Holding) \in Nat
  <1>1. Holding \in SUBSET Calls
    BY DEF Holding
  <1>2. IsFiniteSet(Holding)
    BY <1>1, FS_Subset, CapacityAssumption
  <1> QED
    BY <1>2, FS_CardinalityType

(***************************************************************************)
(* What one step does to the set of live workers (run, finish and the      *)
(* thread of one call c; the other actions do not touch it).               *)
(***************************************************************************)
LEMMA AdmissionAddsOne ==
  ASSUME Types, NEW c \in Calls, RunAdmitted(c), Together(c)
  PROVE  /\ c \notin Holding
         /\ Holding' = Holding \cup {c}
         /\ Cardinality(Holding') = Cardinality(Holding) + 1
  <1>1. c \notin Holding /\ Holding' = Holding \cup {c}
    BY DEF Types, RunAdmitted, Together, Holding
  <1> QED
    BY <1>1, HoldingIsFinite, FS_AddElement

LEMMA FinishRemovesOne ==
  ASSUME Types, NEW c \in Calls, Finish(c)
  PROVE  /\ c \in Holding
         /\ Holding' = Holding \ {c}
         /\ Cardinality(Holding') = Cardinality(Holding) - 1
         /\ Cardinality(Holding) > 0
  <1>1. c \in Holding /\ Holding' = Holding \ {c}
    BY DEF Types, Finish, Holding
  <1>2. Cardinality(Holding') = Cardinality(Holding) - 1
    BY <1>1, HoldingIsFinite, FS_RemoveElement
  <1>3. Cardinality(Holding') \in Nat
    BY <1>1, HoldingIsFinite, FS_RemoveElement, FS_CardinalityType
  <1> QED
    BY <1>1, <1>2, <1>3, HoldingIsFinite

\* Every step that neither admits nor finishes.
Other(c) ==
    \/ RunRefused(c) \/ RunLate(c) \/ Thread(c)
    \/ Resume(c) \/ TimeOut(c) \/ Cancel(c) \/ Disconnect(c) \/ Expire(c)

LEMMA OthersKeepHolding ==
  ASSUME Types, NEW c \in Calls, Other(c)
  PROVE  Holding' = Holding /\ UNCHANGED <<slots, inUse>>
  <1>1. CASE Thread(c)
    BY <1>1 DEF Types, Thread, ThreadStart, ThreadStopped, ThreadReturns, Exit, Holding
  <1>2. CASE ~Thread(c)
    BY <1>2 DEF Types, Other, RunRefused, RunLate, Resume, TimeOut, Cancel,
                Disconnect, Expire, Holding
  <1> QED
    BY <1>1, <1>2

-----------------------------------------------------------------------------
LEMMA InitInv == Init => Inv
  <1> SUFFICES ASSUME Init PROVE Inv
    OBVIOUS
  <1>1. Types
    BY CapacityAssumption DEF Init, Types, CallerStates, WorkerStates, Outcomes
  <1>2. Holding = {}
    BY DEF Init, Holding
  <1>3. SlotAccount
    BY <1>2, FS_EmptySet, CapacityAssumption DEF Init, SlotAccount
  <1>4. \A c \in Calls : Together(c)
    BY DEF Init, Together, Answers
  <1> QED
    BY <1>1, <1>3, <1>4 DEF Inv

(***************************************************************************)
(* Each kind of step keeps the types ...                                   *)
(***************************************************************************)
LEMMA TypesStep ==
  ASSUME Inv, [Next]_vars
  PROVE  Types'
  <1> USE DEF Inv, Types, CallerStates, WorkerStates, Outcomes, Answers
  <1>1. CASE UNCHANGED vars
    BY <1>1 DEF vars
  <1>2. ASSUME NEW c \in Calls, Run(c)
        PROVE  Types'
    BY <1>2 DEF Run, RunRefused, RunLate, RunAdmitted, Answer
  <1>3. ASSUME NEW c \in Calls, Thread(c)
        PROVE  Types'
    BY <1>3 DEF Thread, ThreadStart, ThreadStopped, ThreadReturns, Exit
  <1>4. ASSUME NEW c \in Calls, Finish(c)
        PROVE  Types'
    BY <1>4 DEF Finish
  <1>5. ASSUME NEW c \in Calls, Resume(c)
        PROVE  Types'
    <2>1. outcome[c] \in CallerStates
      BY <1>5 DEF Resume, Together
    <2> QED
      BY <1>5, <2>1 DEF Resume, Answer
  <1>6. ASSUME NEW c \in Calls, TimeOut(c) \/ Cancel(c)
        PROVE  Types'
    BY <1>6 DEF TimeOut, Cancel, Answer
  <1>7. ASSUME NEW c \in Calls, Disconnect(c) \/ Expire(c)
        PROVE  Types'
    BY <1>7 DEF Disconnect, Expire
  <1> QED
    BY <1>1, <1>2, <1>3, <1>4, <1>5, <1>6, <1>7 DEF Next, Loop

(***************************************************************************)
(* ... the account of the slots ...                                        *)
(***************************************************************************)
LEMMA SlotStep ==
  ASSUME Inv, [Next]_vars
  PROVE  SlotAccount'
  <1> USE DEF Inv
  <1>1. CASE UNCHANGED vars
    BY <1>1 DEF vars, SlotAccount, Holding
  <1>2. ASSUME NEW c \in Calls, RunAdmitted(c)
        PROVE  SlotAccount'
    <2>1. Cardinality(Holding') = Cardinality(Holding) + 1
      BY <1>2, AdmissionAddsOne
    <2>2. slots' = slots - 1 /\ inUse' = inUse + 1
      BY <1>2 DEF RunAdmitted
    <2> QED
      BY <2>1, <2>2, HoldingIsFinite, CapacityAssumption DEF SlotAccount, Types
  <1>3. ASSUME NEW c \in Calls, Finish(c)
        PROVE  SlotAccount'
    <2>1. Cardinality(Holding') = Cardinality(Holding) - 1
      BY <1>3, FinishRemovesOne
    <2>2. slots' = slots + 1 /\ inUse' = inUse - 1
      BY <1>3 DEF Finish
    <2> QED
      BY <2>1, <2>2, HoldingIsFinite, CapacityAssumption DEF SlotAccount, Types
  <1>4. ASSUME NEW c \in Calls, Other(c)
        PROVE  SlotAccount'
    BY <1>4, OthersKeepHolding DEF SlotAccount
  <1> QED
    BY <1>1, <1>2, <1>3, <1>4 DEF Next, Run, Loop, Other

(***************************************************************************)
(* ... and where callers and workers may stand together.                   *)
(***************************************************************************)
LEMMA TogetherStep ==
  ASSUME Inv, [Next]_vars
  PROVE  \A c \in Calls : Together(c)'
  <1> USE DEF Inv, Types, Together, Holding, Answers
  <1>1. CASE UNCHANGED vars
    BY <1>1 DEF vars
  <1>2. ASSUME NEW c \in Calls, Run(c)
        PROVE  \A d \in Calls : Together(d)'
    BY <1>2 DEF Run, RunRefused, RunLate, RunAdmitted, Answer
  <1>3. ASSUME NEW c \in Calls, Thread(c)
        PROVE  \A d \in Calls : Together(d)'
    BY <1>3 DEF Thread, ThreadStart, ThreadStopped, ThreadReturns, Exit
  <1>4. ASSUME NEW c \in Calls, Finish(c)
        PROVE  \A d \in Calls : Together(d)'
    BY <1>4 DEF Finish
  <1>5. ASSUME NEW c \in Calls, Resume(c)
        PROVE  \A d \in Calls : Together(d)'
    <2>1. outcome[c] \in {"value", "error", "timeout"}
      BY <1>5 DEF Resume, Outcomes
    <2> QED
      BY <1>5, <2>1 DEF Resume, Answer
  <1>6. ASSUME NEW c \in Calls, TimeOut(c) \/ Cancel(c)
        PROVE  \A d \in Calls : Together(d)'
    BY <1>6 DEF TimeOut, Cancel, Answer
  <1>7. ASSUME NEW c \in Calls, Disconnect(c) \/ Expire(c)
        PROVE  \A d \in Calls : Together(d)'
    BY <1>7 DEF Disconnect, Expire
  <1> QED
    BY <1>1, <1>2, <1>3, <1>4, <1>5, <1>6, <1>7 DEF Next, Loop

(***************************************************************************)
(* The inductive invariant of the limiter.                                 *)
(***************************************************************************)
THEOREM Invariance == Spec => []Inv
  <1>1. Inv /\ [Next]_vars => Inv'
    BY TypesStep, SlotStep, TogetherStep DEF Inv
  <1> QED
    BY <1>1, InitInv, PTL DEF Spec

(***************************************************************************)
(* Type correctness: neither the semaphore nor the counter ever leaves     *)
(* 0..Capacity, so the BoundedSemaphore is never released once too often.  *)
(***************************************************************************)
THEOREM TypeCorrect == Spec => []TypeOK
  <1>1. Inv => TypeOK
    BY HoldingIsFinite, CapacityAssumption DEF Inv, Types, SlotAccount, TypeOK
  <1> QED
    BY <1>1, Invariance, PTL

(***************************************************************************)
(* A thread whose caller has been answered has been told to stop.          *)
(***************************************************************************)
THEOREM AbandonedIsTold == Spec => []AbandonedWorkIsTold
  <1>1. Inv => AbandonedWorkIsTold
    BY DEF Inv, Together, Holding, AbandonedWorkIsTold
  <1> QED
    BY <1>1, Invariance, PTL

(***************************************************************************)
(* A call answered by its worker holds no slot any more.                   *)
(***************************************************************************)
THEOREM AnsweredIsFree == Spec => []AnsweredHoldsNoSlot
  <1>1. Inv => AnsweredHoldsNoSlot
    BY DEF Inv, Together, Holding, AnsweredHoldsNoSlot
  <1> QED
    BY <1>1, Invariance, PTL

-----------------------------------------------------------------------------
(***************************************************************************)
(* Every step of the limiter is a step of an admission control, or none.   *)
(***************************************************************************)
LEMMA SameCardinality == \A S : Limiter!Cardinality(S) = Cardinality(S)
  BY DEF Limiter!Cardinality, Cardinality

LEMMA StepRefines ==
  ASSUME Inv, [Next]_vars
  PROVE  [Limiter!Next]_(Limiter!vars)
  <1> USE DEF Inv
  <1>a. Limiter!vars = <<Holding, Refused>>
    BY DEF Limiter!vars
  <1>1. CASE UNCHANGED vars
    <2>1. Holding' = Holding
      BY <1>1 DEF vars, Holding
    <2>2. Refused' = Refused
      BY <1>1 DEF vars, Refused
    <2> QED
      BY <2>1, <2>2 DEF Limiter!vars
  <1>2. ASSUME NEW c \in Calls, RunAdmitted(c)
        PROVE  Limiter!Admit(c)
    <2>1. c \notin Holding /\ Holding' = Holding \cup {c}
      BY <1>2, AdmissionAddsOne
    <2>2. c \notin Refused /\ Refused' = Refused
      BY <1>2 DEF RunAdmitted, Answer, Refused, Types
    <2>3. Cardinality(Holding) < Capacity
      BY <1>2, HoldingIsFinite, CapacityAssumption DEF RunAdmitted, SlotAccount, Types
    <2> QED
      BY <2>1, <2>2, <2>3, SameCardinality DEF Limiter!Admit
  <1>3. ASSUME NEW c \in Calls, RunRefused(c)
        PROVE  Limiter!Refuse(c)
    <2>1. c \notin Holding /\ Holding' = Holding
      BY <1>3 DEF RunRefused, Holding, Together
    <2>2. c \notin Refused /\ Refused' = Refused \cup {c}
      BY <1>3 DEF RunRefused, Answer, Refused, Types
    <2>3. Cardinality(Holding) = Capacity
      BY <1>3, HoldingIsFinite, CapacityAssumption DEF RunRefused, SlotAccount, Types
    <2> QED
      BY <2>1, <2>2, <2>3, SameCardinality DEF Limiter!Refuse
  <1>4. ASSUME NEW c \in Calls, Finish(c)
        PROVE  Limiter!Leave(c)
    <2>1. c \in Holding /\ Holding' = Holding \ {c}
      BY <1>4, FinishRemovesOne
    <2>2. Refused' = Refused
      BY <1>4 DEF Finish, Refused
    <2> QED
      BY <2>1, <2>2 DEF Limiter!Leave
  <1>5. ASSUME NEW c \in Calls, Other(c), ~RunRefused(c)
        PROVE  UNCHANGED <<Holding, Refused>>
    <2>1. Holding' = Holding
      BY <1>5, OthersKeepHolding
    <2> SUFFICES Refused' = Refused
      BY <2>1
    <2>2. CASE Resume(c)
      <3>1. outcome[c] # "busy" /\ caller[c] # "busy"
        BY <2>2 DEF Resume, Types, Outcomes
      <3> QED
        BY <2>2, <3>1 DEF Resume, Answer, Refused, Types
    <2>3. CASE RunLate(c)
      BY <2>3 DEF RunLate, Answer, Refused, Types
    <2>4. CASE TimeOut(c) \/ Cancel(c)
      BY <2>4 DEF TimeOut, Cancel, Answer, Refused, Types
    <2>5. CASE Thread(c) \/ Disconnect(c) \/ Expire(c)
      BY <2>5 DEF Thread, ThreadStart, ThreadStopped, ThreadReturns, Exit,
                  Disconnect, Expire, Refused
    <2> QED
      BY <1>5, <2>2, <2>3, <2>4, <2>5 DEF Other
  <1>6. UNCHANGED <<Holding, Refused>> => UNCHANGED Limiter!vars
    BY DEF Limiter!vars
  <1> QED
    BY <1>1, <1>2, <1>3, <1>4, <1>5, <1>6 DEF Next, Run, Loop, Other, Limiter!Next

(***************************************************************************)
(* The limiter is an admission control: never more than Capacity live      *)
(* calculations, and no refusal while fewer are live.                      *)
(***************************************************************************)
THEOREM Refinement == Spec => IsAdmissionControl
  <1>1. Init => Limiter!Init
    BY DEF Init, Limiter!Init, Holding, Refused
  <1>2. Inv /\ [Next]_vars => [Limiter!Next]_(Limiter!vars)
    BY StepRefines
  <1> QED
    BY <1>1, <1>2, Invariance, PTL DEF Spec, IsAdmissionControl, Limiter!Spec
=============================================================================
