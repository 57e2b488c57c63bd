-------------------------- MODULE VoiceQuotaProofs --------------------------
(***************************************************************************)
(* Safety of the voice sessions for every number of requests, every limit  *)
(* and every length of a day.                                              *)
(*                                                                         *)
(* Types hold for any number of server processes.  The quota, the charges  *)
(* and the cooldown hold for one process: there what a method has read is  *)
(* still true when it writes (Fresh), because no other method runs in      *)
(* between; with a second process that is false, and so is the quota.      *)
(***************************************************************************)
EXTENDS VoiceQuota, TLAPS

Starting(p) == op[p].method \in {"validate", "register"}

(* The steps a method may be at, and the requests it may be for.           *)
CallOK(p) ==
  /\ op[p].method = "status" => op[p].step \in {"sweep", "expire"}
  /\ op[p].method = "validate" =>
       op[p].step \in {"sweep", "expire", "cooldown", "find", "release", "usage"}
  /\ op[p].method = "register" =>
       op[p].step \in {"sweep", "expire", "cooldown", "usage", "store"}
  /\ op[p].method = "end" => op[p].step \in {"sweep", "expire", "find", "close"}
  /\ op[p].method \notin {"none", "status"} => op[p].request \in Requests
  /\ op[p].method = "validate" => stage[op[p].request] = "new"
  /\ op[p].method = "register" => stage[op[p].request] = "validated"
  /\ op[p].method = "end" => stage[op[p].request] = "live"

(* Rows that a method charges name a session.                              *)
RowOK(p) ==
  op[p].method # "none" =>
    /\ op[p].step \in {"expire", "release"} => op[p].row.session \in Requests
    /\ op[p].step = "close" /\ op[p].row.open => op[p].row.session \in Requests

Exclusive ==
  \A p, q \in Processes :
    Starting(p) /\ Starting(q) /\ op[p].request = op[q].request => p = q

TypeInv == TypeOK /\ Exclusive /\ \A p \in Processes : CallOK(p) /\ RowOK(p)

----------------------------------------------------------------------------
(* Arithmetic on times *)

LEMMA MeasuredType ==
  ASSUME NEW row \in Row, NEW at \in Clock
  PROVE  /\ Measured(row, at) \in Nat
         /\ Measured(row, at) <= Duration
         /\ at >= row.created => Measured(row, at) <= at - row.created
         /\ at < row.created => Measured(row, at) = 0
  BY VoiceAssumption DEF Measured, Least, Elapsed, Row, Clock

LEMMA ReconciledType ==
  ASSUME NEW row \in Row, NEW at \in Clock, NEW report \in 0 .. Duration
  PROVE  /\ Reconciled(row, at, report) \in Nat
         /\ Reconciled(row, at, report) <= Measured(row, at)
  BY MeasuredType, VoiceAssumption DEF Reconciled, Least

----------------------------------------------------------------------------
(* Types *)

LEMMA TypeInit == Init => TypeInv
  BY VoiceAssumption
     DEF Init, TypeInv, TypeOK, Exclusive, Starting, CallOK, RowOK, NoRow, Idle,
         Row, Call, Clock, Stages, Methods, Steps

LEMMA CallFields ==
  ASSUME TypeOK, NEW p \in Processes
  PROVE  /\ op[p].method \in Methods
         /\ op[p].request \in Requests \union {NoRequest}
         /\ op[p].at \in Clock
         /\ op[p].report \in 0 .. Duration
         /\ op[p].step \in Steps
         /\ op[p].row \in Row
  BY DEF TypeOK, Call

(* A charge keeps seconds and charged natural.                             *)
LEMMA ChargeType ==
  ASSUME TypeOK, NEW s \in Requests, NEW n \in Nat, Charge(s, n)
  PROVE  seconds' \in Nat /\ charged' \in [Requests -> Nat]
  BY DEF TypeOK, Charge

(* What a step of process p does to the calls: only its own changes, to a  *)
(* call that is right in the next state.                                   *)
OwnCall(p) ==
  /\ op' \in [Processes -> Call]
  /\ \A q \in Processes \ {p} : op'[q] = op[q]
  /\ CallOK(p)' /\ RowOK(p)'

(* Where the stage of a request changes, it is one that p is starting.     *)
OwnStage(p) ==
  /\ stage' \in [Requests -> Stages]
  /\ \A r \in Requests : stage'[r] # stage[r] => Starting(p) /\ op[p].request = r
  /\ Starting(p)' => Starting(p) /\ op'[p].request = op[p].request

LEMMA CallsStep ==
  ASSUME TypeInv, NEW p \in Processes, OwnCall(p), OwnStage(p)
  PROVE  Exclusive' /\ \A q \in Processes : CallOK(q)' /\ RowOK(q)'
  <1>1. Exclusive'
    BY DEF TypeInv, Exclusive, OwnCall, OwnStage, Starting
  <1>2. ASSUME NEW q \in Processes, q # p
        PROVE  CallOK(q)' /\ RowOK(q)'
    <2>1. op'[q] = op[q]
      BY <1>2 DEF OwnCall
    <2>2. RowOK(q)'
      BY <2>1 DEF TypeInv, RowOK
    <2>3. ASSUME op[q].method \notin {"none", "status"}
          PROVE  stage'[op[q].request] = stage[op[q].request]
      <3>1. op[q].request \in Requests
        BY <2>3 DEF TypeInv, CallOK
      <3>2. CASE Starting(q)
        BY <1>2, <3>1, <3>2 DEF TypeInv, Exclusive, OwnStage
      <3>3. CASE ~Starting(q)
        <4>1. stage[op[q].request] = "live"
          BY <2>3, <3>3, CallFields DEF TypeInv, CallOK, Starting, Methods
        <4>2. ~(Starting(p) /\ op[p].request = op[q].request)
          BY <4>1 DEF TypeInv, CallOK, Starting
        <4> QED
          BY <3>1, <4>2 DEF OwnStage
      <3> QED
        BY <3>2, <3>3
    <2> QED
      BY <2>1, <2>2, <2>3 DEF TypeInv, CallOK
  <1> QED
    BY <1>1, <1>2 DEF OwnCall

(* The database and the histories stay within their types.                 *)
DatabaseOK ==
  /\ now' \in Clock /\ active' \in Row /\ lastStart' \in Clock
  /\ count' \in Nat /\ seconds' \in Nat
  /\ home' \in [Requests -> Processes]
  /\ started' \in [Requests -> Clock] /\ charged' \in [Requests -> Nat]
  /\ active'.open => active'.session # NoRequest /\ stage'[active'.session] = "live"

LEMMA Assembled ==
  ASSUME TypeInv, NEW p \in Processes, OwnCall(p), OwnStage(p), DatabaseOK
  PROVE  TypeInv'
  BY CallsStep DEF TypeInv, TypeOK, OwnCall, OwnStage, DatabaseOK

(* A live session stays live while p changes the stage of what it starts.  *)
LEMMA LiveStays ==
  ASSUME TypeInv, NEW p \in Processes, OwnStage(p), NEW r \in Requests, stage[r] = "live"
  PROVE  stage'[r] = "live"
  BY DEF TypeInv, CallOK, Starting, OwnStage

LEMMA OpenIsLive ==
  ASSUME TypeOK, active.open
  PROVE  active.session \in Requests /\ stage[active.session] = "live"
  BY DEF TypeOK, Row

(* Closing a row keeps the database right.                                 *)
LEMMA ClosedRow ==
  ASSUME TypeOK
  PROVE  [active EXCEPT !.open = FALSE] \in Row
         /\ [active EXCEPT !.open = FALSE].open = FALSE
  BY DEF TypeOK, Row

LEMMA CloseIfStillOK ==
  ASSUME TypeOK, NEW s, CloseIfStill(s)
  PROVE  active' \in Row /\ (active'.open => active' = active)
  BY ClosedRow DEF TypeOK, CloseIfStill

(* A call that only moves to another step keeps its other fields.          *)
LEMMA GotoFields ==
  ASSUME TypeOK, NEW p \in Processes, NEW s \in Steps, Goto(p, s)
  PROVE  /\ op' \in [Processes -> Call]
         /\ \A q \in Processes \ {p} : op'[q] = op[q]
         /\ op'[p] = [op[p] EXCEPT !.step = s]
         /\ op'[p].step = s
         /\ op'[p].method = op[p].method
         /\ op'[p].request = op[p].request
         /\ op'[p].row = op[p].row
         /\ op'[p].at = op[p].at
  <1>1. op' = [op EXCEPT ![p] = [@ EXCEPT !.step = s]]
    BY DEF Goto
  <1>2. [op[p] EXCEPT !.step = s] \in Call
    BY CallFields DEF TypeOK, Call
  <1>3. op[p] \in Call
    BY DEF TypeOK
  <1> QED
    BY <1>1, <1>2, <1>3 DEF TypeOK, Call

LEMMA ReturnFields ==
  ASSUME TypeOK, NEW p \in Processes, Return(p)
  PROVE  /\ op' \in [Processes -> Call]
         /\ \A q \in Processes \ {p} : op'[q] = op[q]
         /\ op'[p] = Idle
  BY VoiceAssumption
     DEF Return, TypeOK, Idle, NoRow, Row, Call, Clock, Methods, Steps

(* Resume moves to a step of the method in hand, or returns.               *)
LEMMA ResumeOK ==
  ASSUME TypeInv, NEW p \in Processes, op[p].method # "none", Resume(p), UNCHANGED stage
  PROVE  OwnCall(p) /\ OwnStage(p)
  <1> USE DEF TypeInv
  <1>0. stage' \in [Requests -> Stages] /\ stage' = stage
    BY DEF TypeOK
  <1>1. CASE op[p].method = "status"
    <2>1. Return(p)
      BY <1>1 DEF Resume
    <2> QED
      BY <1>0, <2>1, ReturnFields DEF OwnCall, OwnStage, Starting, CallOK, RowOK, Idle
  <1>2. CASE op[p].method = "end"
    <2>1. Goto(p, "find")
      BY <1>2 DEF Resume
    <2>2. "find" \in Steps
      BY DEF Steps
    <2> QED
      BY <1>0, <1>2, <2>1, <2>2, GotoFields DEF OwnCall, OwnStage, Starting, CallOK, RowOK
  <1>3. CASE op[p].method \in {"validate", "register"}
    <2>1. Goto(p, "cooldown")
      BY <1>3 DEF Resume
    <2>2. "cooldown" \in Steps
      BY DEF Steps
    <2> QED
      BY <1>0, <1>3, <2>1, <2>2, GotoFields DEF OwnCall, OwnStage, Starting, CallOK, RowOK
  <1> QED
    BY <1>1, <1>2, <1>3, CallFields DEF Methods

(* Answer sets the stage of the request in hand and returns.               *)
LEMMA AnswerOK ==
  ASSUME TypeInv, NEW p \in Processes, Starting(p), NEW s \in Stages, Answer(p, s)
  PROVE  OwnCall(p) /\ OwnStage(p) /\ stage'[op[p].request] = s
  <1>1. op[p].request \in Requests
    BY DEF TypeInv, CallOK, Starting
  <1>2. op'[p] = Idle /\ op' \in [Processes -> Call] /\ \A q \in Processes \ {p} : op'[q] = op[q]
    BY ReturnFields DEF Answer, TypeInv
  <1>3. OwnCall(p)
    BY <1>2 DEF OwnCall, CallOK, RowOK, Idle
  <1>4. OwnStage(p)
    BY <1>1, <1>2 DEF OwnStage, Answer, TypeInv, TypeOK, Starting, Idle
  <1> QED
    BY <1>1, <1>3, <1>4 DEF Answer, TypeInv, TypeOK

----------------------------------------------------------------------------
(* Each action keeps the types *)

LEMMA SweepType ==
  ASSUME TypeInv, NEW p \in Processes, Sweep(p)
  PROVE  TypeInv'
  <1> USE DEF TypeInv
  <1>1. DatabaseOK
    BY DEF Sweep, database, DatabaseOK, TypeOK
  <1>2. CASE Resume(p)
    BY <1>1, <1>2, ResumeOK, Assembled DEF Sweep, At
  <1>3. CASE /\ Overdue(active, op[p].at)
             /\ op' = [op EXCEPT ![p].step = "expire", ![p].row = active]
    <2>1. active.session \in Requests
      BY <1>3, OpenIsLive DEF Overdue
    <2>2. /\ op' \in [Processes -> Call]
          /\ \A q \in Processes \ {p} : op'[q] = op[q]
          /\ op'[p].step = "expire" /\ op'[p].row = active
          /\ op'[p].method = op[p].method /\ op'[p].request = op[p].request
      BY <1>3, CallFields DEF TypeOK, Call, Steps
    <2>3. stage' = stage /\ stage' \in [Requests -> Stages]
      BY DEF Sweep, TypeOK
    <2>4. OwnCall(p)
      BY <2>1, <2>2, <2>3 DEF OwnCall, CallOK, RowOK
    <2>5. OwnStage(p)
      BY <2>2, <2>3 DEF OwnStage, Starting
    <2> QED
      BY <1>1, <2>4, <2>5, Assembled
  <1> QED
    BY <1>2, <1>3 DEF Sweep

LEMMA ExpireType ==
  ASSUME TypeInv, NEW p \in Processes, Expire(p)
  PROVE  TypeInv'
  <1> USE DEF TypeInv
  <1>1. OwnCall(p) /\ OwnStage(p)
    BY ResumeOK DEF Expire, At
  <1>2. op[p].row \in Row /\ op[p].at \in Clock /\ op[p].row.session \in Requests
    BY CallFields DEF Expire, At, RowOK
  <1>3. seconds' \in Nat /\ charged' \in [Requests -> Nat]
    BY <1>2, MeasuredType, ChargeType DEF Expire
  <1>4. active' \in Row /\ (active'.open => active' = active)
    BY CloseIfStillOK DEF Expire
  <1>5. DatabaseOK
    BY <1>3, <1>4 DEF Expire, DatabaseOK, TypeOK
  <1> QED
    BY <1>1, <1>5, Assembled

LEMMA CheckCooldownType ==
  ASSUME TypeInv, NEW p \in Processes, CheckCooldown(p)
  PROVE  TypeInv'
  <1> USE DEF TypeInv
  <1>1. Starting(p)
    BY CallFields DEF CheckCooldown, At, Starting, CallOK, Methods
  <1>2. CASE Answer(p, "refused")
    <2>1. OwnCall(p) /\ OwnStage(p)
      BY <1>1, <1>2, AnswerOK DEF Stages
    <2>2. DatabaseOK
      BY <2>1, LiveStays, OpenIsLive DEF CheckCooldown, database, DatabaseOK, TypeOK
    <2> QED
      BY <2>1, <2>2, Assembled
  <1>3. CASE /\ Goto(p, IF op[p].method = "validate" THEN "find" ELSE "usage")
             /\ UNCHANGED stage
    <2> DEFINE next == IF op[p].method = "validate" THEN "find" ELSE "usage"
    <2>0. next \in Steps /\ stage' \in [Requests -> Stages] /\ stage' = stage
      BY <1>3 DEF Steps, TypeOK
    <2>a. /\ op' \in [Processes -> Call]
          /\ \A q \in Processes \ {p} : op'[q] = op[q]
          /\ op'[p].step = next
          /\ op'[p].method = op[p].method /\ op'[p].request = op[p].request
      BY <1>3, <2>0, GotoFields
    <2>1. OwnCall(p) /\ OwnStage(p)
      BY <1>1, <2>0, <2>a DEF OwnCall, OwnStage, Starting, CallOK, RowOK
    <2>2. DatabaseOK
      BY <1>3 DEF CheckCooldown, database, DatabaseOK, TypeOK
    <2> QED
      BY <2>1, <2>2, Assembled
  <1> QED
    BY <1>2, <1>3 DEF CheckCooldown

LEMMA CheckUsageType ==
  ASSUME TypeInv, NEW p \in Processes, CheckUsage(p)
  PROVE  TypeInv'
  <1> USE DEF TypeInv
  <1>1. Starting(p)
    BY CallFields DEF CheckUsage, At, Starting, CallOK, Methods
  <1>2. ASSUME NEW s \in {"refused", "validated"}, Answer(p, s)
        PROVE  TypeInv'
    <2>1. OwnCall(p) /\ OwnStage(p)
      BY <1>1, <1>2, AnswerOK DEF Stages
    <2>2. DatabaseOK
      BY <2>1, LiveStays, OpenIsLive DEF CheckUsage, database, DatabaseOK, TypeOK
    <2> QED
      BY <2>1, <2>2, Assembled
  <1>3. CASE op[p].method = "register" /\ Goto(p, "store") /\ UNCHANGED stage
    <2>0. "store" \in Steps /\ stage' \in [Requests -> Stages] /\ stage' = stage
      BY <1>3 DEF Steps, TypeOK
    <2>a. /\ op' \in [Processes -> Call]
          /\ \A q \in Processes \ {p} : op'[q] = op[q]
          /\ op'[p].step = "store"
          /\ op'[p].method = op[p].method /\ op'[p].request = op[p].request
      BY <1>3, <2>0, GotoFields
    <2>1. OwnCall(p) /\ OwnStage(p)
      BY <1>3, <2>0, <2>a DEF OwnCall, OwnStage, Starting, CallOK, RowOK
    <2>2. DatabaseOK
      BY <1>3 DEF CheckUsage, database, DatabaseOK, TypeOK
    <2> QED
      BY <2>1, <2>2, Assembled
  <1> QED
    BY <1>2, <1>3 DEF CheckUsage

LEMMA FindType ==
  ASSUME TypeInv, NEW p \in Processes, Find(p)
  PROVE  TypeInv'
  <1> USE DEF TypeInv
  <1> DEFINE next == IF op[p].method = "end" THEN "close"
                     ELSE IF active.open THEN "release" ELSE "usage"
  <1>1. /\ op' \in [Processes -> Call]
        /\ \A q \in Processes \ {p} : op'[q] = op[q]
        /\ op'[p].step = next /\ op'[p].row = active
        /\ op'[p].method = op[p].method /\ op'[p].request = op[p].request
    <2>1. next \in Steps /\ active \in Row /\ op[p] \in Call
      BY DEF Steps, TypeOK
    <2>2. [op[p] EXCEPT !.row = active, !.step = next] \in Call
      BY <2>1 DEF Call
    <2>3. op' = [op EXCEPT ![p] = [@ EXCEPT !.row = active, !.step = next]]
      BY DEF Find
    <2> QED
      BY <2>1, <2>2, <2>3 DEF TypeOK, Call
  <1>2. op[p].method \in {"validate", "end"}
    BY CallFields DEF Find, At, CallOK, Methods
  <1>3. stage' = stage /\ stage' \in [Requests -> Stages]
    BY DEF Find, TypeOK
  <1>4. OwnCall(p)
    BY <1>1, <1>2, <1>3, OpenIsLive DEF OwnCall, CallOK, RowOK
  <1>5. OwnStage(p)
    BY <1>1, <1>3 DEF OwnStage, Starting
  <1>6. DatabaseOK
    BY DEF Find, database, DatabaseOK, TypeOK
  <1> QED
    BY <1>4, <1>5, <1>6, Assembled

LEMMA ReleaseType ==
  ASSUME TypeInv, NEW p \in Processes, Release(p)
  PROVE  TypeInv'
  <1> USE DEF TypeInv
  <1>1. op[p].method = "validate"
    BY CallFields DEF Release, At, CallOK, Methods
  <1>0. "usage" \in Steps /\ stage' \in [Requests -> Stages] /\ stage' = stage
    BY DEF Release, Steps, TypeOK
  <1>a. /\ op' \in [Processes -> Call]
        /\ \A q \in Processes \ {p} : op'[q] = op[q]
        /\ op'[p].step = "usage"
        /\ op'[p].method = op[p].method /\ op'[p].request = op[p].request
    BY <1>0, GotoFields DEF Release
  <1>2. OwnCall(p) /\ OwnStage(p)
    BY <1>0, <1>1, <1>a DEF OwnCall, OwnStage, Starting, CallOK, RowOK
  <1>3. op[p].row \in Row /\ op[p].at \in Clock /\ op[p].row.session \in Requests
    BY CallFields DEF Release, At, RowOK
  <1>4. seconds' \in Nat /\ charged' \in [Requests -> Nat]
    BY <1>3, MeasuredType, ChargeType DEF Release
  <1>5. DatabaseOK
    BY <1>4, ClosedRow DEF Release, DatabaseOK, TypeOK
  <1> QED
    BY <1>2, <1>5, Assembled

LEMMA StoreType ==
  ASSUME TypeInv, NEW p \in Processes, Store(p)
  PROVE  TypeInv'
  <1> USE DEF TypeInv
  <1> DEFINE r == op[p].request
  <1>1. Starting(p) /\ r \in Requests
    BY CallFields DEF Store, At, Starting, CallOK, Methods
  <1>2. OwnCall(p) /\ OwnStage(p) /\ stage'[r] = "live"
    BY <1>1, AnswerOK DEF Store, Stages
  <1>3. active' \in Row /\ active'.session = r
    BY <1>1, CallFields DEF Store, Row
  <1>4. r # NoRequest
    BY <1>1, VoiceAssumption
  <1>5. started' \in [Requests -> Clock] /\ lastStart' \in Clock
    BY <1>1, CallFields DEF Store, TypeOK
  <1>6. DatabaseOK
    BY <1>2, <1>3, <1>4, <1>5 DEF Store, DatabaseOK, TypeOK
  <1> QED
    BY <1>2, <1>6, Assembled

LEMMA CloseType ==
  ASSUME TypeInv, NEW p \in Processes, Close(p)
  PROVE  TypeInv'
  <1> USE DEF TypeInv
  <1> DEFINE row == op[p].row
             mine == row.open /\ row.session = op[p].request
  <1>1. stage' = stage /\ stage' \in [Requests -> Stages] /\ Return(p)
    BY DEF Close, TypeOK
  <1>2. OwnCall(p) /\ OwnStage(p)
    BY <1>1, ReturnFields DEF OwnCall, OwnStage, Starting, CallOK, RowOK, Idle
  <1>3. row \in Row /\ op[p].at \in Clock /\ op[p].report \in 0 .. Duration
    BY CallFields
  <1>4. seconds' \in Nat /\ charged' \in [Requests -> Nat]
    <2>1. CASE mine
      <3>1. row.session \in Requests
        BY <2>1 DEF Close, At, RowOK
      <3>2. Charge(row.session, Reconciled(row, op[p].at, op[p].report))
        BY <2>1 DEF Close
      <3> QED
        BY <1>3, <3>1, <3>2, ReconciledType, ChargeType
    <2>2. CASE ~mine
      BY <2>2 DEF Close, TypeOK
    <2> QED
      BY <2>1, <2>2
  <1>5. active' \in Row /\ (active'.open => active' = active)
    BY CloseIfStillOK DEF Close
  <1>6. DatabaseOK
    BY <1>1, <1>4, <1>5 DEF Close, DatabaseOK, TypeOK
  <1> QED
    BY <1>2, <1>6, Assembled

(* Entering a method: the request must be one no process is starting.      *)
LEMMA EnterType ==
  ASSUME TypeInv, NEW p \in Processes, NEW m \in Methods \ {"none"},
         NEW r \in Requests \union {NoRequest}, NEW n \in 0 .. Duration,
         Enter(p, m, r, n), UNCHANGED <<now, database, home, stage, started, charged>>,
         m # "status" => r \in Requests,
         m = "validate" => stage[r] = "new",
         m = "register" => stage[r] = "validated",
         m = "end" => stage[r] = "live",
         m \in {"validate", "register"} => \A q \in Processes : op[q].request # r
  PROVE  TypeInv'
  <1> USE DEF TypeInv
  <1> DEFINE call == [method |-> m, request |-> r, at |-> now,
                      report |-> n, step |-> "sweep", row |-> NoRow]
  <1>1. call \in Call
    BY VoiceAssumption DEF Call, TypeOK, Methods, Steps, NoRow, Row, Clock
  <1>2. op' = [op EXCEPT ![p] = call]
    BY DEF Enter
  <1>3. /\ op' \in [Processes -> Call]
        /\ \A q \in Processes \ {p} : op'[q] = op[q]
        /\ op'[p] = call
    BY <1>1, <1>2 DEF TypeOK
  <1>4. TypeOK'
    BY <1>3 DEF TypeOK, database
  <1>5. CallOK(p)' /\ RowOK(p)'
    BY <1>3 DEF CallOK, RowOK
  <1>6. \A q \in Processes \ {p} : CallOK(q)' /\ RowOK(q)'
    BY <1>3 DEF CallOK, RowOK
  <1>7. Exclusive'
    BY <1>3 DEF Exclusive, Starting
  <1> QED
    BY <1>4, <1>5, <1>6, <1>7

LEMMA NextType == TypeInv /\ [Next]_vars => TypeInv'
  <1> SUFFICES ASSUME TypeInv, [Next]_vars PROVE TypeInv'
    OBVIOUS
  <1> USE DEF TypeInv
  <1>1. CASE UNCHANGED vars
    BY <1>1 DEF vars, TypeOK, Exclusive, Starting, CallOK, RowOK
  <1>2. ASSUME NEW p \in Processes, Method(p)
        PROVE  TypeInv'
    BY <1>2, SweepType, ExpireType, CheckCooldownType, CheckUsageType, FindType,
       ReleaseType, StoreType, CloseType DEF Method
  <1>3. ASSUME NEW p \in Processes, Status(p)
        PROVE  TypeInv'
    BY <1>3, EnterType, VoiceAssumption DEF Status, Methods
  <1>4. ASSUME NEW p \in Processes, Touch(p)
        PROVE  TypeInv'
    <2>1. active' \in Row /\ active'.session = active.session /\ active'.open = active.open
      BY <1>4 DEF Touch, TypeOK, Row
    <2> QED
      BY <1>4, <2>1 DEF Touch, TypeOK, Exclusive, Starting, CallOK, RowOK
  <1>5. ASSUME NEW r \in Requests, Validate(r)
        PROVE  TypeInv'
    <2>1. home[r] \in Processes
      BY DEF TypeOK
    <2> QED
      BY <1>5, <2>1, EnterType, VoiceAssumption DEF Validate, Methods
  <1>6. ASSUME NEW r \in Requests, Register(r)
        PROVE  TypeInv'
    <2>1. home[r] \in Processes
      BY DEF TypeOK
    <2> QED
      BY <1>6, <2>1, EnterType, VoiceAssumption DEF Register, Methods
  <1>7. ASSUME NEW r \in Requests, ProviderFails(r)
        PROVE  TypeInv'
    <2>1. stage' \in [Requests -> Stages] /\ \A s \in Requests \ {r} : stage'[s] = stage[s]
      BY <1>7 DEF ProviderFails, TypeOK, Stages
    <2>2. active.open => active.session \in Requests \ {r}
      BY <1>7, OpenIsLive DEF ProviderFails
    <2>3. TypeOK'
      BY <1>7, <2>1, <2>2 DEF ProviderFails, database, TypeOK
    <2>4. \A p \in Processes : op[p].method \notin {"none", "status"} =>
            stage'[op[p].request] = stage[op[p].request]
      BY <1>7, <2>1 DEF ProviderFails, CallOK
    <2> QED
      BY <1>7, <2>3, <2>4 DEF ProviderFails, Exclusive, Starting, CallOK, RowOK
  <1>8. ASSUME NEW p \in Processes, NEW r \in Requests, EndSession(p, r)
        PROVE  TypeInv'
    <2>1. PICK n \in 0 .. Duration : Enter(p, "end", r, n)
      BY <1>8 DEF EndSession
    <2> QED
      BY <1>8, <2>1, EnterType DEF EndSession, Methods
  <1>9. CASE Tick
    <2>1. now' \in Clock
      BY <1>9, VoiceAssumption DEF Tick, TypeOK, Clock
    <2> QED
      BY <1>9, <2>1 DEF Tick, database, TypeOK, Exclusive, Starting, CallOK, RowOK
  <1> QED
    BY <1>1, <1>2, <1>3, <1>4, <1>5, <1>6, <1>7, <1>8, <1>9 DEF Next

(***************************************************************************)
(* Type correctness, for any number of processes: whatever two of them do  *)
(* to each other's rows, an open row names a session that was registered.  *)
(***************************************************************************)
THEOREM TypeCorrect == Spec => []TypeOK
  <1>1. TypeInv => TypeOK
    BY DEF TypeInv
  <1> QED
    BY <1>1, TypeInit, NextType, PTL DEF Spec

----------------------------------------------------------------------------
(* One process: the quota, the charges and the cooldown *)

OneProcess == \E p : Processes = {p}

(* What the method in hand has read is still so.                           *)
Fresh(p) ==
  op[p].method # "none" =>
    /\ op[p].at <= now
    /\ op[p].step \in {"expire", "release"} => active.open /\ op[p].row = active
    /\ op[p].step = "close" => op[p].row = active
    /\ op[p].step = "usage" /\ op[p].method = "register" => CooldownPassed(op[p].at)
    /\ op[p].step = "store" => UsageLeft /\ CooldownPassed(op[p].at)

ChargesOK ==
  /\ \A r \in Requests : stage[r] # "live" => charged[r] = 0
  /\ \A r \in Requests : started[r] <= now /\ charged[r] <= Least(now - started[r], Duration)
  /\ active.open => /\ seconds < MaxSeconds
                    /\ started[active.session] = active.created
                    /\ charged[active.session] = 0
  /\ seconds < MaxSeconds + Duration

StartsOK ==
  /\ count <= MaxSessions
  /\ \A r \in Requests : stage[r] = "live" => started[r] <= lastStart
  /\ StartsAreSpaced

QuotaInv == TypeInv /\ ChargesOK /\ StartsOK /\ \A p \in Processes : Fresh(p)

LEMMA QuotaInit == Init => QuotaInv
  <1> SUFFICES ASSUME Init PROVE QuotaInv
    OBVIOUS
  <1>1. TypeInv
    BY TypeInit
  <1>2. ChargesOK
    BY VoiceAssumption DEF Init, ChargesOK, Least, NoRow
  <1>3. StartsOK
    BY VoiceAssumption DEF Init, StartsOK, StartsAreSpaced
  <1>4. \A p \in Processes : Fresh(p)
    BY DEF Init, Fresh, Idle
  <1> QED
    BY <1>1, <1>2, <1>3, <1>4 DEF QuotaInv

(* A session is charged once, when it is closed, for what it lasted.       *)
LEMMA Settled ==
  ASSUME QuotaInv, active.open, NEW at \in Clock, at <= now,
         NEW n \in Nat, n <= Measured(active, at), Charge(active.session, n),
         active' = [active EXCEPT !.open = FALSE],
         UNCHANGED <<now, stage, started>>
  PROVE  ChargesOK'
  <1> USE DEF QuotaInv, TypeInv
  <1> DEFINE s == active.session
  <1>1. s \in Requests /\ stage[s] = "live"
    BY OpenIsLive
  <1>2. active \in Row /\ active'.open = FALSE
    BY ClosedRow DEF TypeOK
  <1>3. /\ n <= Duration
        /\ n <= now - started[s]
    <2>1. started[s] = active.created /\ active.created \in Nat /\ started[s] <= now
      BY <1>1, <1>2 DEF ChargesOK, Row, Clock
    <2>2. now \in Nat /\ at \in Nat
      BY DEF TypeOK, Clock
    <2>3. Measured(active, at) \in Nat /\ Measured(active, at) <= Duration
      BY <1>2, MeasuredType
    <2>4. CASE at >= active.created
      <3>1. Measured(active, at) <= at - active.created
        BY <1>2, <2>4, MeasuredType
      <3> QED
        BY <2>1, <2>2, <2>3, <2>4, <3>1, VoiceAssumption
    <2>5. CASE at < active.created
      <3>1. Measured(active, at) = 0
        BY <1>2, <2>5, MeasuredType
      <3> QED
        BY <2>1, <2>2, <2>3, <3>1, VoiceAssumption
    <2> QED
      BY <2>1, <2>2, <2>4, <2>5
  <1>4. /\ charged'[s] = n
        /\ \A r \in Requests \ {s} : charged'[r] = charged[r]
        /\ seconds' = seconds + n
    BY <1>1 DEF Charge, ChargesOK, TypeOK
  <1>5. \A r \in Requests : stage'[r] # "live" => charged'[r] = 0
    BY <1>1, <1>4 DEF ChargesOK
  <1>6. \A r \in Requests : started'[r] <= now' /\ charged'[r] <= Least(now' - started'[r], Duration)
    BY <1>1, <1>3, <1>4 DEF ChargesOK, Least
  <1>7. seconds' < MaxSeconds + Duration
    BY <1>3, <1>4, VoiceAssumption DEF ChargesOK, TypeOK
  <1> QED
    BY <1>2, <1>5, <1>6, <1>7 DEF ChargesOK

(* Steps that charge nothing and start nothing.                            *)
LEMMA Undisturbed ==
  ASSUME QuotaInv, UNCHANGED <<now, seconds, started, charged, active, lastStart, count>>,
         \A r \in Requests : stage'[r] = "live" <=> stage[r] = "live"
  PROVE  ChargesOK' /\ StartsOK'
  BY DEF QuotaInv, ChargesOK, StartsOK, StartsAreSpaced

(* The same for the starts, whatever is charged.                           *)
LEMMA StartsKept ==
  ASSUME QuotaInv, UNCHANGED <<started, stage, lastStart, count>>
  PROVE  StartsOK'
  BY DEF QuotaInv, StartsOK, StartsAreSpaced

LEMMA QuotaStore ==
  ASSUME QuotaInv, NEW p \in Processes, Store(p)
  PROVE  ChargesOK' /\ StartsOK'
  <1> USE DEF QuotaInv, TypeInv
  <1> DEFINE r == op[p].request
             at == op[p].at
  <1>1. Starting(p) /\ r \in Requests /\ stage[r] # "live"
    BY CallFields DEF Store, At, Starting, CallOK, Methods
  <1>2. UsageLeft /\ CooldownPassed(at) /\ at <= now
    BY DEF Store, At, Fresh
  <1>3. at \in Nat /\ now \in Nat /\ lastStart \in Nat
    BY CallFields DEF TypeOK, Clock
  <1>4. /\ started'[r] = at
        /\ \A s \in Requests \ {r} : started'[s] = started[s]
        /\ stage'[r] = "live"
        /\ \A s \in Requests \ {r} : stage'[s] = stage[s]
    BY <1>1 DEF Store, Answer, TypeOK
  <1>5. /\ active'.open /\ active'.session = r /\ active'.created = at
        /\ seconds' = seconds /\ charged' = charged /\ now' = now
        /\ lastStart' = at /\ count' = count + 1
    BY DEF Store
  <1>6. ChargesOK'
    <2>1. \A s \in Requests : stage'[s] # "live" => charged'[s] = 0
      BY <1>4, <1>5 DEF ChargesOK
    <2>2. charged[r] = 0
      BY <1>1 DEF ChargesOK
    <2>3. \A s \in Requests :
            started'[s] <= now' /\ charged'[s] <= Least(now' - started'[s], Duration)
      BY <1>1, <1>2, <1>3, <1>4, <1>5, <2>2, VoiceAssumption DEF ChargesOK, Least
    <2> QED
      BY <1>2, <1>4, <1>5, <2>1, <2>2, <2>3 DEF ChargesOK, UsageLeft
  <1>7. count' <= MaxSessions
    BY <1>2, <1>5, VoiceAssumption DEF UsageLeft, TypeOK
  <1>8. \A s \in Requests \ {r} : stage'[s] = "live" =>
          started'[s] + Cooldown <= at /\ started'[s] \in Nat
    BY <1>2, <1>3, <1>4, VoiceAssumption DEF CooldownPassed, StartsOK, TypeOK, Clock
  <1>9. \A s \in Requests : stage'[s] = "live" => started'[s] <= lastStart'
    BY <1>3, <1>4, <1>5, <1>8, VoiceAssumption
  <1>10. StartsAreSpaced'
    <2> SUFFICES ASSUME NEW s \in Requests, NEW t \in Requests, s # t,
                        stage'[s] = "live", stage'[t] = "live",
                        started'[s] <= started'[t]
                 PROVE  started'[s] + Cooldown <= started'[t]
      BY DEF StartsAreSpaced
    <2>1. CASE s # r /\ t # r
      BY <1>4, <2>1 DEF StartsOK, StartsAreSpaced
    <2>2. CASE t = r
      BY <1>4, <1>8, <2>2
    <2>3. CASE s = r
      BY <1>3, <1>4, <1>8, <2>3, VoiceAssumption
    <2> QED
      BY <2>1, <2>2, <2>3
  <1> QED
    BY <1>6, <1>7, <1>9, <1>10 DEF StartsOK

(* Every step keeps the charges and the starts right ...                   *)
LEMMA AccountsStep ==
  ASSUME QuotaInv, [Next]_vars
  PROVE  ChargesOK' /\ StartsOK'
  <1> USE DEF QuotaInv, TypeInv
  <1>1. CASE UNCHANGED vars
    BY <1>1, Undisturbed DEF vars
  <1>2. ASSUME NEW p \in Processes, Sweep(p) \/ Find(p) \/ Status(p)
        PROVE  ChargesOK' /\ StartsOK'
    BY <1>2, Undisturbed DEF Sweep, Find, Status, database
  <1>3. ASSUME NEW p \in Processes, CheckCooldown(p) \/ CheckUsage(p)
        PROVE  ChargesOK' /\ StartsOK'
    <2>1. op[p].request \in Requests /\ stage[op[p].request] # "live"
      BY <1>3, CallFields DEF CheckCooldown, CheckUsage, At, CallOK, Methods
    <2>2. \A r \in Requests : stage'[r] = "live" <=> stage[r] = "live"
      BY <1>3, <2>1 DEF CheckCooldown, CheckUsage, Answer, TypeOK
    <2> QED
      BY <1>3, <2>2, Undisturbed DEF CheckCooldown, CheckUsage, database
  <1>4. ASSUME NEW p \in Processes, Expire(p) \/ Release(p)
        PROVE  ChargesOK' /\ StartsOK'
    <2>1. active.open /\ op[p].row = active /\ op[p].at <= now
      BY <1>4 DEF Expire, Release, At, Fresh
    <2>2. op[p].at \in Clock /\ active \in Row
      BY CallFields DEF TypeOK
    <2>3. active' = [active EXCEPT !.open = FALSE]
      BY <1>4, <2>1 DEF Expire, Release, CloseIfStill
    <2>4. Charge(active.session, Measured(active, op[p].at))
      BY <1>4, <2>1 DEF Expire, Release
    <2>5. Measured(active, op[p].at) \in Nat
      BY <2>2, MeasuredType
    <2>6. UNCHANGED <<now, stage, started, lastStart, count>>
      BY <1>4 DEF Expire, Release
    <2>7. ChargesOK'
      BY <2>1, <2>2, <2>3, <2>4, <2>5, <2>6, Settled
    <2> QED
      BY <2>6, <2>7, StartsKept
  <1>5. ASSUME NEW p \in Processes, Store(p)
        PROVE  ChargesOK' /\ StartsOK'
    BY <1>5, QuotaStore
  <1>6. ASSUME NEW p \in Processes, Close(p)
        PROVE  ChargesOK' /\ StartsOK'
    <2>1. op[p].row = active /\ op[p].at <= now
      BY <1>6 DEF Close, At, Fresh
    <2>2. op[p].at \in Clock /\ op[p].report \in 0 .. Duration /\ active \in Row
      BY CallFields DEF TypeOK
    <2>3. UNCHANGED <<now, stage, started, lastStart, count>>
      BY <1>6 DEF Close
    <2>4. CASE active.open /\ active.session = op[p].request
      <3>1. active' = [active EXCEPT !.open = FALSE]
        BY <1>6, <2>4 DEF Close, CloseIfStill
      <3>2. Charge(active.session, Reconciled(active, op[p].at, op[p].report))
        BY <1>6, <2>1, <2>4 DEF Close
      <3>3. ChargesOK'
        BY <2>1, <2>2, <2>3, <2>4, <3>1, <3>2, ReconciledType, Settled
      <3> QED
        BY <2>3, <3>3, StartsKept
    <2>5. CASE ~(active.open /\ active.session = op[p].request)
      <3>1. UNCHANGED <<seconds, charged>>
        BY <1>6, <2>1, <2>5 DEF Close
      <3>2. active'.open => active' = active
        BY <1>6, CloseIfStillOK DEF Close
      <3>3. ChargesOK'
        BY <2>3, <3>1, <3>2 DEF ChargesOK
      <3> QED
        BY <2>3, <3>3, StartsKept
    <2> QED
      BY <2>4, <2>5
  <1>7. ASSUME NEW p \in Processes, Touch(p)
        PROVE  ChargesOK' /\ StartsOK'
    <2>1. /\ active'.session = active.session /\ active'.open = active.open
          /\ active'.created = active.created
      BY <1>7 DEF Touch, TypeOK, Row
    <2> QED
      BY <1>7, <2>1, StartsKept DEF Touch, ChargesOK
  <1>8. ASSUME NEW r \in Requests, Validate(r) \/ Register(r)
        PROVE  ChargesOK' /\ StartsOK'
    BY <1>8, Undisturbed DEF Validate, Register, database
  <1>9. ASSUME NEW r \in Requests, ProviderFails(r)
        PROVE  ChargesOK' /\ StartsOK'
    <2>1. \A s \in Requests : stage'[s] = "live" <=> stage[s] = "live"
      BY <1>9 DEF ProviderFails, TypeOK
    <2> QED
      BY <1>9, <2>1, Undisturbed DEF ProviderFails, database
  <1>10. ASSUME NEW p \in Processes, NEW r \in Requests, EndSession(p, r)
         PROVE  ChargesOK' /\ StartsOK'
    BY <1>10, Undisturbed DEF EndSession, database
  <1>11. CASE Tick
    <2>1. now \in Nat /\ now' = now + 1
      BY <1>11 DEF Tick, TypeOK, Clock
    <2>2. \A r \in Requests : started[r] \in Nat /\ charged[r] \in Nat
      BY DEF TypeOK, Clock
    <2>3. UNCHANGED <<seconds, started, charged, active, lastStart, count, stage>>
      BY <1>11 DEF Tick, database
    <2>4. \A r \in Requests :
            started'[r] <= now' /\ charged'[r] <= Least(now' - started'[r], Duration)
      BY <2>1, <2>2, <2>3, VoiceAssumption DEF ChargesOK, Least
    <2> QED
      BY <2>3, <2>4, StartsKept DEF ChargesOK
  <1> QED
    BY <1>1, <1>2, <1>3, <1>4, <1>5, <1>6, <1>7, <1>8, <1>9, <1>10, <1>11
       DEF Next, Method

(* ... and, with one process, what its method has read stays so.           *)
LEMMA FreshStep ==
  ASSUME OneProcess, QuotaInv, [Next]_vars
  PROVE  \A p \in Processes : Fresh(p)'
  <1> USE DEF QuotaInv, TypeInv
  <1> SUFFICES ASSUME NEW p \in Processes, Processes = {p}
               PROVE  Fresh(p)'
    BY DEF OneProcess
  <1>0. op[p].at \in Nat /\ now \in Nat
    BY CallFields DEF TypeOK, Clock
  <1>1. CASE UNCHANGED vars
    BY <1>1 DEF vars, Fresh, UsageLeft, CooldownPassed
  <1>2. CASE Sweep(p)
    <2>1. CASE Resume(p)
      <3>1. \/ op' = [op EXCEPT ![p] = Idle]
            \/ op' = [op EXCEPT ![p].step = "find"]
            \/ op' = [op EXCEPT ![p].step = "cooldown"]
        BY <2>1 DEF Resume, Return, Goto
      <3> QED
        BY <1>2, <3>1 DEF Sweep, At, Fresh, TypeOK, Call, Idle
    <2>2. CASE Overdue(active, op[p].at) /\
               op' = [op EXCEPT ![p].step = "expire", ![p].row = active]
      BY <1>2, <2>2 DEF Sweep, At, Fresh, TypeOK, Call, Overdue, database
    <2> QED
      BY <1>2, <2>1, <2>2 DEF Sweep
  <1>3. CASE Expire(p)
    <2>1. \/ op' = [op EXCEPT ![p] = Idle]
          \/ op' = [op EXCEPT ![p].step = "find"]
          \/ op' = [op EXCEPT ![p].step = "cooldown"]
      BY <1>3 DEF Expire, Resume, Return, Goto
    <2> QED
      BY <1>3, <2>1 DEF Expire, At, Fresh, TypeOK, Call, Idle
  <1>4. CASE CheckCooldown(p)
    <2>1. CASE op' = [op EXCEPT ![p] = Idle]
      BY <2>1 DEF Fresh, TypeOK, Idle
    <2>2. CASE CooldownPassed(op[p].at) /\
               \/ op' = [op EXCEPT ![p].step = "find"]
               \/ op' = [op EXCEPT ![p].step = "usage"]
      <3>1. op'[p].step \in {"find", "usage"} /\ op'[p].at = op[p].at
        BY <2>2 DEF TypeOK, Call
      <3>2. op[p].at <= now
        BY <1>4 DEF CheckCooldown, At, Fresh
      <3> QED
        BY <1>4, <2>2, <3>1, <3>2 DEF CheckCooldown, Fresh, CooldownPassed, database
    <2> QED
      BY <1>4, <2>1, <2>2 DEF CheckCooldown, Answer, Return, Goto
  <1>5. CASE CheckUsage(p)
    <2>1. CASE op' = [op EXCEPT ![p] = Idle]
      BY <2>1 DEF Fresh, TypeOK, Idle
    <2>2. CASE UsageLeft /\ op[p].method = "register" /\ op' = [op EXCEPT ![p].step = "store"]
      <3>1. op'[p].step = "store" /\ op'[p].at = op[p].at
        BY <2>2 DEF TypeOK, Call
      <3>2. CooldownPassed(op[p].at)
        BY <1>5, <2>2 DEF CheckUsage, At, Fresh
      <3> QED
        BY <1>5, <2>2, <3>1, <3>2
           DEF CheckUsage, At, Fresh, UsageLeft, CooldownPassed, database
    <2> QED
      BY <1>5, <2>1, <2>2 DEF CheckUsage, Answer, Return, Goto
  <1>6. CASE Find(p)
    <2>1. op'[p].row = active /\ op'[p].at = op[p].at /\ op'[p].method = op[p].method
      BY <1>6 DEF Find, TypeOK, Call
    <2>2. op'[p].step = IF op[p].method = "end" THEN "close"
                        ELSE IF active.open THEN "release" ELSE "usage"
      BY <1>6 DEF Find, TypeOK, Call
    <2>3. op[p].method # "register"
      BY <1>6 DEF Find, At, CallOK
    <2> QED
      BY <1>6, <2>1, <2>2, <2>3 DEF Find, At, Fresh, database
  <1>7. CASE Release(p)
    <2>1. op' = [op EXCEPT ![p].step = "usage"] /\ op[p].method # "register"
      BY <1>7 DEF Release, Goto, At, CallOK
    <2> QED
      BY <1>7, <2>1 DEF Release, At, Fresh, TypeOK, Call
  <1>8. CASE Store(p) \/ Close(p)
    <2>1. op' = [op EXCEPT ![p] = Idle]
      BY <1>8 DEF Store, Close, Answer, Return
    <2> QED
      BY <2>1 DEF Fresh, TypeOK, Idle
  <1>9. ASSUME NEW method \in Methods \ {"none"}, NEW r, NEW n, Enter(p, method, r, n),
               UNCHANGED now
        PROVE  Fresh(p)'
    <2>1. op'[p].step = "sweep" /\ op'[p].at = now
      BY <1>9 DEF Enter, TypeOK
    <2> QED
      BY <1>0, <1>9, <2>1 DEF Fresh
  <1>10. CASE Status(p)
    BY <1>9, <1>10 DEF Status, Methods
  <1>11. ASSUME NEW r \in Requests, Validate(r) \/ Register(r)
         PROVE  Fresh(p)'
    <2>1. home[r] = p
      BY DEF TypeOK
    <2> QED
      BY <1>9, <1>11, <2>1 DEF Validate, Register, Methods
  <1>12. ASSUME NEW r \in Requests, EndSession(p, r)
         PROVE  Fresh(p)'
    BY <1>9, <1>12 DEF EndSession, Methods
  <1>13. CASE Touch(p)
    BY <1>13 DEF Touch, Fresh
  <1>14. ASSUME NEW r \in Requests, ProviderFails(r)
         PROVE  Fresh(p)'
    BY <1>14 DEF ProviderFails, database, Fresh, UsageLeft, CooldownPassed
  <1>15. CASE Tick
    <2>1. now' = now + 1
      BY <1>15 DEF Tick
    <2> QED
      BY <1>0, <1>15, <2>1 DEF Tick, database, Fresh, UsageLeft, CooldownPassed
  <1> QED
    BY <1>1, <1>2, <1>3, <1>4, <1>5, <1>6, <1>7, <1>8, <1>10, <1>11, <1>12,
       <1>13, <1>14, <1>15 DEF Next, Method

LEMMA QuotaNext ==
  ASSUME OneProcess, QuotaInv, [Next]_vars
  PROVE  QuotaInv'
  <1>1. TypeInv'
    BY NextType DEF QuotaInv
  <1> QED
    BY <1>1, AccountsStep, FreshStep DEF QuotaInv

(***************************************************************************)
(* With one process, what holds between its steps holds for ever ...       *)
(***************************************************************************)
THEOREM QuotaInvariance ==
  ASSUME OneProcess
  PROVE  Spec => []QuotaInv
  <1> QED
    BY QuotaInit, QuotaNext, PTL DEF Spec

(* ... no student has more sessions than the day allows,                   *)
THEOREM OneProcessKeepsQuota ==
  ASSUME OneProcess
  PROVE  Spec => []SessionsWithinQuota
  <1>1. QuotaInv => SessionsWithinQuota
    BY DEF QuotaInv, StartsOK, SessionsWithinQuota
  <1> QED
    BY <1>1, QuotaInvariance, PTL

(* ... no session is charged for more than it lasted,                      *)
THEOREM OneProcessChargesOnce ==
  ASSUME OneProcess
  PROVE  Spec => []ChargedForWhatItLasted
  <1>1. QuotaInv => ChargedForWhatItLasted
    BY DEF QuotaInv, ChargesOK, ChargedForWhatItLasted
  <1> QED
    BY <1>1, QuotaInvariance, PTL

(* ... only the last session overdraws the minutes,                        *)
THEOREM OneProcessBoundsOverdraft ==
  ASSUME OneProcess
  PROVE  Spec => []OverdraftIsOneSession
  <1>1. QuotaInv => OverdraftIsOneSession
    BY DEF QuotaInv, ChargesOK, OverdraftIsOneSession
  <1> QED
    BY <1>1, QuotaInvariance, PTL

(* ... and starts are the cooldown apart.                                  *)
THEOREM OneProcessSpacesStarts ==
  ASSUME OneProcess
  PROVE  Spec => []StartsAreSpaced
  <1>1. QuotaInv => StartsAreSpaced
    BY DEF QuotaInv, StartsOK
  <1> QED
    BY <1>1, QuotaInvariance, PTL
=============================================================================
