-------------------- MODULE DecisionTraceProcessorProofs --------------------
(***************************************************************************)
(* Safety of the outbox processor for every number of events, workers,     *)
(* tokens, mapper versions and faults.                                     *)
(*                                                                         *)
(* The inductive invariant Inv says, besides the types, what a worker and  *)
(* a request in flight may rely on: an idle worker has no token, a busy    *)
(* one has a token nobody else has, and whoever is about to complete an    *)
(* event - a worker or a delayed request - does so with the payload the    *)
(* ledger already has.  The last part is stable because ledger entries     *)
(* never change.                                                           *)
(*                                                                         *)
(* The first part of the module is about the RPCs of the outbox table      *)
(* alone: what each of them preserves and guarantees, for every table,     *)
(* token and batch.  The other parts cite its lemmas and never look into a *)
(* row again.  The second part proves Inv and what follows from it; the    *)
(* last one, that a single fault never fails an event.                     *)
(***************************************************************************)
EXTENDS DecisionTraceProcessor, TLAPS

----------------------------------------------------------------------------
(* The outbox table *)

RowOK(r) ==
  /\ r \in Row
  /\ OperationalState(r)
  /\ r.state = "absent" => r = AbsentRow
  /\ r.state = "PENDING" => r.attempts < MaxAttempts

OutboxInv ==
  /\ outbox \in [Events -> Row]
  /\ before \subseteq Events \X Events
  /\ \A e \in Events : RowOK(outbox[e])

(* The only rows that change are open ones, and they stay open.            *)
Quiet ==
  \A e \in Events :
    \/ outbox'[e] = outbox[e]
    \/ /\ {outbox[e].state, outbox'[e].state} \subseteq {"PENDING", "PROCESSING"}
       /\ outbox'[e].hash = outbox[e].hash

(* A row with an owner is being processed, and a settled row has no owner. *)
LEMMA OwnerFacts ==
  ASSUME OutboxInv, NEW e \in Events
  PROVE  /\ outbox[e].owner # NoToken <=> outbox[e].state = "PROCESSING"
         /\ outbox[e].lease # "none" <=> outbox[e].state = "PROCESSING"
<1>1. RowOK(outbox[e])
  BY DEF OutboxInv
<1> QED
  BY <1>1 DEF RowOK, OperationalState, AbsentRow

(* A row that changes on its own from a good one to a good one keeps the   *)
(* table good.                                                             *)
LEMMA OneRowChanges ==
  ASSUME OutboxInv, NEW e \in Events, NEW r, RowOK(r),
         outbox' = [outbox EXCEPT ![e] = r],
         before' \subseteq Events \X Events
  PROVE  OutboxInv'
<1>1. outbox' \in [Events -> Row]
  BY DEF OutboxInv, RowOK
<1>2. ASSUME NEW f \in Events PROVE RowOK(outbox'[f])
  <2>1. CASE f = e
    BY <2>1 DEF OutboxInv
  <2>2. CASE f # e
    BY <2>2 DEF OutboxInv
  <2> QED BY <2>1, <2>2
<1>3. \A f \in Events : RowOK(outbox[f])'
  BY <1>2 DEF RowOK, OperationalState
<1> QED
  BY <1>1, <1>3 DEF OutboxInv

LEMMA InsertLemma ==
  ASSUME OutboxAssumption, OutboxInv, NEW e \in Events, InsertEvent(e)
  PROVE  /\ OutboxInv'
         /\ outbox' = [outbox EXCEPT ![e] = [AbsentRow EXCEPT !.state = "PENDING"]]
<1> DEFINE r == [AbsentRow EXCEPT !.state = "PENDING"]
<1>1. outbox[e] = AbsentRow
  BY DEF InsertEvent, OutboxInv, RowOK
<1>2. outbox' = [outbox EXCEPT ![e] = r]
  BY <1>1 DEF InsertEvent
<1>3. RowOK(r)
  BY DEF RowOK, Row, AbsentRow, OperationalState, OutboxAssumption, ErrorClasses,
         ProcessingStates
<1>4. before' \subseteq Events \X Events
  BY DEF InsertEvent, EnqueueNew, OutboxInv, Open
<1> HIDE DEF r
<1>5. OutboxInv'
  BY <1>2, <1>3, <1>4, OneRowChanges
<1> QED
  BY <1>2, <1>5 DEF r

LEMMA ClaimLemma ==
  ASSUME OutboxAssumption, OutboxInv, NEW B, NEW t \in Tokens, ClaimRpc(B, t)
  PROVE  /\ OutboxInv'
         /\ Quiet
         /\ \A e \in B : outbox'[e].owner = t
         /\ \A e \in Events \ B : outbox'[e] = outbox[e]
         /\ B \subseteq Events
         /\ \A e \in B : outbox[e].state # "absent"
<1> DEFINE claimed(e) == [outbox[e] EXCEPT !.state = "PROCESSING", !.owner = t,
                            !.lease = "live", !.attempts = NextAttempt(@)]
<1>1. B \subseteq Events /\ \A e \in B : outbox[e].state \in {"PENDING", "PROCESSING"}
  BY DEF ClaimRpc, Eligible
<1>2. ASSUME NEW e \in B
      PROVE  /\ outbox'[e] = claimed(e)
             /\ RowOK(claimed(e))
  <2>1. outbox'[e] = claimed(e)
    BY <1>1 DEF ClaimRpc
  <2>2. outbox[e] \in Row /\ RowOK(outbox[e])
    BY <1>1 DEF OutboxInv
  <2>3. NextAttempt(outbox[e].attempts) \in Nat
    BY <2>2 DEF Row, NextAttempt
  <2>4. outbox[e].hash = NoPayload
    BY <1>1, <2>2 DEF RowOK, OperationalState
  <2>5. RowOK(claimed(e))
    BY <2>2, <2>3, <2>4 DEF RowOK, Row, OperationalState, ProcessingStates, OutboxAssumption
  <2> QED BY <2>1, <2>5
<1>3. ASSUME NEW e \in Events \ B PROVE outbox'[e] = outbox[e]
  BY DEF ClaimRpc
<1>4. \A e \in Events : RowOK(outbox'[e])
  BY <1>2, <1>3 DEF OutboxInv
<1>5. outbox' \in [Events -> Row]
  <2>1. \A e \in Events : outbox'[e] \in Row
    BY <1>4 DEF RowOK
  <2>2. DOMAIN outbox' = Events /\ outbox' = [e \in Events |-> outbox'[e]]
    BY DEF ClaimRpc
  <2> QED BY <2>1, <2>2
<1>6. OutboxInv'
  <2>1. before' \subseteq Events \X Events
    BY DEF ClaimRpc, OutboxInv
  <2>2. \A e \in Events : RowOK(outbox[e])'
    BY <1>4 DEF RowOK, OperationalState
  <2> QED BY <1>5, <2>1, <2>2 DEF OutboxInv
<1>7. \A e \in B : /\ outbox'[e].state = "PROCESSING"
                  /\ outbox'[e].owner = t
                  /\ outbox'[e].hash = outbox[e].hash
  <2> TAKE e \in B
  <2>1. outbox[e] \in Row
    BY <1>1 DEF OutboxInv
  <2> QED BY <1>2, <2>1 DEF Row
<1>8. Quiet
  BY <1>1, <1>3, <1>7 DEF Quiet
<1> QED
  BY <1>1, <1>3, <1>6, <1>7, <1>8

(* Complete, fail and release leave everything alone or move exactly the   *)
(* row their token owns.                                                   *)
Moves(e, t, r) ==
  /\ t # NoToken
  /\ outbox[e].owner = t
  /\ outbox[e].state = "PROCESSING"
  /\ outbox' = [outbox EXCEPT ![e] = r]
  /\ RowOK(r)
  /\ r.owner = NoToken

LEMMA SettledOK ==
  ASSUME OutboxInv, NEW e \in Events, outbox[e].state = "PROCESSING",
         NEW state \in Terminal,
         NEW hash \in Payloads \union {NoPayload}, NEW error \in ErrorClasses,
         state = "COMPLETED" <=> hash # NoPayload,
         state = "PERMANENT_FAILURE" => error # "none"
  PROVE  /\ RowOK(Settled(outbox[e], state, hash, error))
         /\ Settled(outbox[e], state, hash, error).state = state
         /\ Settled(outbox[e], state, hash, error).hash = hash
         /\ Settled(outbox[e], state, hash, error).owner = NoToken
<1>1. outbox[e] \in Row
  BY DEF OutboxInv
<1> QED
  BY <1>1 DEF Settled, RowOK, Row, OperationalState, Terminal, ProcessingStates

LEMMA DequeueLemma ==
  ASSUME OutboxInv, NEW e \in Events, Dequeue(e) \/ EnqueueLast(e)
  PROVE  before' \subseteq Events \X Events
  BY DEF OutboxInv, Dequeue, EnqueueLast, Without, Open

LEMMA CompleteLemma ==
  ASSUME OutboxAssumption, OutboxInv, NEW e \in Events, NEW t \in Tokens,
         NEW h \in Payloads, CompleteRpc(e, t, h)
  PROVE  /\ OutboxInv'
         /\ \/ UNCHANGED outbox
            \/ \E r \in Row : /\ Moves(e, t, r)
                             /\ r.state = "COMPLETED"
                             /\ r.hash = h
<1>1. CASE StaleClaim(e, t)
  BY <1>1 DEF StaleClaim, outboxVars, OutboxInv, RowOK, OperationalState
<1>2. CASE /\ Owns(e, t)
           /\ outbox' = [outbox EXCEPT ![e] = Settled(@, "COMPLETED", h, @.error)]
           /\ Dequeue(e)
  <2> DEFINE r == Settled(outbox[e], "COMPLETED", h, outbox[e].error)
  <2>1. outbox[e].error \in ErrorClasses
    BY DEF OutboxInv, Row
  <2>2. RowOK(r) /\ r.state = "COMPLETED" /\ r.hash = h /\ r.owner = NoToken
    BY <1>2, <2>1, SettledOK DEF Owns, Terminal, OutboxAssumption
  <2>3. outbox' = [outbox EXCEPT ![e] = r]
    BY <1>2
  <2>4. before' \subseteq Events \X Events
    BY <1>2, DequeueLemma
  <2>5. OutboxInv'
    BY <2>2, <2>3, <2>4, OneRowChanges
  <2>6. Moves(e, t, r) /\ r \in Row
    BY <1>2, <2>2, <2>3 DEF Moves, Owns, OutboxAssumption, RowOK
  <2> QED
    BY <2>2, <2>5, <2>6
<1> QED
  BY <1>1, <1>2 DEF CompleteRpc

LEMMA FailLemma ==
  ASSUME OutboxAssumption, OutboxInv, NEW e \in Events, NEW t \in Tokens,
         NEW error \in ErrorClasses \ {"none"}, FailRpc(e, t, error)
  PROVE  /\ OutboxInv'
         /\ \/ UNCHANGED outbox
            \/ \E r \in Row : /\ Moves(e, t, r)
                             /\ r.state = "PERMANENT_FAILURE"
                             /\ r.hash = NoPayload
<1>1. CASE StaleClaim(e, t)
  BY <1>1 DEF StaleClaim, outboxVars, OutboxInv, RowOK, OperationalState
<1>2. CASE /\ Owns(e, t)
           /\ outbox' = [outbox EXCEPT ![e] =
                 Settled(@, "PERMANENT_FAILURE", NoPayload, error)]
           /\ Dequeue(e)
  <2> DEFINE r == Settled(outbox[e], "PERMANENT_FAILURE", NoPayload, error)
  <2>2. /\ RowOK(r) /\ r.state = "PERMANENT_FAILURE"
        /\ r.hash = NoPayload /\ r.owner = NoToken
    BY <1>2, SettledOK DEF Owns, Terminal, OutboxAssumption
  <2>3. outbox' = [outbox EXCEPT ![e] = r]
    BY <1>2
  <2>4. before' \subseteq Events \X Events
    BY <1>2, DequeueLemma
  <2>5. OutboxInv'
    BY <2>2, <2>3, <2>4, OneRowChanges
  <2>6. Moves(e, t, r) /\ r \in Row
    BY <1>2, <2>2, <2>3 DEF Moves, Owns, OutboxAssumption, RowOK
  <2> QED
    BY <2>2, <2>5, <2>6
<1> QED
  BY <1>1, <1>2 DEF FailRpc

LEMMA ReleaseLemma ==
  ASSUME OutboxAssumption, OutboxInv, NEW e \in Events, NEW t \in Tokens,
         ReleaseRpc(e, t)
  PROVE  /\ OutboxInv'
         /\ \/ UNCHANGED outbox
            \/ \E r \in Row : /\ Moves(e, t, r)
                             /\ r.state \in {"PENDING", "PERMANENT_FAILURE"}
                             /\ r.hash = NoPayload
<1>1. CASE StaleClaim(e, t)
  BY <1>1 DEF StaleClaim, outboxVars, OutboxInv, RowOK, OperationalState
<1>2. CASE /\ Owns(e, t)
           /\ Exhausted(e)
           /\ outbox' = [outbox EXCEPT ![e] =
                 Settled(@, "PERMANENT_FAILURE", NoPayload, TransientClass)]
           /\ Dequeue(e)
  <2> DEFINE r == Settled(outbox[e], "PERMANENT_FAILURE", NoPayload, TransientClass)
  <2>2. /\ RowOK(r) /\ r.state = "PERMANENT_FAILURE"
        /\ r.hash = NoPayload /\ r.owner = NoToken
    BY <1>2, SettledOK DEF Owns, Terminal, OutboxAssumption, ErrorClasses, TransientClass
  <2>3. outbox' = [outbox EXCEPT ![e] = r]
    BY <1>2
  <2>4. before' \subseteq Events \X Events
    BY <1>2, DequeueLemma
  <2>5. OutboxInv'
    BY <2>2, <2>3, <2>4, OneRowChanges
  <2>6. Moves(e, t, r) /\ r \in Row
    BY <1>2, <2>2, <2>3 DEF Moves, Owns, OutboxAssumption, RowOK
  <2> QED
    BY <2>2, <2>5, <2>6
<1>3. CASE /\ Owns(e, t)
           /\ ~Exhausted(e)
           /\ outbox' = [outbox EXCEPT ![e] = Requeued(@)]
           /\ EnqueueLast(e)
  <2> DEFINE r == Requeued(outbox[e])
  <2>1. outbox[e] \in Row
    BY DEF OutboxInv
  <2>2. /\ RowOK(r) /\ r.state = "PENDING" /\ r.hash = NoPayload /\ r.owner = NoToken
    <3>1. outbox[e].hash = NoPayload /\ outbox[e].attempts < MaxAttempts
      BY <1>3, <2>1 DEF OutboxInv, RowOK, OperationalState, Owns, Exhausted, Row,
           OutboxAssumption
    <3>2. r \in Row
      BY <2>1 DEF Requeued, Row, ProcessingStates, ErrorClasses
    <3> QED
      BY <2>1, <3>1, <3>2 DEF Requeued, RowOK, Row, OperationalState
  <2>3. outbox' = [outbox EXCEPT ![e] = r]
    BY <1>3
  <2>4. before' \subseteq Events \X Events
    BY <1>3, DequeueLemma
  <2>5. OutboxInv'
    BY <2>2, <2>3, <2>4, OneRowChanges
  <2>6. Moves(e, t, r) /\ r \in Row
    BY <1>3, <2>2, <2>3 DEF Moves, Owns, OutboxAssumption, RowOK
  <2> QED
    BY <2>2, <2>5, <2>6
<1> QED
  BY <1>1, <1>2, <1>3 DEF ReleaseRpc

LEMMA TimeLemma ==
  ASSUME OutboxAssumption, OutboxInv,
         \/ \E t \in Tokens : LeaseExpires(t)
         \/ \E e \in Events : BackoffElapses(e)
  PROVE  /\ OutboxInv'
         /\ Quiet
         /\ \A e \in Events : /\ outbox'[e].state = outbox[e].state
                             /\ outbox'[e].owner = outbox[e].owner
                             /\ outbox'[e].hash = outbox[e].hash
<1> SUFFICES /\ outbox' \in [Events -> Row]
             /\ before' = before
             /\ \A e \in Events :
                  /\ RowOK(outbox'[e])
                  /\ outbox'[e].state = outbox[e].state
                  /\ outbox'[e].owner = outbox[e].owner
                  /\ outbox'[e].hash = outbox[e].hash
                  /\ outbox[e].state \in Terminal \union {"absent"} =>
                       outbox'[e] = outbox[e]
  BY DEF OutboxInv, Quiet, RowOK, OperationalState, Terminal
<1>1. CASE \E t \in Tokens : LeaseExpires(t)
  <2> PICK t \in Tokens : LeaseExpires(t)
    BY <1>1
  <2>1. ASSUME NEW e \in Events
        PROVE  /\ RowOK(outbox'[e])
               /\ outbox'[e].state = outbox[e].state
               /\ outbox'[e].owner = outbox[e].owner
               /\ outbox'[e].hash = outbox[e].hash
               /\ outbox[e].state \in Terminal \union {"absent"} =>
                    outbox'[e] = outbox[e]
    <3>1. outbox[e] \in Row /\ RowOK(outbox[e])
      BY DEF OutboxInv
    <3>2. CASE outbox[e].owner = t
      <4>1. outbox[e].state = "PROCESSING"
        BY <3>2, OwnerFacts DEF OutboxAssumption
      <4>2. outbox'[e] = [outbox[e] EXCEPT !.lease = "expired"]
        BY <3>2 DEF LeaseExpires
      <4> QED BY <3>1, <4>1, <4>2 DEF RowOK, Row, OperationalState, Terminal
    <3>3. CASE outbox[e].owner # t
      BY <3>1, <3>3 DEF LeaseExpires
    <3> QED BY <3>2, <3>3
  <2>2. outbox' = [e \in Events |-> outbox'[e]] /\ before' = before
    BY DEF LeaseExpires
  <2>3. \A e \in Events : outbox'[e] \in Row
    BY <2>1 DEF RowOK
  <2>4. outbox' \in [Events -> Row]
    BY <2>2, <2>3
  <2> QED BY <2>1, <2>2, <2>4
<1>2. CASE \E e \in Events : BackoffElapses(e)
  <2> PICK d \in Events : BackoffElapses(d)
    BY <1>2
  <2>1. ASSUME NEW e \in Events
        PROVE  /\ RowOK(outbox'[e])
               /\ outbox'[e].state = outbox[e].state
               /\ outbox'[e].owner = outbox[e].owner
               /\ outbox'[e].hash = outbox[e].hash
               /\ outbox[e].state \in Terminal \union {"absent"} =>
                    outbox'[e] = outbox[e]
    <3>1. outbox[e] \in Row /\ RowOK(outbox[e])
      BY DEF OutboxInv
    <3>2. CASE e = d
      <4>1. outbox[e].state = "PENDING"
        BY <3>2 DEF BackoffElapses
      <4>2. outbox'[e] = [outbox[e] EXCEPT !.retry = "due"]
        BY <3>2 DEF BackoffElapses, OutboxInv
      <4> QED BY <3>1, <4>1, <4>2 DEF RowOK, Row, OperationalState, Terminal
    <3>3. CASE e # d
      BY <3>1, <3>3 DEF BackoffElapses, OutboxInv
    <3> QED BY <3>2, <3>3
  <2>2. outbox' = [e \in Events |-> outbox'[e]] /\ before' = before
    BY DEF BackoffElapses, OutboxInv
  <2>3. \A e \in Events : outbox'[e] \in Row
    BY <2>1 DEF RowOK
  <2>4. outbox' \in [Events -> Row]
    BY <2>2, <2>3
  <2> QED BY <2>1, <2>2, <2>4
<1> QED
  BY <1>1, <1>2

----------------------------------------------------------------------------
(* The processor *)

InHand == {"append", "verify", "complete", "release", "fail"}

WorkerTypes ==
  /\ pc \in [Workers -> Steps]
  /\ batch \in [Workers -> SUBSET Events]
  /\ cur \in [Workers -> Events \union {NoEvent}]
  /\ token \in [Workers -> Tokens \union {NoToken}]
  /\ err \in [Workers -> ErrorClasses]
  /\ code \in [Workers -> Payloads]

WorkerOK(w) ==
  /\ pc[w] = "idle" => token[w] = NoToken /\ batch[w] = {}
  /\ pc[w] # "idle" => token[w] \in Tokens
  /\ pc[w] \in InHand => cur[w] \in batch[w]
  /\ \A e \in batch[w] : outbox[e].state # "absent"
  /\ pc[w] = "complete" => ledger[cur[w]] = code[w]
  /\ pc[w] = "fail" => err[w] # "none"

MessageOK(m) ==
  /\ m \in Messages
  /\ outbox[m.event].state # "absent"
  /\ m.op = "complete" => ledger[m.event] = m.payload
  /\ m.op = "fail" => m.error # "none"

TokensDistinct ==
  \A v, w \in Workers : token[v] = token[w] /\ token[v] # NoToken => v = w

LedgerOK == ledger \in [Events -> Payloads \union {NoPayload}]

Inv ==
  /\ OutboxInv
  /\ LedgerOK
  /\ WorkerTypes
  /\ \A w \in Workers : WorkerOK(w)
  /\ TokensDistinct
  /\ \A m \in delayed : MessageOK(m)
  /\ faults \in 0 .. MaxFaults
  /\ CompletedMeansRecorded

(* A step of the abstract specification, or a stutter.                     *)
DeliveryStep == Delivery!DeliveryNext \/ UNCHANGED Delivery!deliveryVars

(* What any step may do to the table and the ledger.                       *)
Effects ==
  /\ OutboxInv'
  /\ LedgerOK'
  /\ \A e \in Events : outbox[e].state # "absent" => outbox'[e].state # "absent"
  /\ \A e \in Events : outbox[e].state \in Terminal => outbox'[e] = outbox[e]
  /\ \A e \in Events : outbox'[e].state = "COMPLETED" =>
       \/ outbox'[e] = outbox[e]
       \/ ledger[e] # NoPayload /\ outbox'[e].hash = ledger[e]
  /\ \A e \in Events : ledger[e] # NoPayload => ledger'[e] = ledger[e]
  /\ DeliveryStep

SameWorker(v) ==
  /\ pc'[v] = pc[v] /\ batch'[v] = batch[v] /\ cur'[v] = cur[v]
  /\ token'[v] = token[v] /\ err'[v] = err[v] /\ code'[v] = code[v]

----------------------------------------------------------------------------
(* What the abstract specification sees of a step *)

LEMMA StatusFacts ==
  ASSUME NEW s \in ProcessingStates \union {"absent"}
  PROVE  /\ s = "absent" => DeliveryStatus(s) = "none"
         /\ s \in {"PENDING", "PROCESSING"} => DeliveryStatus(s) = "open"
         /\ s = "COMPLETED" => DeliveryStatus(s) = "acknowledged"
         /\ s = "PERMANENT_FAILURE" => DeliveryStatus(s) = "rejected"
  BY DEF ProcessingStates, DeliveryStatus

(* A step that leaves every status and receipt alone is a stutter.         *)
LEMMA SameDelivery ==
  ASSUME UNCHANGED ledger,
         \A e \in Events : /\ DeliveryStatus(outbox'[e].state) = DeliveryStatus(outbox[e].state)
                           /\ outbox'[e].hash = outbox[e].hash
  PROVE  DeliveryStep
  BY DEF DeliveryStep, Delivery!deliveryVars

LEMMA AppendDelivers ==
  ASSUME Inv, NEW e \in Events, outbox[e].state # "absent", NEW p \in Payloads,
         Ledger!AppendRpc(e, p) \/ Ledger!AppendConflict(e), UNCHANGED outbox
  PROVE  DeliveryStep
<1>1. CASE Ledger!AppendConflict(e)
  BY <1>1, SameDelivery DEF Ledger!AppendConflict
<1>2. CASE Ledger!AppendRpc(e, p)
  <2>1. outbox[e].state \in ProcessingStates
    BY DEF Inv, OutboxInv, Row
  <2>2. DeliveryStatus(outbox[e].state) # "none"
    BY <2>1, StatusFacts DEF ProcessingStates
  <2>3. Delivery!Record(e)
    BY <1>2, <2>2 DEF Delivery!Record, Ledger!AppendRpc, Ledger!Recorded
  <2> QED
    BY <2>3 DEF DeliveryStep, Delivery!DeliveryNext
<1> QED
  BY <1>1, <1>2

LEMMA MoveDelivers ==
  ASSUME Inv, NEW e \in Events, NEW t \in Tokens, NEW r \in Row, Moves(e, t, r),
         r.state # "absent",
         r.state = "COMPLETED" => ledger[e] # NoPayload /\ r.hash = ledger[e],
         UNCHANGED ledger
  PROVE  DeliveryStep
<1>1. /\ outbox' = [outbox EXCEPT ![e] = r]
      /\ outbox[e].state = "PROCESSING"
      /\ RowOK(r) /\ r.owner = NoToken
  BY DEF Moves
<1>2. outbox'[e] = r /\ \A f \in Events \ {e} : outbox'[f] = outbox[f]
  BY <1>1 DEF Inv, OutboxInv
<1>3. DeliveryStatus(outbox[e].state) = "open" /\ outbox[e].hash = NoPayload
  BY <1>1, StatusFacts DEF ProcessingStates, Inv, OutboxInv, RowOK, OperationalState
<1>4. CASE r.state = "COMPLETED"
  <2>1. DeliveryStatus(r.state) = "acknowledged"
    BY <1>4, StatusFacts DEF ProcessingStates
  <2>2. Delivery!Acknowledge(e)
    BY <1>2, <1>3, <1>4, <2>1 DEF Delivery!Acknowledge
  <2> QED
    BY <2>2 DEF DeliveryStep, Delivery!DeliveryNext
<1>5. CASE r.state = "PERMANENT_FAILURE"
  <2>1. DeliveryStatus(r.state) = "rejected" /\ r.hash = NoPayload
    BY <1>1, <1>5, StatusFacts DEF ProcessingStates, RowOK, OperationalState
  <2>2. Delivery!Reject(e)
    BY <1>2, <1>3, <2>1 DEF Delivery!Reject
  <2> QED
    BY <2>2 DEF DeliveryStep, Delivery!DeliveryNext
<1>6. CASE r.state = "PENDING"
  <2>1. DeliveryStatus(r.state) = "open" /\ r.hash = NoPayload
    BY <1>1, <1>6, StatusFacts DEF ProcessingStates, RowOK, OperationalState
  <2> QED
    BY <1>2, <1>3, <2>1, SameDelivery
<1> QED
  BY <1>1, <1>4, <1>5, <1>6 DEF RowOK, OperationalState
----------------------------------------------------------------------------
(* Effects of the steps *)

LEMMA IdleEffects ==
  ASSUME Inv, UNCHANGED <<outbox, before, ledger>>
  PROVE  Effects
<1>1. OutboxInv' /\ LedgerOK'
  BY DEF Inv, OutboxInv, LedgerOK, RowOK, OperationalState
<1> QED
  BY <1>1, SameDelivery DEF Effects

LEMMA LedgerEffects ==
  ASSUME Inv, NEW e \in Events, outbox[e].state # "absent", NEW p \in Payloads,
         \/ Ledger!AppendRpc(e, p)
         \/ Ledger!AppendConflict(e),
         UNCHANGED outboxVars
  PROVE  Effects
<1>1. OutboxInv'
  BY DEF Inv, OutboxInv, RowOK, OperationalState, outboxVars
<1>2. LedgerOK' /\ \A f \in Events : ledger[f] # NoPayload => ledger'[f] = ledger[f]
  BY DEF Inv, LedgerOK, Ledger!AppendRpc, Ledger!AppendConflict, Ledger!Recorded
<1>3. outbox' = outbox
  BY DEF outboxVars
<1>4. DeliveryStep
  BY <1>3, AppendDelivers
<1> QED
  BY <1>1, <1>2, <1>3, <1>4 DEF Effects

(* A table RPC that is quiet, or settles one row; h is what it completes.  *)
LEMMA QuietEffects ==
  ASSUME Inv, OutboxInv', Quiet, UNCHANGED ledger
  PROVE  Effects
<1>1. LedgerOK'
  BY DEF Inv, LedgerOK
<1>2. ASSUME NEW e \in Events
      PROVE  /\ DeliveryStatus(outbox'[e].state) = DeliveryStatus(outbox[e].state)
             /\ outbox'[e].hash = outbox[e].hash
  BY DEF Quiet, DeliveryStatus
<1>3. DeliveryStep
  BY <1>2, SameDelivery
<1> QED
  BY <1>1, <1>3 DEF Effects, Quiet, Terminal

LEMMA MoveEffects ==
  ASSUME Inv, OutboxInv', UNCHANGED ledger, NEW e \in Events, NEW t \in Tokens,
         \/ UNCHANGED outbox
         \/ \E r \in Row : /\ Moves(e, t, r)
                           /\ r.state # "absent"
                           /\ r.state = "COMPLETED" =>
                                ledger[e] # NoPayload /\ r.hash = ledger[e]
  PROVE  Effects
<1>1. LedgerOK'
  BY DEF Inv, LedgerOK
<1>2. CASE UNCHANGED outbox
  BY <1>1, <1>2, SameDelivery DEF Effects
<1>3. CASE \E r \in Row : /\ Moves(e, t, r)
                          /\ r.state # "absent"
                          /\ r.state = "COMPLETED" =>
                               ledger[e] # NoPayload /\ r.hash = ledger[e]
  <2> PICK r \in Row : /\ Moves(e, t, r)
                       /\ r.state # "absent"
                       /\ r.state = "COMPLETED" =>
                            ledger[e] # NoPayload /\ r.hash = ledger[e]
    BY <1>3
  <2>1. outbox' = [outbox EXCEPT ![e] = r] /\ outbox[e].state = "PROCESSING"
    BY DEF Moves
  <2>2. outbox'[e] = r /\ \A f \in Events \ {e} : outbox'[f] = outbox[f]
    BY <2>1 DEF Inv, OutboxInv
  <2>3. DeliveryStep
    BY MoveDelivers
  <2> QED
    BY <1>1, <2>1, <2>2, <2>3 DEF Effects, Terminal
<1> QED
  BY <1>2, <1>3

LEMMA CompleteEffects ==
  ASSUME Inv, OutboxAssumption, NEW e \in Events, NEW t \in Tokens, NEW h \in Payloads,
         ledger[e] = h, CompleteRpc(e, t, h), UNCHANGED ledger
  PROVE  Effects
<1>1. h # NoPayload
  BY DEF OutboxAssumption
<1>2. /\ OutboxInv'
      /\ \/ UNCHANGED outbox
         \/ \E r \in Row : Moves(e, t, r) /\ r.state = "COMPLETED" /\ r.hash = h
  BY CompleteLemma DEF Inv
<1> QED
  BY <1>1, <1>2, MoveEffects

LEMMA FailEffects ==
  ASSUME Inv, OutboxAssumption, NEW e \in Events, NEW t \in Tokens,
         NEW error \in ErrorClasses \ {"none"}, FailRpc(e, t, error), UNCHANGED ledger
  PROVE  Effects
<1>1. /\ OutboxInv'
      /\ \/ UNCHANGED outbox
         \/ \E r \in Row : Moves(e, t, r) /\ r.state = "PERMANENT_FAILURE"
  BY FailLemma DEF Inv
<1> QED
  BY <1>1, MoveEffects

LEMMA ReleaseEffects ==
  ASSUME Inv, OutboxAssumption, NEW e \in Events, NEW t \in Tokens,
         ReleaseRpc(e, t), UNCHANGED ledger
  PROVE  Effects
<1>1. /\ OutboxInv'
      /\ \/ UNCHANGED outbox
         \/ \E r \in Row : Moves(e, t, r) /\ r.state \in {"PENDING", "PERMANENT_FAILURE"}
  BY ReleaseLemma DEF Inv
<1> QED
  BY <1>1, MoveEffects

LEMMA SubmitEffects ==
  ASSUME Inv, OutboxAssumption, NEW e \in Events, InsertEvent(e), UNCHANGED ledger
  PROVE  Effects
<1>1. /\ OutboxInv'
      /\ outbox' = [outbox EXCEPT ![e] = [AbsentRow EXCEPT !.state = "PENDING"]]
      /\ outbox[e].state = "absent"
  BY InsertLemma DEF Inv, InsertEvent
<1>2. /\ outbox'[e] = [AbsentRow EXCEPT !.state = "PENDING"]
      /\ \A f \in Events \ {e} : outbox'[f] = outbox[f]
  BY <1>1 DEF Inv, OutboxInv
<1>3. outbox'[e].state = "PENDING"
  BY <1>2 DEF AbsentRow
<1>4. LedgerOK'
  BY DEF Inv, LedgerOK
<1>5. Delivery!Accept(e)
  <2>1. /\ DeliveryStatus(outbox[e].state) = "none"
        /\ DeliveryStatus(outbox'[e].state) = "open"
    BY <1>1, <1>3 DEF DeliveryStatus
  <2>2. outbox'[e].hash = outbox[e].hash
    BY <1>1, <1>2 DEF Inv, OutboxInv, RowOK, AbsentRow
  <2> QED
    BY <1>2, <2>1, <2>2 DEF Delivery!Accept
<1>6. DeliveryStep
  BY <1>5 DEF DeliveryStep, Delivery!DeliveryNext
<1> QED
  BY <1>1, <1>2, <1>3, <1>4, <1>6 DEF Effects, Terminal

----------------------------------------------------------------------------
(* What effects and workers have to do with each other *)

LEMMA OthersUndisturbed ==
  ASSUME Inv, OutboxAssumption, Effects, NEW v \in Workers, SameWorker(v)
  PROVE  WorkerOK(v)'
<1>1. WorkerOK(v) /\ code[v] \in Payloads /\ batch[v] \in SUBSET Events
  BY DEF Inv, WorkerTypes
<1>2. pc[v] = "complete" => cur[v] \in Events
  BY <1>1 DEF WorkerOK, InHand
<1> QED
  BY <1>1, <1>2 DEF WorkerOK, SameWorker, Effects, OutboxAssumption

LEMMA MessagesUndisturbed ==
  ASSUME Inv, OutboxAssumption, Effects, NEW m \in delayed
  PROVE  MessageOK(m)'
<1>1. MessageOK(m) /\ m.event \in Events /\ m.payload \in Payloads
  BY DEF Inv, MessageOK, Messages
<1> QED
  BY <1>1 DEF MessageOK, Effects, OutboxAssumption

LEMMA CompletedStaysRecorded ==
  ASSUME Inv, Effects
  PROVE  CompletedMeansRecorded'
  BY DEF Inv, Effects, CompletedMeansRecorded, Ledger!Recorded

LEMMA FreshTokenIsFresh ==
  ASSUME \E t \in Tokens : t \notin UsedTokens
  PROVE  FreshToken \in Tokens /\ FreshToken \notin UsedTokens
  BY DEF FreshToken

----------------------------------------------------------------------------
(* Steps of one worker *)

(* A step in which only worker w moves keeps the invariant if it leaves w  *)
(* in order and sends, at most, messages that are in order.                *)
LEMMA WorkerStep ==
  ASSUME Inv, OutboxAssumption, Effects, NEW w \in Workers,
         WorkerTypes', WorkerOK(w)',
         \A v \in Workers \ {w} : SameWorker(v),
         token'[w] \in {token[w], NoToken},
         \A m \in delayed' : m \in delayed \/ MessageOK(m)',
         faults' \in 0 .. MaxFaults
  PROVE  Inv'
<1>1. \A v \in Workers : WorkerOK(v)'
  <2> TAKE v \in Workers
  <2>1. CASE v = w
    BY <2>1
  <2>2. CASE v # w
    BY <2>2, OthersUndisturbed
  <2> QED BY <2>1, <2>2
<1>2. TokensDistinct'
  BY DEF Inv, TokensDistinct, SameWorker
<1>3. \A m \in delayed' : MessageOK(m)'
  BY MessagesUndisturbed
<1> QED
  BY <1>1, <1>2, <1>3, CompletedStaysRecorded DEF Inv, Effects

LEMMA FaultCount ==
  ASSUME Inv, ProcessorAssumption,
         NoFault \/ \E kind \in FaultKinds : Fault(kind)
  PROVE  faults' \in 0 .. MaxFaults
  BY DEF Inv, ProcessorAssumption, NoFault, Fault

LEMMA GotoLemma ==
  ASSUME Inv, OutboxAssumption, Effects, NEW w \in Workers,
         NEW step \in InHand, NEW class \in ErrorClasses, Goto(w, step, class),
         pc[w] \in InHand,
         step = "complete" => ledger'[cur[w]] = code[w],
         step = "fail" => class # "none"
  PROVE  /\ WorkerTypes'
         /\ WorkerOK(w)'
         /\ \A v \in Workers \ {w} : SameWorker(v)
         /\ token'[w] = token[w]
<1>1. WorkerTypes /\ WorkerOK(w)
  BY DEF Inv
<1>2. WorkerTypes'
  BY <1>1 DEF WorkerTypes, Goto, InHand, Steps
<1>3. /\ pc'[w] = step /\ err'[w] = class
      /\ batch' = batch /\ cur' = cur /\ token' = token /\ code' = code
      /\ \A v \in Workers \ {w} : SameWorker(v)
  BY <1>1 DEF WorkerTypes, Goto, SameWorker
<1>4. \A e \in batch[w] : e \in Events
  BY <1>1 DEF WorkerTypes
<1>5. WorkerOK(w)'
  BY <1>1, <1>3, <1>4 DEF WorkerOK, InHand, Effects
<1> QED
  BY <1>2, <1>3, <1>5

LEMMA NextEventLemma ==
  ASSUME Inv, OutboxAssumption, Effects, NEW w \in Workers, NextEvent(w),
         pc[w] \in InHand
  PROVE  /\ WorkerTypes'
         /\ WorkerOK(w)'
         /\ \A v \in Workers \ {w} : SameWorker(v)
         /\ token'[w] \in {token[w], NoToken}
<1> DEFINE rest == batch[w] \ {cur[w]}
<1>1. WorkerTypes /\ WorkerOK(w)
  BY DEF Inv
<1>2. WorkerTypes'
  BY <1>1 DEF WorkerTypes, NextEvent, Steps, ErrorClasses
<1>3. /\ pc'[w] = IF rest = {} THEN "idle" ELSE "ready"
      /\ token'[w] = IF rest = {} THEN NoToken ELSE token[w]
      /\ batch'[w] = rest
      /\ \A v \in Workers \ {w} : SameWorker(v)
  BY <1>1 DEF WorkerTypes, NextEvent, SameWorker
<1>4. token[w] \in Tokens
  BY <1>1 DEF WorkerOK, InHand
<1>5. \A e \in rest : e \in Events /\ outbox'[e].state # "absent"
  BY <1>1 DEF WorkerOK, WorkerTypes, Effects
<1>6. WorkerOK(w)'
  BY <1>3, <1>4, <1>5 DEF WorkerOK, InHand
<1> QED
  BY <1>2, <1>3, <1>6

LEMMA AbandonLemma ==
  ASSUME Inv, OutboxAssumption, NEW w \in Workers, Abandon(w),
         UNCHANGED code \/ \E p \in Payloads : code' = [code EXCEPT ![w] = p]
  PROVE  /\ WorkerTypes'
         /\ WorkerOK(w)'
         /\ \A v \in Workers \ {w} : SameWorker(v)
         /\ token'[w] = NoToken
<1>1. WorkerTypes
  BY DEF Inv
<1>2. WorkerTypes'
  BY <1>1 DEF WorkerTypes, Abandon, Steps, ErrorClasses
<1>3. /\ pc'[w] = "idle" /\ token'[w] = NoToken /\ batch'[w] = {}
      /\ \A v \in Workers \ {w} : SameWorker(v)
  BY <1>1 DEF WorkerTypes, Abandon, SameWorker
<1>4. WorkerOK(w)'
  BY <1>3 DEF WorkerOK, InHand
<1> QED
  BY <1>2, <1>3, <1>4

(* The event in hand, its token and its payload are what the RPCs expect.  *)
LEMMA InHandFacts ==
  ASSUME Inv, NEW w \in Workers, pc[w] \in InHand
  PROVE  /\ cur[w] \in Events
         /\ token[w] \in Tokens
         /\ code[w] \in Payloads
         /\ outbox[cur[w]].state # "absent"
         /\ pc[w] = "complete" => ledger[cur[w]] = code[w]
         /\ pc[w] = "fail" => err[w] \in ErrorClasses \ {"none"}
         /\ err[w] \in ErrorClasses
  BY DEF Inv, WorkerTypes, WorkerOK, InHand

LEMMA RequestLemma ==
  ASSUME Inv, OutboxAssumption, NEW w \in Workers, pc[w] \in InHand \ {"verify"},
         UNCHANGED <<outbox, ledger>>, NEW m, m = Request(w, pc[w])
  PROVE  MessageOK(m)'
<1>1. /\ m.op = pc[w] /\ m.event = cur[w] /\ m.payload = code[w] /\ m.error = err[w]
      /\ m.token = token[w]
  BY DEF Request
<1>2. m \in Messages
  BY InHandFacts DEF Request, Messages, InHand
<1> QED
  BY <1>1, <1>2, InHandFacts DEF MessageOK

LEMMA ClaimEffects ==
  ASSUME Inv, OutboxAssumption, NEW B \in SUBSET Events, ClaimFresh(B), UNCHANGED ledger
  PROVE  /\ Effects
         /\ FreshToken \in Tokens
         /\ \A v \in Workers : token[v] # FreshToken
         /\ \A e \in B : outbox'[e].state # "absent"
<1>1. FreshToken \in Tokens /\ FreshToken \notin UsedTokens
  BY FreshTokenIsFresh DEF ClaimFresh
<1>2. ClaimRpc(B, FreshToken)
  BY DEF ClaimFresh
<1>3. /\ OutboxInv' /\ Quiet
      /\ \A e \in B : outbox[e].state # "absent"
  BY <1>1, <1>2, ClaimLemma DEF Inv
<1>4. Effects
  BY <1>3, QuietEffects
<1> QED
  BY <1>1, <1>3, <1>4 DEF UsedTokens, Effects

LEMMA ClaimStep ==
  ASSUME Inv, OutboxAssumption, ProcessorAssumption, NEW w \in Workers,
         ClaimEvents(w) \/ ClaimUnanswered(w)
  PROVE  Inv' /\ Effects
<1>1. CASE ClaimEvents(w)
  <2> PICK B \in SUBSET Events : ClaimFresh(B) /\ batch' = [batch EXCEPT ![w] = B]
    BY <1>1 DEF ClaimEvents
  <2>1. /\ Effects
        /\ FreshToken \in Tokens
        /\ \A v \in Workers : token[v] # FreshToken
        /\ \A e \in B : outbox'[e].state # "absent"
    BY <1>1, ClaimEffects DEF ClaimEvents
  <2>2. WorkerTypes
    BY DEF Inv
  <2>3. WorkerTypes'
    BY <1>1, <2>1, <2>2 DEF WorkerTypes, ClaimEvents, Steps
  <2>4. /\ pc'[w] = "hydrate" /\ batch'[w] = B /\ token'[w] = FreshToken
        /\ \A v \in Workers \ {w} : SameWorker(v)
    BY <1>1, <2>2 DEF ClaimEvents, WorkerTypes, SameWorker
  <2>5. WorkerOK(w)'
    BY <2>1, <2>4 DEF WorkerOK, InHand
  <2>6. \A v \in Workers : WorkerOK(v)'
    <3> TAKE v \in Workers
    <3>1. CASE v = w
      BY <2>5, <3>1
    <3>2. CASE v # w
      BY <2>1, <2>4, <3>2, OthersUndisturbed
    <3> QED BY <3>1, <3>2
  <2>7. TokensDistinct'
    BY <2>1, <2>4 DEF Inv, TokensDistinct, SameWorker
  <2>8. \A m \in delayed' : MessageOK(m)'
    BY <1>1, <2>1, MessagesUndisturbed DEF ClaimEvents, Answered
  <2>9. faults' \in 0 .. MaxFaults
    BY <1>1, FaultCount DEF ClaimEvents, Answered
  <2> QED
    BY <2>1, <2>3, <2>6, <2>7, <2>8, <2>9, CompletedStaysRecorded DEF Inv, Effects
<1>2. CASE ClaimUnanswered(w)
  <2> PICK B \in SUBSET Events : ClaimFresh(B)
    BY <1>2 DEF ClaimUnanswered
  <2>1. Effects
    BY <1>2, ClaimEffects DEF ClaimUnanswered
  <2>2. \A v \in Workers : SameWorker(v)
    BY <1>2 DEF ClaimUnanswered, workerVars, SameWorker
  <2>3. WorkerTypes'
    BY <1>2 DEF ClaimUnanswered, workerVars, WorkerTypes, Inv
  <2>4. WorkerOK(w)'
    BY <2>1, <2>2, OthersUndisturbed
  <2>5. faults' \in 0 .. MaxFaults
    BY <1>2, FaultCount DEF ClaimUnanswered, Fault
  <2>6. token' = token /\ delayed' = delayed
    BY <1>2 DEF ClaimUnanswered, workerVars
  <2> QED
    BY <2>1, <2>2, <2>3, <2>4, <2>5, <2>6, WorkerStep
<1> QED
  BY <1>1, <1>2

LEMMA HydrateStep ==
  ASSUME Inv, OutboxAssumption, ProcessorAssumption, NEW w \in Workers,
         HydrateBatch(w) \/ HydrateRejects(w) \/ HydrateTimesOut(w)
  PROVE  Inv' /\ Effects
<1>1. Effects
  BY IdleEffects DEF HydrateBatch, HydrateRejects, HydrateTimesOut
<1>2. faults' \in 0 .. MaxFaults /\ delayed' = delayed
  BY FaultCount DEF HydrateBatch, HydrateRejects, HydrateTimesOut, Fault
<1>3. CASE HydrateBatch(w)
  <2>1. WorkerTypes /\ WorkerOK(w)
    BY DEF Inv
  <2>2. WorkerTypes'
    BY <1>3, <2>1 DEF HydrateBatch, WorkerTypes, Steps
  <2>3. /\ pc'[w] = "ready" /\ batch'[w] = batch[w] /\ token' = token
        /\ outbox' = outbox /\ pc[w] = "hydrate"
        /\ \A v \in Workers \ {w} : SameWorker(v)
    BY <1>3, <2>1 DEF HydrateBatch, WorkerTypes, SameWorker
  <2>4. WorkerOK(w)'
    BY <2>1, <2>3 DEF WorkerOK, InHand
  <2> QED
    BY <1>1, <1>2, <2>2, <2>3, <2>4, WorkerStep
<1>4. CASE HydrateRejects(w) \/ HydrateTimesOut(w)
  <2>1. Abandon(w) /\ UNCHANGED code
    BY <1>4 DEF HydrateRejects, HydrateTimesOut
  <2> QED
    BY <1>1, <1>2, <2>1, AbandonLemma, WorkerStep
<1> QED
  BY <1>3, <1>4

LEMMA MapStep ==
  ASSUME Inv, OutboxAssumption, ProcessorAssumption, NEW w \in Workers, MapEvent(w)
  PROVE  Inv' /\ Effects
<1>1. Effects
  BY IdleEffects DEF MapEvent
<1>2. faults' \in 0 .. MaxFaults /\ delayed' = delayed
  BY FaultCount DEF MapEvent
<1>3. WorkerTypes /\ WorkerOK(w)
  BY DEF Inv
<1>4. PICK e \in batch[w] :
        /\ cur' = [cur EXCEPT ![w] = e]
        /\ \/ /\ pc' = [pc EXCEPT ![w] = "append"]
              /\ UNCHANGED err
           \/ /\ pc' = [pc EXCEPT ![w] = "fail"]
              /\ err' = [err EXCEPT ![w] = "SOURCE_INTEGRITY_FAILURE"]
  BY DEF MapEvent
<1>5. e \in Events
  BY <1>3 DEF WorkerTypes
<1>6. WorkerTypes'
  BY <1>3, <1>4, <1>5 DEF MapEvent, WorkerTypes, Steps, ErrorClasses, FailClasses
<1>7. /\ cur'[w] = e /\ batch'[w] = batch[w] /\ token' = token /\ outbox' = outbox
      /\ pc[w] = "ready"
      /\ \/ pc'[w] = "append"
         \/ pc'[w] = "fail" /\ err'[w] = "SOURCE_INTEGRITY_FAILURE"
      /\ \A v \in Workers \ {w} : SameWorker(v)
  BY <1>3, <1>4 DEF MapEvent, WorkerTypes, SameWorker
<1>8. WorkerOK(w)'
  BY <1>3, <1>7 DEF WorkerOK, InHand
<1> QED
  BY <1>1, <1>2, <1>6, <1>7, <1>8, WorkerStep

LEMMA AppendStep ==
  ASSUME Inv, OutboxAssumption, ProcessorAssumption, NEW w \in Workers,
         Append(w) \/ AppendAnswerGarbled(w)
  PROVE  Inv' /\ Effects
<1>1. pc[w] \in InHand
  BY DEF Append, AppendAnswerGarbled, InHand
<1>2. /\ cur[w] \in Events /\ code[w] \in Payloads /\ err[w] \in ErrorClasses
      /\ token[w] \in Tokens /\ outbox[cur[w]].state # "absent"
  BY <1>1, InHandFacts
<1>3. Effects
  BY <1>2, LedgerEffects DEF Append, AppendAnswerGarbled, outboxVars
<1>4. faults' \in 0 .. MaxFaults /\ delayed' = delayed
  BY FaultCount DEF Append, AppendAnswerGarbled, Answered, Fault
<1>5. CASE Goto(w, "complete", err[w]) /\ Ledger!AppendRpc(cur[w], code[w])
  <2>1. ledger'[cur[w]] = code[w]
    BY <1>2, <1>5 DEF Inv, LedgerOK, Ledger!AppendRpc
  <2> QED
    BY <1>1, <1>2, <1>3, <1>4, <1>5, <2>1, GotoLemma, WorkerStep DEF InHand
<1>6. CASE Goto(w, "verify", err[w])
  BY <1>1, <1>2, <1>3, <1>4, <1>6, GotoLemma, WorkerStep DEF InHand
<1>7. CASE Goto(w, "fail", "CONTRACT_FAILURE")
  <2>1. "CONTRACT_FAILURE" \in ErrorClasses
    BY DEF ErrorClasses, FailClasses
  <2> QED
    BY <1>1, <1>2, <1>3, <1>4, <1>7, <2>1, GotoLemma, WorkerStep DEF InHand
<1> QED
  BY <1>5, <1>6, <1>7 DEF Append, AppendAnswerGarbled

LEMMA AppendTimesOutStep ==
  ASSUME Inv, OutboxAssumption, ProcessorAssumption, NEW w \in Workers,
         AppendTimesOut(w)
  PROVE  Inv' /\ Effects
<1>1. pc[w] = "append" /\ Goto(w, "release", TransientClass) /\ TimesOut(w, "append")
  BY DEF AppendTimesOut
<1>2. Effects
  BY <1>1, IdleEffects DEF TimesOut
<1>3. faults' \in 0 .. MaxFaults
  BY <1>1, FaultCount DEF TimesOut, Fault
<1> PICK m : m = Request(w, pc[w])
  OBVIOUS
<1>4. MessageOK(m)'
  BY <1>1, RequestLemma DEF TimesOut, InHand
<1>5. delayed' = delayed \union {m}
  BY <1>1 DEF TimesOut
<1>6. TransientClass \in ErrorClasses
  BY DEF ErrorClasses
<1> QED
  BY <1>1, <1>2, <1>3, <1>4, <1>5, <1>6, GotoLemma, WorkerStep DEF InHand

LEMMA VerifyStep ==
  ASSUME Inv, OutboxAssumption, ProcessorAssumption, NEW w \in Workers,
         VerifyDuplicate(w) \/ VerifyTimesOut(w)
  PROVE  Inv' /\ Effects
<1>1. pc[w] \in InHand
  BY DEF VerifyDuplicate, VerifyTimesOut, InHand
<1>2. cur[w] \in Events /\ err[w] \in ErrorClasses
  BY <1>1, InHandFacts
<1>3. Effects /\ ledger' = ledger
  BY IdleEffects DEF VerifyDuplicate, VerifyTimesOut
<1>4. faults' \in 0 .. MaxFaults /\ delayed' = delayed
  BY FaultCount DEF VerifyDuplicate, VerifyTimesOut, Answered, Fault
<1>5. CASE SamePayload(w) /\ Goto(w, "complete", err[w])
  <2>1. ledger'[cur[w]] = code[w]
    BY <1>3, <1>5 DEF SamePayload
  <2> QED
    BY <1>1, <1>2, <1>3, <1>4, <1>5, <2>1, GotoLemma, WorkerStep DEF InHand
<1>6. CASE Goto(w, "fail", "P8_DUPLICATE_MISMATCH")
  <2>1. "P8_DUPLICATE_MISMATCH" \in ErrorClasses
    BY DEF ErrorClasses, FailClasses
  <2> QED
    BY <1>1, <1>2, <1>3, <1>4, <1>6, <2>1, GotoLemma, WorkerStep DEF InHand
<1> QED
  BY <1>5, <1>6 DEF VerifyDuplicate, VerifyTimesOut

LEMMA SettleStep ==
  ASSUME Inv, OutboxAssumption, ProcessorAssumption, NEW w \in Workers,
         Complete(w) \/ Release(w) \/ Fail(w)
  PROVE  Inv' /\ Effects
<1>1. pc[w] \in InHand /\ NextEvent(w) /\ Answered /\ UNCHANGED ledger
  BY DEF Complete, Release, Fail, InHand
<1>2. /\ cur[w] \in Events /\ token[w] \in Tokens /\ code[w] \in Payloads
      /\ pc[w] = "complete" => ledger[cur[w]] = code[w]
      /\ pc[w] = "fail" => err[w] \in ErrorClasses \ {"none"}
  BY <1>1, InHandFacts
<1>3. Effects
  <2>1. CASE Complete(w)
    BY <1>1, <1>2, <2>1, CompleteEffects DEF Complete
  <2>2. CASE Release(w)
    BY <1>1, <1>2, <2>2, ReleaseEffects DEF Release
  <2>3. CASE Fail(w)
    BY <1>1, <1>2, <2>3, FailEffects DEF Fail
  <2> QED BY <2>1, <2>2, <2>3
<1>4. faults' \in 0 .. MaxFaults /\ delayed' = delayed
  BY <1>1, FaultCount DEF Answered
<1> QED
  BY <1>1, <1>3, <1>4, NextEventLemma, WorkerStep

LEMMA SettleTimesOutStep ==
  ASSUME Inv, OutboxAssumption, ProcessorAssumption, NEW w \in Workers,
         SettleTimesOut(w)
  PROVE  Inv' /\ Effects
<1>1. /\ pc[w] \in {"complete", "release", "fail"}
      /\ NextEvent(w) /\ TimesOut(w, pc[w])
  BY DEF SettleTimesOut
<1>2. Effects
  BY <1>1, IdleEffects DEF TimesOut
<1>3. faults' \in 0 .. MaxFaults
  BY <1>1, FaultCount DEF TimesOut, Fault
<1> PICK m : m = Request(w, pc[w])
  OBVIOUS
<1>4. MessageOK(m)'
  BY <1>1, RequestLemma DEF TimesOut, InHand
<1>5. delayed' = delayed \union {m}
  BY <1>1 DEF TimesOut
<1> QED
  BY <1>1, <1>2, <1>3, <1>4, <1>5, NextEventLemma, WorkerStep DEF InHand

LEMMA RestartStep ==
  ASSUME Inv, OutboxAssumption, ProcessorAssumption, NEW w \in Workers, Restart(w)
  PROVE  Inv' /\ Effects
<1>1. Effects
  BY IdleEffects DEF Restart
<1>2. faults' \in 0 .. MaxFaults /\ delayed' = delayed
  BY FaultCount DEF Restart, Fault
<1>3. /\ WorkerTypes' /\ WorkerOK(w)' /\ token'[w] = NoToken
      /\ \A v \in Workers \ {w} : SameWorker(v)
  BY AbandonLemma DEF Restart
<1> QED
  BY <1>1, <1>2, <1>3, WorkerStep

----------------------------------------------------------------------------
(* Steps of the environment *)

(* A step in which no worker moves keeps the invariant if it sends nothing.*)
LEMMA EnvironmentStep ==
  ASSUME Inv, OutboxAssumption, Effects, UNCHANGED <<workerVars, code>>,
         delayed' \subseteq delayed, faults' \in 0 .. MaxFaults
  PROVE  Inv'
<1>1. \A v \in Workers : SameWorker(v)
  BY DEF workerVars, SameWorker
<1>2. \A v \in Workers : WorkerOK(v)'
  BY <1>1, OthersUndisturbed
<1>3. WorkerTypes' /\ TokensDistinct'
  BY DEF Inv, WorkerTypes, TokensDistinct, workerVars
<1>4. \A m \in delayed' : MessageOK(m)'
  BY MessagesUndisturbed
<1> QED
  BY <1>2, <1>3, <1>4, CompletedStaysRecorded DEF Inv, Effects

LEMMA DeliverStep ==
  ASSUME Inv, OutboxAssumption, ProcessorAssumption, NEW m \in delayed,
         Deliver(m) \/ Drop(m)
  PROVE  Inv' /\ Effects
<1>1. MessageOK(m)
  BY DEF Inv
<1>2. /\ m.event \in Events /\ m.token \in Tokens /\ m.payload \in Payloads
      /\ m.error \in ErrorClasses /\ outbox[m.event].state # "absent"
  BY <1>1 DEF MessageOK, Messages
<1>3. CASE Drop(m)
  <2>1. Effects
    BY <1>3, IdleEffects DEF Drop
  <2>2. faults' \in 0 .. MaxFaults
    BY <1>3 DEF Drop, Inv
  <2> QED
    BY <1>3, <2>1, <2>2, EnvironmentStep DEF Drop
<1>4. CASE Deliver(m)
  <2>1. ASSUME \/ Ledger!AppendRpc(m.event, m.payload)
               \/ Ledger!AppendConflict(m.event),
               UNCHANGED outboxVars
        PROVE  Effects
    BY <1>2, <2>1, LedgerEffects
  <2>2. ASSUME m.op = "complete", CompleteRpc(m.event, m.token, m.payload),
               UNCHANGED ledger
        PROVE  Effects
    BY <1>1, <1>2, <2>2, CompleteEffects DEF MessageOK
  <2>3. ASSUME ReleaseRpc(m.event, m.token), UNCHANGED ledger
        PROVE  Effects
    BY <1>2, <2>3, ReleaseEffects
  <2>4. ASSUME m.op = "fail", FailRpc(m.event, m.token, m.error), UNCHANGED ledger
        PROVE  Effects
    BY <1>1, <1>2, <2>4, FailEffects DEF MessageOK
  <2>5. Effects
    BY <1>4, <2>1, <2>2, <2>3, <2>4 DEF Deliver, Execute
  <2>6. faults' \in 0 .. MaxFaults
    BY <1>4 DEF Deliver, Inv
  <2> QED
    BY <1>4, <2>5, <2>6, EnvironmentStep DEF Deliver
<1> QED
  BY <1>3, <1>4

LEMMA TimeStep ==
  ASSUME Inv, OutboxAssumption, ProcessorAssumption,
         \/ \E t \in Tokens : ExpireLease(t)
         \/ \E e \in Events : ElapseBackoff(e)
  PROVE  Inv' /\ Effects
<1>1. \/ \E t \in Tokens : LeaseExpires(t)
      \/ \E e \in Events : BackoffElapses(e)
  BY DEF ExpireLease, ElapseBackoff
<1>2. /\ UNCHANGED <<workerVars, code>> /\ delayed' = delayed /\ ledger' = ledger
      /\ faults' \in 0 .. MaxFaults
  <2>1. CASE \E t \in Tokens : ExpireLease(t)
    BY <2>1, FaultCount DEF ExpireLease, Fault
  <2>2. CASE \E e \in Events : ElapseBackoff(e)
    BY <2>2 DEF ElapseBackoff, Inv
  <2> QED BY <2>1, <2>2
<1>3. OutboxInv' /\ Quiet
  BY <1>1, TimeLemma DEF Inv
<1>4. Effects
  BY <1>2, <1>3, QuietEffects
<1> QED
  BY <1>2, <1>4, EnvironmentStep

LEMMA SubmitStep ==
  ASSUME Inv, OutboxAssumption, ProcessorAssumption, NEW e \in Events, Submit(e)
  PROVE  Inv' /\ Effects
<1>1. Effects
  BY SubmitEffects DEF Submit
<1>2. faults' \in 0 .. MaxFaults
  BY DEF Submit, Inv
<1> QED
  BY <1>1, <1>2, EnvironmentStep DEF Submit

LEMMA StutterStep ==
  ASSUME Inv, OutboxAssumption, UNCHANGED vars
  PROVE  Inv' /\ Effects
<1>1. Effects
  BY IdleEffects DEF vars
<1> QED
  BY <1>1, EnvironmentStep DEF vars, workerVars, Inv

----------------------------------------------------------------------------
(* The theorems *)

LEMMA InvInit ==
  ASSUME OutboxAssumption, ProcessorAssumption, Init
  PROVE  Inv
<1>1. OutboxInv
  <2>1. RowOK(AbsentRow)
    BY DEF RowOK, Row, AbsentRow, OperationalState, OutboxAssumption, ErrorClasses
  <2>2. \A e \in Events : outbox[e] = AbsentRow
    BY DEF Init, OutboxInit
  <2>3. outbox \in [Events -> Row]
    BY <2>1 DEF Init, OutboxInit, RowOK
  <2> QED
    BY <2>1, <2>2, <2>3 DEF OutboxInv, Init, OutboxInit
<1>2. LedgerOK
  BY DEF LedgerOK, Init, Ledger!LedgerInit
<1>3. WorkerTypes
  BY DEF WorkerTypes, Init, Steps, ErrorClasses
<1>4. \A w \in Workers : WorkerOK(w)
  BY DEF WorkerOK, Init, InHand
<1>5. TokensDistinct
  BY DEF TokensDistinct, Init
<1>6. CompletedMeansRecorded
  BY DEF CompletedMeansRecorded, Init, OutboxInit, AbsentRow
<1> QED
  BY <1>1, <1>2, <1>3, <1>4, <1>5, <1>6 DEF Inv, Init, ProcessorAssumption

LEMMA InvNext ==
  ASSUME Inv, OutboxAssumption, ProcessorAssumption, [Next]_vars
  PROVE  Inv' /\ Effects
<1>1. ASSUME NEW w \in Workers, Work(w) \/ WorkerFault(w) PROVE Inv' /\ Effects
  BY <1>1, ClaimStep, HydrateStep, MapStep, AppendStep, AppendTimesOutStep, VerifyStep,
     SettleStep, SettleTimesOutStep, RestartStep DEF Work, WorkerFault
<1>2. ASSUME NEW e \in Events, Submit(e) \/ ElapseBackoff(e) PROVE Inv' /\ Effects
  BY <1>2, SubmitStep, TimeStep
<1>3. ASSUME NEW m \in delayed, Deliver(m) \/ Drop(m) PROVE Inv' /\ Effects
  BY <1>3, DeliverStep
<1>4. ASSUME NEW t \in Tokens, ExpireLease(t) PROVE Inv' /\ Effects
  BY <1>4, TimeStep
<1>5. CASE UNCHANGED vars
  BY <1>5, StutterStep
<1> QED
  BY <1>1, <1>2, <1>3, <1>4, <1>5 DEF Next

(* Inv holds in every reachable state.                                     *)
THEOREM Invariance == Spec => []Inv
<1>1. Init => Inv
  BY InvInit, OutboxAssumption, ProcessorAssumption
<1>2. Inv /\ [Next]_vars => Inv'
  BY InvNext, OutboxAssumption, ProcessorAssumption
<1> QED
  BY <1>1, <1>2, PTL DEF Spec

(* Types, and the constraint on the columns of an outbox row that the      *)
(* table enforces: whatever happens, no RPC is refused by that constraint. *)
THEOREM TypeCorrect == Spec => []TypeOK
<1>1. Inv => TypeOK
  <2> SUFFICES ASSUME Inv PROVE TypeOK
    OBVIOUS
  <2>1. delayed \subseteq Messages
    BY DEF Inv, MessageOK
  <2>2. \A e \in Events : OperationalState(outbox[e])
    BY DEF Inv, OutboxInv, RowOK
  <2> QED
    BY <2>1, <2>2 DEF TypeOK, Inv, OutboxInv, LedgerOK, WorkerTypes
<1> QED
  BY <1>1, Invariance, PTL

(* A completed row carries the hash of the ledger entry of its event.      *)
THEOREM CompletedRecorded == Spec => []CompletedMeansRecorded
<1>1. Inv => CompletedMeansRecorded
  BY DEF Inv
<1> QED
  BY <1>1, Invariance, PTL

(* The current claim of an event is held by at most one worker.            *)
THEOREM ExclusiveClaims == Spec => []ClaimIsExclusive
<1>1. Inv => ClaimIsExclusive
  <2> SUFFICES ASSUME Inv, NEW v \in Workers, NEW w \in Workers,
                      NEW e \in batch[v] \intersect batch[w],
                      Owns(e, token[v]), Owns(e, token[w])
               PROVE  v = w
    BY DEF ClaimIsExclusive
  <2>1. token[v] = token[w]
    BY DEF Owns
  <2>2. e \in Events /\ token[v] \in Tokens \union {NoToken}
    BY DEF Inv, WorkerTypes
  <2>3. token[v] # NoToken
    BY <2>2, OwnerFacts DEF Owns, Inv
  <2> QED
    BY <2>1, <2>3 DEF Inv, TokensDistinct
<1> QED
  BY <1>1, Invariance, PTL

(* A waiting row has an attempt left.                                      *)
THEOREM AttemptsLeft == Spec => []PendingHasAttemptLeft
<1>1. Inv => PendingHasAttemptLeft
  BY DEF Inv, OutboxInv, RowOK, PendingHasAttemptLeft
<1> QED
  BY <1>1, Invariance, PTL

(* No step of any worker, late request or clock touches a settled row.     *)
THEOREM SettledStaysSettled == Spec => SettledIsFinal
<1>1. Inv /\ [Next]_vars =>
        \A e \in Events : outbox[e].state \in Terminal => outbox'[e] = outbox[e]
  BY InvNext, OutboxAssumption, ProcessorAssumption DEF Effects
<1>2. Inv /\ [Next]_vars =>
        [\A e \in Events : outbox[e].state \in Terminal => outbox'[e] = outbox[e]]_vars
  BY <1>1
<1> QED
  BY <1>2, Invariance, PTL DEF SettledIsFinal, Spec

(* Only the settlement of its event in hand lets a worker write a row, and *)
(* the RPC compares the row's owner with the worker's token.               *)
LEMMA OvertakenStep ==
  ASSUME Inv, OutboxAssumption, NEW w \in Workers, NEW e \in batch[w],
         outbox[e].owner # token[w], Work(w) \/ WorkerFault(w),
         <<pc[w], batch[w]>> # <<pc'[w], batch'[w]>>
  PROVE  outbox'[e] = outbox[e]
<1>1. /\ WorkerOK(w) /\ outbox \in [Events -> Row] /\ cur[w] \in Events \union {NoEvent}
      /\ e \in Events
  BY DEF Inv, OutboxInv, WorkerTypes
<1>2. CASE ClaimEvents(w)
  BY <1>1, <1>2 DEF ClaimEvents, WorkerOK
<1>3. CASE ClaimUnanswered(w)
  BY <1>3 DEF ClaimUnanswered, workerVars
<1>4. CASE HydrateBatch(w) \/ HydrateRejects(w) \/ HydrateTimesOut(w) \/ MapEvent(w)
  BY <1>4 DEF HydrateBatch, HydrateRejects, HydrateTimesOut, MapEvent
<1>5. CASE Append(w) \/ AppendTimesOut(w) \/ AppendAnswerGarbled(w)
  BY <1>5 DEF Append, AppendTimesOut, AppendAnswerGarbled, TimesOut, outboxVars
<1>6. CASE VerifyDuplicate(w) \/ VerifyTimesOut(w) \/ SettleTimesOut(w) \/ Restart(w)
  BY <1>6 DEF VerifyDuplicate, VerifyTimesOut, SettleTimesOut, TimesOut, Restart
<1>7. CASE Complete(w) \/ Release(w) \/ Fail(w)
  <2>1. cur[w] \in Events
    BY <1>1, <1>7 DEF Complete, Release, Fail, WorkerOK, InHand, Inv, WorkerTypes
  <2>2. CASE StaleClaim(cur[w], token[w])
    BY <2>2 DEF StaleClaim, outboxVars
  <2>3. CASE Owns(cur[w], token[w])
    <3>1. e # cur[w]
      BY <2>3 DEF Owns
    <3>2. \E r : outbox' = [outbox EXCEPT ![cur[w]] = r]
      BY <1>7, <2>3 DEF Complete, Release, Fail, CompleteRpc, ReleaseRpc, FailRpc, StaleClaim
    <3> QED
      BY <1>1, <3>1, <3>2
  <2> QED
    BY <1>7, <2>2, <2>3 DEF Complete, Release, Fail, CompleteRpc, ReleaseRpc, FailRpc
<1> QED
  BY <1>2, <1>3, <1>4, <1>5, <1>6, <1>7 DEF Work, WorkerFault

(* What another worker does leaves a worker's step and batch alone.        *)
LEMMA OthersStandStill ==
  ASSUME Inv, NEW w \in Workers, NEW v \in Workers \ {w}, Work(v) \/ WorkerFault(v)
  PROVE  pc'[w] = pc[w] /\ batch'[w] = batch[w]
<1>1. pc \in [Workers -> Steps] /\ batch \in [Workers -> SUBSET Events]
  BY DEF Inv, WorkerTypes
<1>2. CASE ClaimEvents(v) \/ ClaimUnanswered(v)
  BY <1>1, <1>2 DEF ClaimEvents, ClaimUnanswered, workerVars
<1>3. CASE HydrateBatch(v) \/ HydrateRejects(v) \/ HydrateTimesOut(v) \/ MapEvent(v) \/ Restart(v)
  BY <1>1, <1>3 DEF HydrateBatch, HydrateRejects, HydrateTimesOut, MapEvent, Restart, Abandon
<1>4. CASE Append(v) \/ AppendTimesOut(v) \/ AppendAnswerGarbled(v)
  BY <1>1, <1>4 DEF Append, AppendTimesOut, AppendAnswerGarbled, Goto
<1>5. CASE VerifyDuplicate(v) \/ VerifyTimesOut(v)
  BY <1>1, <1>5 DEF VerifyDuplicate, VerifyTimesOut, Goto
<1>6. CASE Complete(v) \/ Release(v) \/ Fail(v) \/ SettleTimesOut(v)
  BY <1>1, <1>6 DEF Complete, Release, Fail, SettleTimesOut, NextEvent
<1> QED
  BY <1>2, <1>3, <1>4, <1>5, <1>6 DEF Work, WorkerFault

(* A worker that was overtaken cannot change the row it lost.              *)
THEOREM OvertakenIsHarmless == Spec => OvertakenWorkerIsHarmless
<1> DEFINE Lost(w, e) == /\ outbox[e].owner # token[w]
                         /\ <<pc[w], batch[w]>> # <<pc'[w], batch'[w]>>
           Harmless == \A w \in Workers : \A e \in batch[w] :
                          Lost(w, e) => outbox'[e] = outbox[e]
<1>1. Inv /\ [Next]_vars => Harmless
  <2> SUFFICES ASSUME Inv, [Next]_vars, NEW w \in Workers, NEW e \in batch[w], Lost(w, e)
               PROVE  outbox'[e] = outbox[e]
    OBVIOUS
  <2>1. CASE Work(w) \/ WorkerFault(w)
    BY <2>1, OvertakenStep, OutboxAssumption
  <2>2. ASSUME NEW v \in Workers \ {w}, Work(v) \/ WorkerFault(v) PROVE FALSE
    BY <2>2, OthersStandStill
  <2>3. ASSUME UNCHANGED workerVars PROVE FALSE
    BY <2>3 DEF workerVars
  <2>4. CASE \E f \in Events : Submit(f) \/ ElapseBackoff(f)
    BY <2>3, <2>4 DEF Submit, ElapseBackoff
  <2>5. CASE (\E m \in delayed : Deliver(m) \/ Drop(m)) \/ \E t \in Tokens : ExpireLease(t)
    BY <2>3, <2>5 DEF Deliver, Drop, ExpireLease
  <2>6. CASE UNCHANGED vars
    BY <2>3, <2>6 DEF vars
  <2> QED
    BY <2>1, <2>2, <2>4, <2>5, <2>6 DEF Next
<1>2. Inv /\ [Next]_vars => [Harmless]_vars
  BY <1>1
<1> QED
  BY <1>2, Invariance, PTL DEF OvertakenWorkerIsHarmless, Spec

(* The table, the workers and the network implement the delivery contract: *)
(* an initial state maps to an initial state of TraceDelivery and every    *)
(* step to one of its steps or to a stutter.                               *)
THEOREM Refinement == Spec => ImplementsTraceDelivery
<1>1. Init => Delivery!DeliveryInit
  BY DEF Init, OutboxInit, AbsentRow, DeliveryStatus, Ledger!LedgerInit,
         Delivery!DeliveryInit
<1>2. Inv /\ [Next]_vars => [Delivery!DeliveryNext]_(Delivery!deliveryVars)
  BY InvNext, OutboxAssumption, ProcessorAssumption DEF Effects, DeliveryStep
<1> QED
  BY <1>1, <1>2, Invariance, PTL
  DEF ImplementsTraceDelivery, Delivery!DeliverySpec, Spec
----------------------------------------------------------------------------
(* A single fault *)

(* Claims, submissions and the clock settle nothing.                       *)
LEMMA TableKeepsOpen ==
  ASSUME Inv, OutboxAssumption,
         \/ UNCHANGED outbox
         \/ \E B \in SUBSET Events, t \in Tokens : ClaimRpc(B, t)
         \/ \E e \in Events : InsertEvent(e)
         \/ \E t \in Tokens : LeaseExpires(t)
         \/ \E e \in Events : BackoffElapses(e)
  PROVE  \A f \in Events : outbox'[f].state \in Terminal => outbox[f].state \in Terminal
<1>1. outbox \in [Events -> Row]
  BY DEF Inv, OutboxInv
<1>2. CASE UNCHANGED outbox
  BY <1>2
<1>3. CASE \E B \in SUBSET Events, t \in Tokens : ClaimRpc(B, t)
  <2> PICK B \in SUBSET Events, t \in Tokens : ClaimRpc(B, t)
    BY <1>3
  <2> QED
    BY ClaimLemma DEF Inv, Quiet, Terminal
<1>4. CASE \E e \in Events : InsertEvent(e)
  BY <1>1, <1>4 DEF InsertEvent, Terminal, Row
<1>5. CASE \E t \in Tokens : LeaseExpires(t)
  BY <1>1, <1>5 DEF LeaseExpires, Row
<1>6. CASE \E e \in Events : BackoffElapses(e)
  BY <1>1, <1>6 DEF BackoffElapses, Row
<1> QED
  BY <1>2, <1>3, <1>4, <1>5, <1>6

(* One mapper is deployed, its ledger answers are well formed, every row   *)
(* can be read back, and a release is allowed a second attempt.            *)
PlainDeployment ==
  /\ \A p, q \in Payloads : p = q
  /\ Malformed = {}
  /\ "garbled" \notin FaultKinds
  /\ MaxAttempts > 1

(* While nothing has gone wrong, whoever has an event in its batch has its *)
(* claim, every claimed row is at its first attempt and in some batch, and *)
(* an entry is only ahead of its row while its worker is about to complete *)
(* it.                                                                     *)
UndisturbedWorker(w) ==
  /\ pc[w] \notin {"verify", "release"}
  /\ \A e \in batch[w] : Owns(e, token[w])

UndisturbedRow(e) ==
  /\ outbox[e].state = "PENDING" => outbox[e].attempts = 0
  /\ outbox[e].state = "PROCESSING" =>
       /\ outbox[e].attempts = 1
       /\ outbox[e].lease = "live"
       /\ \E w \in Workers : e \in batch[w]
  /\ Ledger!Recorded(e) =>
       \/ outbox[e].state = "COMPLETED"
       \/ \E w \in Workers : pc[w] = "complete" /\ cur[w] = e

Undisturbed ==
  /\ delayed = {}
  /\ \A w \in Workers : UndisturbedWorker(w)
  /\ \A e \in Events : UndisturbedRow(e)

(* Up to the first fault only what the mapper rejects is on its way to a   *)
(* failure, and a release that still counts is of a first attempt.         *)
SparedWorker(w) ==
  /\ pc[w] = "fail" => cur[w] \in Unmappable
  /\ pc[w] = "release" /\ Owns(cur[w], token[w]) => outbox[cur[w]].attempts = 1

HarmlessMessage(m) ==
  /\ m.op # "release"
  /\ m.op = "fail" => m.event \in Unmappable

Spared ==
  /\ \A w \in Workers : SparedWorker(w)
  /\ \A m \in delayed : HarmlessMessage(m)
  /\ \A e \in Events \ Unmappable : outbox[e].state # "PERMANENT_FAILURE"

VerifiesRecorded(w) == pc[w] = "verify" => Ledger!Recorded(cur[w])

OneFaultInv ==
  /\ \A w \in Workers : VerifiesRecorded(w)
  /\ faults = 0 => Undisturbed
  /\ faults <= 1 => Spared

----------------------------------------------------------------------------

(* Whoever owns a row after a step owned it before, at the same attempt,   *)
(* or is the worker that claimed it just now.                              *)
AttemptsKept ==
  \A v \in Workers : \A e \in Events :
    /\ outbox'[e].owner = token[v]
    /\ outbox'[e].state = "PROCESSING"
    => /\ Owns(e, token[v])
       /\ outbox'[e].attempts = outbox[e].attempts

LEMMA ClaimedRows ==
  ASSUME OutboxInv, NEW B, NEW t \in Tokens, ClaimRpc(B, t)
  PROVE  /\ B \subseteq Eligible
         /\ \A e \in B : /\ outbox'[e].state = "PROCESSING"
                         /\ outbox'[e].owner = t
                         /\ outbox'[e].lease = "live"
                         /\ outbox'[e].attempts = NextAttempt(outbox[e].attempts)
         /\ \A e \in Events \ B : outbox'[e] = outbox[e]
<1>1. B \subseteq Eligible /\ Eligible \subseteq Events
  BY DEF ClaimRpc, Eligible
<1>2. ASSUME NEW e \in B
      PROVE  /\ outbox'[e].state = "PROCESSING"
             /\ outbox'[e].owner = t
             /\ outbox'[e].lease = "live"
             /\ outbox'[e].attempts = NextAttempt(outbox[e].attempts)
  <2>1. outbox[e] \in Row
    BY <1>1 DEF OutboxInv
  <2>2. outbox'[e] = [outbox[e] EXCEPT !.state = "PROCESSING", !.owner = t,
                            !.lease = "live", !.attempts = NextAttempt(@)]
    BY <1>1 DEF ClaimRpc
  <2> QED BY <2>1, <2>2 DEF Row
<1>3. \A e \in Events \ B : outbox'[e] = outbox[e]
  BY DEF ClaimRpc
<1> QED
  BY <1>1, <1>2, <1>3

LEMMA ClaimKeepsAttempts ==
  ASSUME Inv, NEW B \in SUBSET Events, ClaimFresh(B)
  PROVE  AttemptsKept
<1>1. FreshToken \in Tokens /\ FreshToken \notin UsedTokens
  BY FreshTokenIsFresh DEF ClaimFresh
<1>2. /\ \A e \in B : outbox'[e].owner = FreshToken
      /\ \A e \in Events \ B : outbox'[e] = outbox[e]
  BY <1>1, ClaimedRows DEF ClaimFresh, Inv
<1>3. \A v \in Workers : token[v] # FreshToken
  BY <1>1 DEF UsedTokens
<1> QED
  BY <1>2, <1>3 DEF AttemptsKept, Owns

LEMMA MoveKeepsAttempts ==
  ASSUME Inv,
         \/ UNCHANGED outbox
         \/ \E e \in Events : \E t \in Tokens, r \in Row : Moves(e, t, r)
  PROVE  AttemptsKept
<1>1. CASE UNCHANGED outbox
  BY <1>1 DEF AttemptsKept, Owns
<1>2. CASE \E e \in Events : \E t \in Tokens, r \in Row : Moves(e, t, r)
  <2> PICK e \in Events, t \in Tokens, r \in Row : Moves(e, t, r)
    BY <1>2
  <2>1. outbox'[e] = r /\ \A f \in Events \ {e} : outbox'[f] = outbox[f]
    BY DEF Moves, Inv, OutboxInv
  <2>2. r.state # "PROCESSING"
    BY DEF Moves, RowOK, OperationalState
  <2> QED
    BY <2>1, <2>2 DEF AttemptsKept, Owns
<1> QED
  BY <1>1, <1>2

LEMMA TimeKeepsAttempts ==
  ASSUME Inv, \/ \E e \in Events : InsertEvent(e) \/ BackoffElapses(e)
              \/ \E t \in Tokens : LeaseExpires(t)
  PROVE  AttemptsKept
<1>1. outbox \in [Events -> Row]
  BY DEF Inv, OutboxInv
<1>2. CASE \E e \in Events : InsertEvent(e) \/ BackoffElapses(e)
  <2> PICK e \in Events : InsertEvent(e) \/ BackoffElapses(e)
    BY <1>2
  <2>1. outbox'[e].state = "PENDING" /\ \A f \in Events \ {e} : outbox'[f] = outbox[f]
    BY <1>1 DEF InsertEvent, BackoffElapses, Row
  <2> QED
    BY <2>1 DEF AttemptsKept, Owns
<1>3. CASE \E t \in Tokens : LeaseExpires(t)
  <2>1. \A f \in Events : /\ outbox'[f].state = outbox[f].state
                          /\ outbox'[f].owner = outbox[f].owner
                          /\ outbox'[f].attempts = outbox[f].attempts
    BY <1>1, <1>3 DEF LeaseExpires, Row
  <2> QED
    BY <2>1 DEF AttemptsKept, Owns
<1> QED
  BY <1>2, <1>3

----------------------------------------------------------------------------

(* A worker's step leaves the other workers alone.                         *)
LEMMA OthersKeep ==
  ASSUME Inv, NEW w \in Workers, Work(w) \/ WorkerFault(w)
  PROVE  \A v \in Workers \ {w} : SameWorker(v)
<1>1. WorkerTypes
  BY DEF Inv
<1>2. CASE ClaimEvents(w) \/ ClaimUnanswered(w)
  BY <1>1, <1>2 DEF ClaimEvents, ClaimUnanswered, workerVars, WorkerTypes, SameWorker
<1>3. CASE \/ HydrateBatch(w) \/ HydrateRejects(w) \/ HydrateTimesOut(w)
           \/ MapEvent(w) \/ Restart(w)
  BY <1>1, <1>3 DEF HydrateBatch, HydrateRejects, HydrateTimesOut, MapEvent, Restart,
                    Abandon, WorkerTypes, SameWorker
<1>4. CASE \/ Append(w) \/ AppendTimesOut(w) \/ AppendAnswerGarbled(w)
           \/ VerifyDuplicate(w) \/ VerifyTimesOut(w)
  BY <1>1, <1>4 DEF Append, AppendTimesOut, AppendAnswerGarbled, VerifyDuplicate,
                    VerifyTimesOut, Goto, WorkerTypes, SameWorker
<1>5. CASE Complete(w) \/ Release(w) \/ Fail(w) \/ SettleTimesOut(w)
  BY <1>1, <1>5 DEF Complete, Release, Fail, SettleTimesOut, NextEvent, WorkerTypes,
                    SameWorker
<1> QED
  BY <1>2, <1>3, <1>4, <1>5 DEF Work, WorkerFault

(* No step of the environment moves a worker or sends a request.           *)
EnvironmentActs ==
  \/ \E e \in Events : Submit(e) \/ ElapseBackoff(e)
  \/ \E m \in delayed : Deliver(m) \/ Drop(m)
  \/ \E t \in Tokens : ExpireLease(t)
  \/ UNCHANGED vars

LEMMA EnvironmentKeeps ==
  ASSUME EnvironmentActs
  PROVE  (\A v \in Workers : SameWorker(v)) /\ delayed' \subseteq delayed
  BY DEF EnvironmentActs, Submit, ElapseBackoff, Deliver, Drop, ExpireLease, vars,
         workerVars, SameWorker

LEMMA FaultsGrow ==
  ASSUME Inv, ProcessorAssumption, [Next]_vars
  PROVE  faults \in Nat /\ faults' \in {faults, faults + 1}
<1>1. faults \in Nat
  BY DEF Inv, ProcessorAssumption
<1>2. ASSUME NEW w \in Workers, Work(w) PROVE faults' = faults
  BY <1>2 DEF Work, ClaimEvents, HydrateBatch, HydrateRejects, MapEvent, Append,
              VerifyDuplicate, Complete, Release, Fail, Answered, NoFault
<1>3. ASSUME NEW w \in Workers, WorkerFault(w) PROVE faults' = faults + 1
  BY <1>3 DEF WorkerFault, ClaimUnanswered, HydrateTimesOut, AppendTimesOut,
              AppendAnswerGarbled, VerifyTimesOut, SettleTimesOut, Restart, TimesOut, Fault
<1>4. CASE \E t \in Tokens : ExpireLease(t)
  BY <1>1, <1>4 DEF ExpireLease, Fault, NoFault
<1>5. CASE \/ \E e \in Events : Submit(e) \/ ElapseBackoff(e)
           \/ \E m \in delayed : Deliver(m) \/ Drop(m)
           \/ UNCHANGED vars
  BY <1>1, <1>5 DEF Submit, ElapseBackoff, Deliver, Drop, vars
<1> QED
  BY <1>1, <1>2, <1>3, <1>4, <1>5 DEF Next

(* The effect of the RPCs that settle a row.                               *)
Settles(e) ==
  \/ UNCHANGED outbox
  \/ \E t \in Tokens, r \in Row : Moves(e, t, r)

LEMMA SettlesLemma ==
  ASSUME Inv, OutboxAssumption, NEW e \in Events, NEW t \in Tokens,
         \/ \E h \in Payloads : CompleteRpc(e, t, h)
         \/ ReleaseRpc(e, t)
         \/ \E error \in ErrorClasses \ {"none"} : FailRpc(e, t, error)
  PROVE  Settles(e)
<1>1. OutboxInv
  BY DEF Inv
<1>2. CASE \E h \in Payloads : CompleteRpc(e, t, h)
  BY <1>1, <1>2, CompleteLemma DEF Settles
<1>3. CASE ReleaseRpc(e, t)
  BY <1>1, <1>3, ReleaseLemma DEF Settles
<1>4. CASE \E error \in ErrorClasses \ {"none"} : FailRpc(e, t, error)
  BY <1>1, <1>4, FailLemma DEF Settles
<1> QED
  BY <1>2, <1>3, <1>4

LEMMA WorkerSettles ==
  ASSUME Inv, OutboxAssumption, NEW w \in Workers, Complete(w) \/ Release(w) \/ Fail(w)
  PROVE  cur[w] \in Events /\ Settles(cur[w])
<1>1. pc[w] \in InHand
  BY DEF Complete, Release, Fail, InHand
<1>2. /\ cur[w] \in Events /\ token[w] \in Tokens /\ code[w] \in Payloads
      /\ pc[w] = "fail" => err[w] \in ErrorClasses \ {"none"}
  BY <1>1, InHandFacts
<1> QED
  BY <1>2, SettlesLemma DEF Complete, Release, Fail

LEMMA MessageSettles ==
  ASSUME Inv, OutboxAssumption, NEW m \in delayed, Execute(m)
  PROVE  m.event \in Events /\ Settles(m.event)
<1>1. MessageOK(m)
  BY DEF Inv
<1>2. /\ m.event \in Events /\ m.token \in Tokens /\ m.payload \in Payloads
      /\ m.op = "fail" => m.error \in ErrorClasses \ {"none"}
  BY <1>1 DEF MessageOK, Messages
<1>3. CASE UNCHANGED outboxVars
  BY <1>2, <1>3 DEF Settles, outboxVars
<1>4. CASE ~UNCHANGED outboxVars
  BY <1>2, <1>4, SettlesLemma DEF Execute
<1> QED
  BY <1>3, <1>4

LEMMA AttemptsNext ==
  ASSUME Inv, OutboxAssumption, ProcessorAssumption, [Next]_vars
  PROVE  AttemptsKept
<1>1. ASSUME NEW w \in Workers, ClaimEvents(w) \/ ClaimUnanswered(w) PROVE AttemptsKept
  BY <1>1, ClaimKeepsAttempts DEF ClaimEvents, ClaimUnanswered
<1>2. ASSUME NEW w \in Workers, Complete(w) \/ Release(w) \/ Fail(w) PROVE AttemptsKept
  BY <1>2, WorkerSettles, MoveKeepsAttempts DEF Settles
<1>3. ASSUME NEW w \in Workers,
             \/ HydrateBatch(w) \/ HydrateRejects(w) \/ HydrateTimesOut(w) \/ MapEvent(w)
             \/ Append(w) \/ AppendTimesOut(w) \/ AppendAnswerGarbled(w)
             \/ VerifyDuplicate(w) \/ VerifyTimesOut(w) \/ SettleTimesOut(w) \/ Restart(w)
      PROVE  AttemptsKept
  <2>1. UNCHANGED outbox
    BY <1>3 DEF HydrateBatch, HydrateRejects, HydrateTimesOut, MapEvent, Append,
       AppendTimesOut, AppendAnswerGarbled, VerifyDuplicate, VerifyTimesOut,
       SettleTimesOut, Restart, TimesOut, outboxVars
  <2> QED BY <2>1, MoveKeepsAttempts
<1>4. ASSUME NEW m \in delayed, Deliver(m) PROVE AttemptsKept
  BY <1>4, MessageSettles, MoveKeepsAttempts DEF Deliver, Settles
<1>5. CASE UNCHANGED vars \/ \E m \in delayed : Drop(m)
  BY <1>5, MoveKeepsAttempts DEF vars, Drop
<1>6. CASE \/ \E e \in Events : Submit(e) \/ ElapseBackoff(e)
           \/ \E t \in Tokens : ExpireLease(t)
  BY <1>6, TimeKeepsAttempts DEF Submit, ElapseBackoff, ExpireLease
<1> QED
  BY <1>1, <1>2, <1>3, <1>4, <1>5, <1>6 DEF Next, Work, WorkerFault

----------------------------------------------------------------------------
(* A worker that looks up a duplicate looks for an entry that is there. *)

LEMMA VerifiesNext ==
  ASSUME Inv, OutboxAssumption, ProcessorAssumption, [Next]_vars,
         \A w \in Workers : VerifiesRecorded(w)
  PROVE  \A w \in Workers : VerifiesRecorded(w)'
<1>1. Effects
  BY InvNext
<1>2. ASSUME NEW v \in Workers, SameWorker(v) PROVE VerifiesRecorded(v)'
  <2>1. pc[v] = "verify" => cur[v] \in Events
    BY InHandFacts DEF InHand
  <2>2. ASSUME pc[v] = "verify" PROVE Ledger!Recorded(cur[v])'
    <3>1. cur[v] \in Events /\ ledger[cur[v]] # NoPayload
      BY <2>1, <2>2 DEF VerifiesRecorded, Ledger!Recorded
    <3>2. ledger'[cur[v]] # NoPayload
      BY <1>1, <3>1 DEF Effects
    <3> QED BY <1>2, <3>2 DEF SameWorker, Ledger!Recorded
  <2> QED BY <1>2, <2>2 DEF VerifiesRecorded, SameWorker
<1>3. ASSUME NEW w \in Workers, Work(w) \/ WorkerFault(w) PROVE VerifiesRecorded(w)'
  <2>0. WorkerTypes
    BY DEF Inv
  <2>1. CASE Append(w)
    BY <2>0, <2>1 DEF Append, Goto, WorkerTypes, VerifiesRecorded, Ledger!AppendConflict,
                      Ledger!Recorded
  <2>2. CASE ClaimUnanswered(w)
    BY <2>2, <1>2 DEF ClaimUnanswered, workerVars, SameWorker
  <2>3. CASE ~(Append(w) \/ ClaimUnanswered(w))
    <3>1. pc'[w] # "verify"
      <4>1. CASE ClaimEvents(w) \/ HydrateBatch(w) \/ MapEvent(w)
        BY <2>0, <4>1 DEF ClaimEvents, HydrateBatch, MapEvent, WorkerTypes
      <4>2. CASE HydrateRejects(w) \/ HydrateTimesOut(w) \/ Restart(w)
        BY <2>0, <4>2 DEF HydrateRejects, HydrateTimesOut, Restart, Abandon, WorkerTypes
      <4>3. CASE \/ AppendTimesOut(w) \/ AppendAnswerGarbled(w)
                 \/ VerifyDuplicate(w) \/ VerifyTimesOut(w)
        BY <2>0, <4>3 DEF AppendTimesOut, AppendAnswerGarbled, VerifyDuplicate,
                          VerifyTimesOut, Goto, WorkerTypes
      <4>4. CASE Complete(w) \/ Release(w) \/ Fail(w) \/ SettleTimesOut(w)
        BY <2>0, <4>4 DEF Complete, Release, Fail, SettleTimesOut, NextEvent, WorkerTypes
      <4> QED BY <1>3, <2>3, <4>1, <4>2, <4>3, <4>4 DEF Work, WorkerFault
    <3> QED BY <3>1 DEF VerifiesRecorded
  <2> QED BY <2>1, <2>2, <2>3
<1>4. CASE EnvironmentActs
  BY <1>2, <1>4, EnvironmentKeeps
<1> QED
  BY <1>2, <1>3, <1>4, OthersKeep DEF Next, EnvironmentActs

----------------------------------------------------------------------------
(* Up to the first fault nothing acceptable is failed *)

LEMMA RowsSpared ==
  ASSUME Inv, OutboxAssumption, ProcessorAssumption, PlainDeployment, [Next]_vars, Spared
  PROVE  \A e \in Events \ Unmappable : outbox'[e].state # "PERMANENT_FAILURE"
<1> SUFFICES ASSUME NEW e \in Events \ Unmappable, outbox'[e].state = "PERMANENT_FAILURE"
             PROVE  FALSE
  OBVIOUS
<1>1. outbox[e].state # "PERMANENT_FAILURE" /\ outbox \in [Events -> Row]
  BY DEF Spared, Inv, OutboxInv
<1>2. outbox'[e] # outbox[e] /\ outbox[e].state \notin Terminal
  <2>1. Effects
    BY InvNext
  <2> QED
    BY <1>1, <2>1 DEF Effects
<1>3. ASSUME NEW f \in Events, NEW t, NEW h, CompleteRpc(f, t, h) PROVE FALSE
  <2>1. f = e /\ Owns(e, t) /\ outbox'[e] = Settled(outbox[e], "COMPLETED", h, outbox[e].error)
    BY <1>1, <1>2, <1>3 DEF CompleteRpc, StaleClaim, outboxVars
  <2> QED
    BY <1>1, <2>1 DEF Settled, Row
<1>4. ASSUME NEW f \in Unmappable, NEW t, NEW error, FailRpc(f, t, error) PROVE FALSE
  BY <1>1, <1>2, <1>4 DEF FailRpc, StaleClaim, outboxVars
<1>5. ASSUME NEW f \in Events, NEW t, ReleaseRpc(f, t),
             Owns(f, t) => outbox[f].attempts = 1
      PROVE  FALSE
  <2>1. f = e /\ Owns(e, t)
    BY <1>1, <1>2, <1>5 DEF ReleaseRpc, StaleClaim, outboxVars
  <2>2. ~Exhausted(e)
    BY <1>5, <2>1 DEF Exhausted, PlainDeployment, OutboxAssumption
  <2>3. outbox'[e] = Requeued(outbox[e])
    BY <1>1, <1>2, <1>5, <2>1, <2>2 DEF ReleaseRpc, StaleClaim
  <2> QED
    BY <1>1, <2>3 DEF Requeued, Row
<1>6. ASSUME NEW w \in Workers, Complete(w) \/ Release(w) \/ Fail(w) PROVE FALSE
  <2>1. cur[w] \in Events
    BY <1>6, WorkerSettles
  <2>2. SparedWorker(w)
    BY DEF Spared
  <2> QED
    BY <1>3, <1>4, <1>5, <1>6, <2>1, <2>2 DEF Complete, Release, Fail, SparedWorker
<1>7. ASSUME NEW m \in delayed, Deliver(m) PROVE FALSE
  <2>1. m.event \in Events /\ m.op # "release" /\ (m.op = "fail" => m.event \in Unmappable)
    BY DEF Spared, HarmlessMessage, Inv, MessageOK, Messages
  <2> QED
    BY <1>2, <1>3, <1>4, <1>7, <2>1 DEF Deliver, Execute, outboxVars
<1>8. ASSUME \/ UNCHANGED outbox
             \/ \E B \in SUBSET Events, t \in Tokens : ClaimRpc(B, t)
             \/ \E f \in Events : InsertEvent(f)
             \/ \E t \in Tokens : LeaseExpires(t)
             \/ \E f \in Events : BackoffElapses(f)
      PROVE  FALSE
  BY <1>2, <1>8, TableKeepsOpen DEF Terminal
<1>9. ASSUME NEW w \in Workers, ClaimEvents(w) \/ ClaimUnanswered(w) PROVE FALSE
  BY <1>8, <1>9, FreshTokenIsFresh DEF ClaimEvents, ClaimUnanswered, ClaimFresh
<1>10. ASSUME NEW w \in Workers,
             \/ HydrateBatch(w) \/ HydrateRejects(w) \/ HydrateTimesOut(w) \/ MapEvent(w)
             \/ Append(w) \/ AppendTimesOut(w) \/ AppendAnswerGarbled(w)
             \/ VerifyDuplicate(w) \/ VerifyTimesOut(w) \/ SettleTimesOut(w) \/ Restart(w)
      PROVE  FALSE
  BY <1>8, <1>10 DEF HydrateBatch, HydrateRejects, HydrateTimesOut, MapEvent, Append,
     AppendTimesOut, AppendAnswerGarbled, VerifyDuplicate, VerifyTimesOut,
     SettleTimesOut, Restart, TimesOut, outboxVars
<1>11. CASE UNCHANGED vars \/ \E m \in delayed : Drop(m)
  BY <1>8, <1>11 DEF vars, Drop
<1>12. CASE \/ \E f \in Events : Submit(f) \/ ElapseBackoff(f)
            \/ \E t \in Tokens : ExpireLease(t)
  BY <1>8, <1>12 DEF Submit, ElapseBackoff, ExpireLease
<1> QED
  BY <1>6, <1>7, <1>9, <1>10, <1>11, <1>12 DEF Next, Work, WorkerFault

LEMMA SparedOthers ==
  ASSUME Inv, AttemptsKept, NEW v \in Workers, SameWorker(v), SparedWorker(v)
  PROVE  SparedWorker(v)'
<1>1. pc[v] \in InHand => cur[v] \in Events
  BY InHandFacts
<1> QED
  BY <1>1 DEF SparedWorker, SameWorker, AttemptsKept, Owns, InHand

(* The worker that moves, and what it leaves in the network.               *)
LEMMA SparedMover ==
  ASSUME Inv, OutboxAssumption, ProcessorAssumption, PlainDeployment, OneFaultInv,
         NEW w \in Workers, Work(w) \/ WorkerFault(w),
         faults' <= 1, Spared
  PROVE  /\ SparedWorker(w)'
         /\ \A m \in delayed' :
           m \in delayed \/ HarmlessMessage(m)
<1>1. WorkerTypes /\ SparedWorker(w) /\ VerifiesRecorded(w) /\ faults \in Nat
  BY DEF Inv, Spared, OneFaultInv, ProcessorAssumption
<1>2. ASSUME pc'[w] \notin {"fail", "release"}, delayed' = delayed PROVE  /\ SparedWorker(w)'
             /\ \A m \in delayed' :
               m \in delayed \/ HarmlessMessage(m)
  BY <1>2 DEF SparedWorker
<1>3. CASE ClaimEvents(w) \/ HydrateBatch(w)
  BY <1>1, <1>2, <1>3 DEF ClaimEvents, HydrateBatch, Answered, WorkerTypes
<1>4. CASE HydrateRejects(w) \/ HydrateTimesOut(w) \/ Restart(w)
  BY <1>1, <1>2, <1>4 DEF HydrateRejects, HydrateTimesOut, Restart, Abandon, WorkerTypes
<1>5. CASE MapEvent(w)
  <2>1. delayed' = delayed /\ pc'[w] # "release" /\ (pc'[w] = "fail" => cur'[w] \in Unmappable)
    BY <1>1, <1>5 DEF MapEvent, WorkerTypes
  <2> QED BY <2>1 DEF SparedWorker
<1>6. CASE Append(w) \/ AppendAnswerGarbled(w) \/ VerifyDuplicate(w)
  <2>1. ASSUME VerifyDuplicate(w) PROVE SamePayload(w)
    <3>1. pc[w] = "verify" /\ ledger[cur[w]] # NoPayload
      BY <1>1, <2>1 DEF VerifyDuplicate, VerifiesRecorded, Ledger!Recorded
    <3>2. cur[w] \in Events /\ code[w] \in Payloads
      BY <3>1, InHandFacts DEF InHand
    <3> QED
      BY <3>1, <3>2 DEF SamePayload, PlainDeployment, Inv, LedgerOK
  <2>2. delayed' = delayed /\ pc'[w] \in {"complete", "verify"}
    BY <1>1, <1>6, <2>1 DEF Append, AppendAnswerGarbled, VerifyDuplicate, Fault, Goto,
                            Answered, WorkerTypes, PlainDeployment
  <2> QED BY <1>2, <2>2
<1>7. CASE Complete(w) \/ Release(w) \/ Fail(w)
  BY <1>1, <1>2, <1>7 DEF Complete, Release, Fail, NextEvent, Answered, WorkerTypes
<1>8. CASE ClaimUnanswered(w) \/ AppendTimesOut(w) \/ VerifyTimesOut(w) \/ SettleTimesOut(w)
  <2>1. faults = 0
    BY <1>1, <1>8 DEF ClaimUnanswered, AppendTimesOut, VerifyTimesOut, SettleTimesOut,
                      TimesOut, Fault
  <2>2. /\ UndisturbedWorker(w) /\ delayed = {}
        /\ \A e \in Events : UndisturbedRow(e)
    BY <2>1 DEF OneFaultInv, Undisturbed
  <2>3. CASE ClaimUnanswered(w)
    BY <1>1, <2>2, <2>3 DEF ClaimUnanswered, workerVars, UndisturbedWorker, SparedWorker
  <2>4. CASE AppendTimesOut(w)
    <3>1. cur[w] \in Events
      BY <2>4, InHandFacts DEF AppendTimesOut, InHand
    <3>2. Owns(cur[w], token[w]) => outbox[cur[w]].attempts = 1
      BY <2>2, <3>1 DEF Owns, UndisturbedRow
    <3> QED
      BY <1>1, <2>2, <2>4, <3>2 DEF AppendTimesOut, Goto, TimesOut, Request, WorkerTypes,
                                    SparedWorker, HarmlessMessage, Owns
  <2>5. CASE VerifyTimesOut(w)
    BY <2>2, <2>5 DEF VerifyTimesOut, UndisturbedWorker
  <2>6. CASE SettleTimesOut(w)
    <3>1. pc'[w] \in {"idle", "ready"} /\ pc[w] # "release"
      BY <1>1, <2>2, <2>6 DEF SettleTimesOut, NextEvent, WorkerTypes, UndisturbedWorker
    <3>2. delayed' = {Request(w, pc[w])}
      BY <2>2, <2>6 DEF SettleTimesOut, TimesOut
    <3> QED
      BY <1>1, <3>1, <3>2 DEF Request, HarmlessMessage, SparedWorker
  <2> QED BY <1>8, <2>3, <2>4, <2>5, <2>6
<1> QED
  BY <1>2, <1>3, <1>4, <1>5, <1>6, <1>7, <1>8 DEF Work, WorkerFault

LEMMA SparedNext ==
  ASSUME Inv, OutboxAssumption, ProcessorAssumption, PlainDeployment, OneFaultInv,
         [Next]_vars, faults' <= 1
  PROVE  Spared'
<1>1. faults \in Nat /\ faults' \in {faults, faults + 1}
  BY FaultsGrow
<1>2. Spared /\ (faults = 0 \/ faults' = faults)
  BY <1>1 DEF OneFaultInv
<1>3. \A e \in Events \ Unmappable : outbox'[e].state # "PERMANENT_FAILURE"
  BY <1>2, RowsSpared
<1>4. ASSUME NEW v \in Workers, SameWorker(v) PROVE SparedWorker(v)'
  BY <1>2, <1>4, AttemptsNext, SparedOthers DEF Spared
<1>5. CASE \E w \in Workers : Work(w) \/ WorkerFault(w)
  <2> PICK w \in Workers : Work(w) \/ WorkerFault(w)
    BY <1>5
  <2>1. /\ SparedWorker(w)'
        /\ \A m \in delayed' :
             m \in delayed \/ HarmlessMessage(m)
    BY <1>2, SparedMover
  <2>2. \A v \in Workers : SparedWorker(v)'
    BY <1>4, <2>1, OthersKeep
  <2> QED BY <1>2, <1>3, <2>1, <2>2 DEF Spared
<1>6. CASE EnvironmentActs
  BY <1>2, <1>3, <1>4, <1>6, EnvironmentKeeps DEF Spared
<1> QED
  BY <1>5, <1>6 DEF Next, EnvironmentActs

----------------------------------------------------------------------------
(* While nothing has gone wrong *)

(* A worker that is about to complete an event owns its row.               *)
LEMMA CompletingOwns ==
  ASSUME Inv, Undisturbed, NEW w \in Workers, pc[w] \in InHand
  PROVE  Owns(cur[w], token[w])
  BY DEF Inv, WorkerOK, Undisturbed, UndisturbedWorker

(* Two workers never own the same row.                                     *)
LEMMA OneOwner ==
  ASSUME Inv, NEW v \in Workers, NEW w \in Workers, NEW e \in Events,
         Owns(e, token[v]), Owns(e, token[w])
  PROVE  v = w
<1>1. token[v] = token[w] /\ token[v] # NoToken
  BY OwnerFacts DEF Owns, Inv
<1> QED
  BY <1>1 DEF Inv, TokensDistinct

(* A claimable row waits for its first attempt, and nobody is at it.       *)
LEMMA EligibleIsUntouched ==
  ASSUME Inv, Undisturbed, NEW e \in Eligible
  PROVE  /\ e \in Events
         /\ outbox[e].state = "PENDING"
         /\ outbox[e].attempts = 0
         /\ ~Ledger!Recorded(e)
         /\ \A w \in Workers : e \notin batch[w]
<1>1. e \in Events /\ outbox[e].state = "PENDING"
  BY DEF Eligible, Undisturbed, UndisturbedRow
<1>2. \A w \in Workers : e \notin batch[w]
  BY <1>1 DEF Undisturbed, UndisturbedWorker, Owns
<1>3. \A w \in Workers : ~(pc[w] = "complete" /\ cur[w] = e)
  BY <1>2 DEF Inv, WorkerOK, InHand
<1> QED
  BY <1>1, <1>2, <1>3 DEF Undisturbed, UndisturbedRow

LEMMA UndisturbedClaim ==
  ASSUME Inv, OutboxAssumption, PlainDeployment, Undisturbed,
         NEW w \in Workers, ClaimEvents(w)
  PROVE  Undisturbed'
<1> PICK B \in SUBSET Events : ClaimFresh(B) /\ batch' = [batch EXCEPT ![w] = B]
  BY DEF ClaimEvents
<1>1. /\ FreshToken \in Tokens
      /\ B \subseteq Eligible
      /\ \A e \in B : /\ outbox'[e].state = "PROCESSING"
                      /\ outbox'[e].owner = FreshToken
                      /\ outbox'[e].lease = "live"
                      /\ outbox'[e].attempts = NextAttempt(outbox[e].attempts)
      /\ \A e \in Events \ B : outbox'[e] = outbox[e]
  BY FreshTokenIsFresh, ClaimedRows DEF ClaimFresh, Inv
<1>2. WorkerTypes /\ batch[w] = {} /\ pc[w] = "idle"
  BY DEF Inv, WorkerOK, ClaimEvents
<1>3. /\ pc'[w] = "hydrate" /\ batch'[w] = B /\ token'[w] = FreshToken
      /\ \A v \in Workers \ {w} : SameWorker(v)
      /\ ledger' = ledger /\ delayed' = delayed
  BY <1>2 DEF ClaimEvents, Answered, WorkerTypes, SameWorker
<1>4. \A v \in Workers : UndisturbedWorker(v)'
  <2> TAKE v \in Workers
  <2>1. CASE v = w
    BY <1>1, <1>3, <2>1 DEF UndisturbedWorker, Owns
  <2>2. CASE v # w
    <3>1. \A e \in batch[v] : e \in Events /\ e \notin B
      BY <1>1, <1>2, EligibleIsUntouched DEF WorkerTypes
    <3> QED
      BY <1>1, <1>3, <2>2, <3>1 DEF Undisturbed, UndisturbedWorker, SameWorker, Owns
  <2> QED BY <2>1, <2>2
<1>5. \A e \in Events : UndisturbedRow(e)'
  <2> TAKE e \in Events
  <2>1. CASE e \in B
    <3>1. outbox'[e].attempts = 1
      BY <1>1, <2>1, EligibleIsUntouched DEF NextAttempt, PlainDeployment, OutboxAssumption
    <3>2. ~Ledger!Recorded(e)
      BY <1>1, <2>1, EligibleIsUntouched
    <3> QED
      BY <1>1, <1>3, <2>1, <3>1, <3>2 DEF UndisturbedRow, Ledger!Recorded
  <2>2. CASE e \notin B
    BY <1>1, <1>2, <1>3, <2>2 DEF Undisturbed, UndisturbedRow, SameWorker, Ledger!Recorded
  <2> QED BY <2>1, <2>2
<1> QED
  BY <1>3, <1>4, <1>5 DEF Undisturbed

(* A worker goes on with the batch it has.                                 *)
LEMMA UndisturbedGoesOn ==
  ASSUME Inv, Undisturbed, NEW w \in Workers, \A v \in Workers \ {w} : SameWorker(v),
         outbox' = outbox, delayed' = delayed, batch'[w] = batch[w], token'[w] = token[w],
         pc'[w] \notin {"verify", "release"}, pc[w] # "complete",
         \A e \in Events : \/ ledger'[e] = ledger[e]
                           \/ pc'[w] = "complete" /\ cur'[w] = e
  PROVE  Undisturbed'
<1>1. \A v \in Workers : UndisturbedWorker(v)'
  BY DEF Undisturbed, UndisturbedWorker, SameWorker, Owns
<1>2. \A v \in Workers : batch'[v] = batch[v]
  BY DEF SameWorker
<1>3. \A e \in Events : UndisturbedRow(e)'
  BY <1>2 DEF Undisturbed, UndisturbedRow, SameWorker, Ledger!Recorded
<1> QED
  BY <1>1, <1>3 DEF Undisturbed

LEMMA UndisturbedHydrates ==
  ASSUME Inv, Undisturbed, NEW w \in Workers, HydrateBatch(w) \/ MapEvent(w)
  PROVE  Undisturbed'
<1>1. WorkerTypes
  BY DEF Inv
<1>2. /\ batch'[w] = batch[w] /\ token'[w] = token[w] /\ pc[w] # "complete"
      /\ pc'[w] \notin {"verify", "release"}
      /\ outbox' = outbox /\ ledger' = ledger /\ delayed' = delayed
      /\ \A v \in Workers \ {w} : SameWorker(v)
  BY <1>1 DEF HydrateBatch, MapEvent, WorkerTypes, SameWorker
<1> QED
  BY <1>2, UndisturbedGoesOn

(* Nobody else has appended the entry of an event in hand.                 *)
LEMMA UndisturbedAppends ==
  ASSUME Inv, Undisturbed, NEW w \in Workers, Append(w)
  PROVE  Undisturbed'
<1>1. WorkerTypes /\ LedgerOK /\ pc[w] = "append"
  BY DEF Inv, Append
<1>2. cur[w] \in Events /\ Owns(cur[w], token[w])
  BY <1>1, InHandFacts, CompletingOwns DEF InHand
<1>3. ~Ledger!Recorded(cur[w])
  <2> SUFFICES ASSUME Ledger!Recorded(cur[w]) PROVE FALSE
    OBVIOUS
  <2>1. PICK v \in Workers : pc[v] = "complete" /\ cur[v] = cur[w]
    BY <1>2 DEF Undisturbed, UndisturbedRow, Owns
  <2>2. Owns(cur[w], token[v])
    BY <2>1, CompletingOwns DEF InHand
  <2> QED
    BY <1>1, <1>2, <2>1, <2>2, OneOwner
<1>4. Ledger!AppendRpc(cur[w], code[w]) /\ Goto(w, "complete", err[w])
  BY <1>3 DEF Append, Ledger!AppendConflict
<1>5. /\ pc'[w] = "complete" /\ cur'[w] = cur[w]
      /\ batch'[w] = batch[w] /\ token'[w] = token[w]
      /\ \A v \in Workers \ {w} : SameWorker(v)
  BY <1>1, <1>4 DEF Goto, WorkerTypes, SameWorker
<1>6. \A e \in Events : ledger'[e] = ledger[e] \/ cur'[w] = e
  BY <1>1, <1>2, <1>4, <1>5 DEF LedgerOK, Ledger!AppendRpc
<1>7. outbox' = outbox /\ delayed' = delayed
  BY DEF Append, Answered, outboxVars
<1> QED
  BY <1>1, <1>5, <1>6, <1>7, UndisturbedGoesOn

LEMMA UndisturbedSettles ==
  ASSUME Inv, OutboxAssumption, Undisturbed, NEW w \in Workers, Complete(w) \/ Fail(w)
  PROVE  Undisturbed'
<1> DEFINE e == cur[w]
           rest == batch[w] \ {e}
<1>1. WorkerTypes /\ pc[w] \in {"complete", "fail"} /\ WorkerOK(w)
  BY DEF Inv, Complete, Fail
<1>2. /\ e \in Events /\ Owns(e, token[w])
  BY <1>1, InHandFacts, CompletingOwns DEF InHand
<1>3. /\ batch'[w] = rest /\ pc'[w] \in {"idle", "ready"}
      /\ rest # {} => token'[w] = token[w]
      /\ \A v \in Workers \ {w} : SameWorker(v)
      /\ delayed' = delayed /\ ledger' = ledger
  BY <1>1 DEF Complete, Fail, NextEvent, Answered, WorkerTypes, SameWorker
<1>4. /\ outbox'[e].state \in Terminal
      /\ pc[w] = "complete" => outbox'[e].state = "COMPLETED"
      /\ \A f \in Events \ {e} : outbox'[f] = outbox[f]
  <2>1. outbox \in [Events -> Row]
    BY DEF Inv, OutboxInv
  <2>2. \E s \in Terminal : \E h, error :
          /\ outbox' = [outbox EXCEPT ![e] = Settled(outbox[e], s, h, error)]
          /\ pc[w] = "complete" => s = "COMPLETED"
    BY <1>2, <2>1 DEF Complete, Fail, CompleteRpc, FailRpc, StaleClaim, Terminal
  <2> QED
    BY <1>2, <2>1, <2>2 DEF Settled, Row
<1>5. ASSUME NEW v \in Workers \ {w}, NEW f \in batch[v] PROVE f \in Events /\ f # e
  BY <1>1, <1>2, OneOwner DEF WorkerTypes, Undisturbed, UndisturbedWorker
<1>6. \A v \in Workers : UndisturbedWorker(v)'
  <2> TAKE v \in Workers
  <2>1. CASE v = w
    <3>1. \A f \in rest : f \in Events /\ f # e /\ Owns(f, token[w])
      BY <1>1 DEF WorkerTypes, Undisturbed, UndisturbedWorker
    <3> QED
      BY <1>3, <1>4, <2>1, <3>1 DEF UndisturbedWorker, Owns
  <2>2. CASE v # w
    BY <1>3, <1>4, <1>5, <2>2 DEF Undisturbed, UndisturbedWorker, SameWorker, Owns
  <2> QED BY <2>1, <2>2
<1>7. \A f \in Events : UndisturbedRow(f)'
  <2> TAKE f \in Events
  <2>1. CASE f = e
    <3>1. ASSUME Ledger!Recorded(e) PROVE pc[w] = "complete"
      <4>1. PICK v \in Workers : pc[v] = "complete" /\ cur[v] = e
        BY <1>2, <3>1 DEF Undisturbed, UndisturbedRow, Owns
      <4> QED
        BY <1>2, <4>1, CompletingOwns, OneOwner DEF InHand
    <3> QED
      BY <1>3, <1>4, <2>1, <3>1 DEF UndisturbedRow, Terminal, Ledger!Recorded
  <2>2. CASE f # e
    <3>1. UndisturbedRow(f) /\ outbox'[f] = outbox[f] /\ ledger'[f] = ledger[f]
      BY <1>3, <1>4, <2>2 DEF Undisturbed
    <3>2. \A v \in Workers : f \in batch[v] => f \in batch'[v]
      BY <1>3, <2>2 DEF SameWorker
    <3>3. \A v \in Workers : pc[v] = "complete" /\ cur[v] = f => pc'[v] = "complete" /\ cur'[v] = f
      BY <1>3, <2>2 DEF SameWorker
    <3> QED
      BY <3>1, <3>2, <3>3 DEF UndisturbedRow, Ledger!Recorded
  <2> QED BY <2>1, <2>2
<1> QED
  BY <1>3, <1>6, <1>7 DEF Undisturbed

LEMMA UndisturbedEnvironment ==
  ASSUME Inv, OutboxAssumption, Undisturbed, EnvironmentActs, faults' = faults
  PROVE  Undisturbed'
<1>1. /\ \A v \in Workers : SameWorker(v)
      /\ delayed' = {}
  BY EnvironmentKeeps DEF Undisturbed
<1>2. outbox \in [Events -> Row] /\ \A e \in Events : RowOK(outbox[e])
  BY DEF Inv, OutboxInv
<1>3. CASE \E e \in Events : Submit(e)
  <2> PICK e \in Events : Submit(e)
    BY <1>3
  <2>1. /\ outbox'[e].state = "PENDING" /\ outbox'[e].attempts = 0
        /\ outbox[e].state = "absent" /\ ledger' = ledger
        /\ \A f \in Events \ {e} : outbox'[f] = outbox[f]
    BY <1>2 DEF Submit, InsertEvent, RowOK, Row, AbsentRow
  <2>2. \A v \in Workers : e \notin batch[v]
    BY <2>1 DEF Undisturbed, UndisturbedWorker, Owns
  <2>3. ~Ledger!Recorded(e)
    BY <2>1, <2>2 DEF Undisturbed, UndisturbedRow, Inv, WorkerOK, InHand
  <2>4. \A v \in Workers : UndisturbedWorker(v)'
    BY <1>1, <2>1, <2>2 DEF Undisturbed, UndisturbedWorker, SameWorker, Owns, Inv, WorkerTypes
  <2>5. \A f \in Events : UndisturbedRow(f)'
    BY <1>1, <2>1, <2>3 DEF Undisturbed, UndisturbedRow, SameWorker, Ledger!Recorded
  <2> QED BY <1>1, <2>4, <2>5 DEF Undisturbed
<1>4. CASE \E e \in Events : ElapseBackoff(e)
  <2>1. /\ ledger' = ledger
        /\ \A f \in Events : /\ outbox'[f].state = outbox[f].state
                             /\ outbox'[f].attempts = outbox[f].attempts
                             /\ outbox'[f].lease = outbox[f].lease
                             /\ outbox'[f].owner = outbox[f].owner
    BY <1>2, <1>4 DEF ElapseBackoff, BackoffElapses, Row
  <2>2. \A v \in Workers : UndisturbedWorker(v)'
    BY <1>1, <2>1 DEF Undisturbed, UndisturbedWorker, SameWorker, Owns, Inv, WorkerTypes
  <2>3. \A f \in Events : UndisturbedRow(f)'
    BY <1>1, <2>1 DEF Undisturbed, UndisturbedRow, SameWorker, Ledger!Recorded
  <2> QED BY <1>1, <2>2, <2>3 DEF Undisturbed
<1>5. CASE \E m \in delayed : Deliver(m) \/ Drop(m)
  BY <1>5 DEF Undisturbed
<1>6. CASE \E t \in Tokens : ExpireLease(t)
  <2> PICK t \in Tokens : ExpireLease(t)
    BY <1>6
  <2>1. ~Held(t)
    BY DEF ExpireLease, Fault, Inv
  <2> PICK e \in Events : outbox[e].owner = t /\ outbox[e].lease = "live"
    BY DEF ExpireLease, LeaseExpires
  <2>2. outbox[e].state = "PROCESSING"
    BY OwnerFacts DEF Inv
  <2> QED
    BY <2>1, <2>2 DEF Undisturbed, UndisturbedRow, UndisturbedWorker, Owns, Held
<1>7. CASE UNCHANGED vars
  <2>1. outbox' = outbox /\ ledger' = ledger
    BY <1>7 DEF vars
  <2>2. \A v \in Workers : UndisturbedWorker(v)'
    BY <1>1, <2>1 DEF Undisturbed, UndisturbedWorker, SameWorker, Owns
  <2>3. \A f \in Events : UndisturbedRow(f)'
    BY <1>1, <2>1 DEF Undisturbed, UndisturbedRow, SameWorker, Ledger!Recorded
  <2> QED BY <1>1, <2>2, <2>3 DEF Undisturbed
<1> QED
  BY <1>3, <1>4, <1>5, <1>6, <1>7 DEF EnvironmentActs

LEMMA UndisturbedNext ==
  ASSUME Inv, OutboxAssumption, ProcessorAssumption, PlainDeployment, OneFaultInv,
         [Next]_vars, faults' = 0
  PROVE  Undisturbed'
<1>1. faults = 0 /\ Undisturbed
  BY FaultsGrow DEF OneFaultInv
<1>2. ASSUME NEW w \in Workers, WorkerFault(w) PROVE FALSE
  BY <1>1, <1>2 DEF WorkerFault, ClaimUnanswered, HydrateTimesOut, AppendTimesOut,
     AppendAnswerGarbled, VerifyTimesOut, SettleTimesOut, Restart, TimesOut, Fault
<1>3. ASSUME NEW w \in Workers, HydrateRejects(w) \/ VerifyDuplicate(w) \/ Release(w)
      PROVE  FALSE
  BY <1>1, <1>3 DEF HydrateRejects, VerifyDuplicate, Release, PlainDeployment,
     Undisturbed, UndisturbedWorker
<1>4. ASSUME NEW w \in Workers, Work(w) PROVE Undisturbed'
  BY <1>1, <1>3, <1>4, UndisturbedClaim, UndisturbedHydrates, UndisturbedAppends,
     UndisturbedSettles DEF Work
<1>5. CASE EnvironmentActs
  BY <1>1, <1>5, UndisturbedEnvironment
<1> QED
  BY <1>2, <1>4, <1>5 DEF Next, EnvironmentActs

----------------------------------------------------------------------------

(* With one mapper deployed, nothing unreadable stored and a second        *)
(* attempt allowed, one fault - a time-out of any call, a crash at any     *)
(* point, a lease outlived - never makes an event the mapper accepts a     *)
(* permanent failure.                                                      *)
THEOREM OneFaultIsSurvived ==
  ASSUME PlainDeployment
  PROVE  Spec => []OneFaultNeverFails
<1>1. Init => OneFaultInv
  BY DEF Init, OneFaultInv, VerifiesRecorded, Undisturbed, UndisturbedWorker,
         UndisturbedRow, Spared, SparedWorker, OutboxInit, AbsentRow, Ledger!LedgerInit,
         Ledger!Recorded
<1>2. Inv /\ OneFaultInv /\ [Next]_vars => OneFaultInv'
  <2> SUFFICES ASSUME Inv, OneFaultInv, [Next]_vars PROVE OneFaultInv'
    OBVIOUS
  <2>1. \A w \in Workers : VerifiesRecorded(w)'
    BY VerifiesNext, OutboxAssumption, ProcessorAssumption DEF OneFaultInv
  <2>2. faults' = 0 => Undisturbed'
    BY UndisturbedNext, OutboxAssumption, ProcessorAssumption
  <2>3. faults' <= 1 => Spared'
    BY SparedNext, OutboxAssumption, ProcessorAssumption
  <2> QED
    BY <2>1, <2>2, <2>3 DEF OneFaultInv
<1>3. OneFaultInv => OneFaultNeverFails
  BY DEF OneFaultInv, Spared, OneFaultNeverFails
<1> QED
  BY <1>1, <1>2, <1>3, Invariance, PTL DEF Spec
============================================================================
