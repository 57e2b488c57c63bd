----------------------- MODULE DecisionTraceProcessor -----------------------
(***************************************************************************)
(* The workers that drain the decision-trace outbox into the ledger        *)
(* (DecisionTraceOutboxProcessor.process_batch and process_event), over    *)
(* the outbox table and the ledger, with a network that may time out.      *)
(*                                                                         *)
(* Every RPC is one transaction of the database.  An answered RPC is one   *)
(* step.  A call that times out leaves its request in the network, where   *)
(* it may still be executed at any later moment (Deliver) or be lost       *)
(* (Drop): so a time-out covers a request that never arrived, a lost       *)
(* response, and a request executed long after its sender gave up.         *)
(***************************************************************************)
EXTENDS DecisionTraceOutbox

CONSTANTS
  Workers,     \* concurrent processors
  NoEvent,     \* the worker is between two events
  Malformed,   \* events whose stored row or replay artifact cannot be parsed
  Unmappable,  \* events the P6 mapper rejects
  FaultKinds,  \* which of {"timeout", "crash", "garbled", "slow"} occur
  MaxFaults    \* bound of the model: how many faults occur

ASSUME ProcessorAssumption ==
  /\ NoEvent \notin Events
  /\ Malformed \subseteq Events
  /\ Unmappable \subseteq Events
  /\ FaultKinds \subseteq {"timeout", "crash", "garbled", "slow"}
  /\ MaxFaults \in Nat

VARIABLES
  ledger,      \* the decision-trace ledger
  pc,          \* where a worker is in process_batch / process_event
  batch,       \* its claimed events that are not yet dealt with
  cur,         \* the event in hand
  token,       \* the token of its claim
  err,         \* the error class it is about to record
  code,        \* the mapper it runs: the payload it maps every event to
  delayed,     \* requests whose sender has given up
  faults       \* faults so far

Ledger == INSTANCE DecisionTraceLedger WITH Entries <- Events

workerVars == <<pc, batch, cur, token, err>>
vars == <<outbox, before, ledger, pc, batch, cur, token, err, code, delayed, faults>>

Steps == {"idle", "hydrate", "ready", "append", "verify",
          "complete", "release", "fail"}

Messages == [op      : {"append", "complete", "release", "fail"},
             event   : Events,
             token   : Tokens,
             payload : Payloads,
             error   : ErrorClasses]

TypeOK ==
  /\ outbox \in [Events -> Row]
  /\ before \subseteq Events \X Events
  /\ ledger \in [Events -> Payloads \union {NoPayload}]
  /\ pc \in [Workers -> Steps]
  /\ batch \in [Workers -> SUBSET Events]
  /\ cur \in [Workers -> Events \union {NoEvent}]
  /\ token \in [Workers -> Tokens \union {NoToken}]
  /\ err \in [Workers -> ErrorClasses]
  /\ code \in [Workers -> Payloads]
  /\ delayed \subseteq Messages
  /\ faults \in 0 .. MaxFaults
  /\ \A e \in Events : OperationalState(outbox[e])

Init ==
  /\ OutboxInit
  /\ Ledger!LedgerInit
  /\ pc = [w \in Workers |-> "idle"]
  /\ batch = [w \in Workers |-> {}]
  /\ cur = [w \in Workers |-> NoEvent]
  /\ token = [w \in Workers |-> NoToken]
  /\ err = [w \in Workers |-> "none"]
  /\ code \in [Workers -> Payloads]
  /\ delayed = {}
  /\ faults = 0

----------------------------------------------------------------------------
(* Faults and the network *)

Fault(kind) ==
  /\ kind \in FaultKinds
  /\ faults < MaxFaults
  /\ faults' = faults + 1

NoFault == UNCHANGED faults

Request(w, op) ==
  [op |-> op, event |-> cur[w], token |-> token[w],
   payload |-> code[w], error |-> err[w]]

(* The call raises a transport error; its request stays in the network.    *)
TimesOut(w, op) ==
  /\ Fault("timeout")
  /\ delayed' = delayed \union {Request(w, op)}
  /\ UNCHANGED <<outbox, before, ledger>>

Answered == NoFault /\ UNCHANGED delayed

----------------------------------------------------------------------------
(* Claiming *)

UsedTokens == {outbox[e].owner : e \in Events}
              \union {token[w] : w \in Workers}
              \union {m.token : m \in delayed}

(* Faulty: the worker id alone, without a random part.                     *)
WorkerIdToken == CHOOSE t \in Tokens : TRUE

(* gen_random_uuid(): a token no row, worker or request in flight has.     *)
FreshToken == CHOOSE t \in Tokens : t \notin UsedTokens

ClaimFresh(B) ==
  /\ \E t \in Tokens : t \notin UsedTokens
  /\ ClaimRpc(B, FreshToken)

ClaimEvents(w) ==
  /\ pc[w] = "idle"
  /\ \E B \in SUBSET Events :
       /\ ClaimFresh(B)
       /\ batch' = [batch EXCEPT ![w] = B]
  /\ token' = [token EXCEPT ![w] = FreshToken]
  /\ pc' = [pc EXCEPT ![w] = "hydrate"]
  /\ Answered
  /\ UNCHANGED <<ledger, cur, err, code>>

(* The rows are claimed but the worker never hears of it.                  *)
ClaimUnanswered(w) ==
  /\ pc[w] = "idle"
  /\ Fault("timeout")
  /\ \E B \in SUBSET Events : ClaimFresh(B)
  /\ UNCHANGED <<ledger, workerVars, code, delayed>>

(* What process_batch forgets when it raises or its process dies.          *)
Abandon(w) ==
  /\ pc' = [pc EXCEPT ![w] = "idle"]
  /\ batch' = [batch EXCEPT ![w] = {}]
  /\ cur' = [cur EXCEPT ![w] = NoEvent]
  /\ token' = [token EXCEPT ![w] = NoToken]
  /\ err' = [err EXCEPT ![w] = "none"]

(* claim_events parses every claimed row and loads its artifact before it  *)
(* returns any: one that fails makes the worker drop the whole claim.      *)
HydrateBatch(w) ==
  /\ pc[w] = "hydrate"
  /\ batch[w] \intersect Malformed = {}
  /\ pc' = [pc EXCEPT ![w] = "ready"]
  /\ NoFault
  /\ UNCHANGED <<outbox, before, ledger, batch, cur, token, err, code, delayed>>

HydrateRejects(w) ==
  /\ pc[w] = "hydrate"
  /\ batch[w] \intersect Malformed # {}
  /\ Abandon(w)
  /\ NoFault
  /\ UNCHANGED <<outbox, before, ledger, code, delayed>>

HydrateTimesOut(w) ==
  /\ pc[w] = "hydrate"
  /\ Fault("timeout")
  /\ Abandon(w)
  /\ UNCHANGED <<outbox, before, ledger, code, delayed>>

----------------------------------------------------------------------------
(* process_event *)

Goto(w, step, class) ==
  /\ pc' = [pc EXCEPT ![w] = step]
  /\ err' = [err EXCEPT ![w] = class]
  /\ UNCHANGED <<batch, cur, token, code>>

(* The event is dealt with; process_batch goes on with the rest.           *)
NextEvent(w) ==
  LET rest == batch[w] \ {cur[w]} IN
  /\ batch' = [batch EXCEPT ![w] = rest]
  /\ cur' = [cur EXCEPT ![w] = NoEvent]
  /\ err' = [err EXCEPT ![w] = "none"]
  /\ pc' = [pc EXCEPT ![w] = IF rest = {} THEN "idle" ELSE "ready"]
  /\ token' = [token EXCEPT ![w] = IF rest = {} THEN NoToken ELSE @]
  /\ UNCHANGED code

MapEvent(w) ==
  /\ pc[w] = "ready"
  /\ \E e \in batch[w] :
       /\ cur' = [cur EXCEPT ![w] = e]
       /\ \/ /\ e \notin Unmappable
             /\ pc' = [pc EXCEPT ![w] = "append"]
             /\ UNCHANGED err
          \/ /\ e \in Unmappable
             /\ pc' = [pc EXCEPT ![w] = "fail"]
             /\ err' = [err EXCEPT ![w] = "SOURCE_INTEGRITY_FAILURE"]
  /\ NoFault
  /\ UNCHANGED <<outbox, before, ledger, batch, token, code, delayed>>

Append(w) ==
  /\ pc[w] = "append"
  /\ \/ Ledger!AppendRpc(cur[w], code[w]) /\ Goto(w, "complete", err[w])
     \/ Ledger!AppendConflict(cur[w]) /\ Goto(w, "verify", err[w])
  /\ Answered
  /\ UNCHANGED outboxVars

(* Faulty: an append that timed out is taken for done.                     *)
AppendAssumedDone(w) ==
  /\ pc[w] = "append"
  /\ TimesOut(w, "append")
  /\ Goto(w, "complete", "none")

AppendTimesOut(w) ==
  /\ pc[w] = "append"
  /\ TimesOut(w, "append")
  /\ Goto(w, "release", TransientClass)

(* The append commits, but its answer is not the JSON text that identifies *)
(* the entry: an integrity failure, not an unavailable ledger.             *)
AppendAnswerGarbled(w) ==
  /\ pc[w] = "append"
  /\ Ledger!AppendRpc(cur[w], code[w])
  /\ Fault("garbled")
  /\ Goto(w, "fail", "CONTRACT_FAILURE")
  /\ UNCHANGED <<outbox, before, delayed>>

(* Faulty: any entry of that identity will do, or none ever does.          *)
AnyEntry(w) == Ledger!Recorded(cur[w])
NoEntryMatches(w) == FALSE

SamePayload(w) == ledger[cur[w]] = code[w]

VerifyDuplicate(w) ==
  /\ pc[w] = "verify"
  /\ \/ SamePayload(w) /\ Goto(w, "complete", err[w])
     \/ ~SamePayload(w) /\ Goto(w, "fail", "P8_DUPLICATE_MISMATCH")
  /\ Answered
  /\ UNCHANGED <<outbox, before, ledger>>

(* except Exception: existing = None, which is then taken for a mismatch.  *)
VerifyTimesOut(w) ==
  /\ pc[w] = "verify"
  /\ Fault("timeout")
  /\ Goto(w, "fail", "P8_DUPLICATE_MISMATCH")
  /\ UNCHANGED <<outbox, before, ledger, delayed>>

(* Whatever complete, release or fail answers, the worker goes on.         *)
Complete(w) ==
  /\ pc[w] = "complete"
  /\ CompleteRpc(cur[w], token[w], code[w])
  /\ NextEvent(w)
  /\ Answered
  /\ UNCHANGED ledger

Release(w) ==
  /\ pc[w] = "release"
  /\ ReleaseRpc(cur[w], token[w])
  /\ NextEvent(w)
  /\ Answered
  /\ UNCHANGED ledger

Fail(w) ==
  /\ pc[w] = "fail"
  /\ FailRpc(cur[w], token[w], err[w])
  /\ NextEvent(w)
  /\ Answered
  /\ UNCHANGED ledger

SettleTimesOut(w) ==
  /\ pc[w] \in {"complete", "release", "fail"}
  /\ TimesOut(w, pc[w])
  /\ NextEvent(w)

----------------------------------------------------------------------------
(* The environment *)

(* The P6 transaction that persists a SUBMITTED revision.                  *)
Submit(e) ==
  /\ InsertEvent(e)
  /\ UNCHANGED <<ledger, workerVars, code, delayed, faults>>

(* A worker dies and is started again, perhaps with another mapper.        *)
Restart(w) ==
  /\ Fault("crash")
  /\ Abandon(w)
  /\ \E p \in Payloads : code' = [code EXCEPT ![w] = p]
  /\ UNCHANGED <<outbox, before, ledger, delayed>>

Execute(m) ==
  \/ /\ m.op = "append"
     /\ Ledger!AppendRpc(m.event, m.payload) \/ Ledger!AppendConflict(m.event)
     /\ UNCHANGED outboxVars
  \/ /\ m.op = "complete"
     /\ CompleteRpc(m.event, m.token, m.payload)
     /\ UNCHANGED ledger
  \/ /\ m.op = "release"
     /\ ReleaseRpc(m.event, m.token)
     /\ UNCHANGED ledger
  \/ /\ m.op = "fail"
     /\ FailRpc(m.event, m.token, m.error)
     /\ UNCHANGED ledger

Deliver(m) ==
  /\ Execute(m)
  /\ delayed' = delayed \ {m}
  /\ UNCHANGED <<workerVars, code, faults>>

Drop(m) ==
  /\ delayed' = delayed \ {m}
  /\ UNCHANGED <<outbox, before, ledger, workerVars, code, faults>>

Held(t) == \E w \in Workers : token[w] = t

(* A lease that outlives its worker just expires; one that expires under a *)
(* worker still at its batch is a fault.                                   *)
ExpireLease(t) ==
  /\ LeaseExpires(t)
  /\ \/ ~Held(t) /\ NoFault
     \/ Held(t) /\ Fault("slow")
  /\ UNCHANGED <<ledger, workerVars, code, delayed>>

ElapseBackoff(e) ==
  /\ BackoffElapses(e)
  /\ UNCHANGED <<ledger, workerVars, code, delayed, faults>>

----------------------------------------------------------------------------

Work(w) ==
  \/ ClaimEvents(w) \/ HydrateBatch(w) \/ HydrateRejects(w) \/ MapEvent(w)
  \/ Append(w) \/ VerifyDuplicate(w) \/ Complete(w) \/ Release(w) \/ Fail(w)

WorkerFault(w) ==
  \/ ClaimUnanswered(w) \/ HydrateTimesOut(w) \/ AppendTimesOut(w)
  \/ AppendAnswerGarbled(w) \/ VerifyTimesOut(w) \/ SettleTimesOut(w)
  \/ Restart(w)

Next ==
  \/ \E w \in Workers : Work(w) \/ WorkerFault(w)
  \/ \E e \in Events : Submit(e) \/ ElapseBackoff(e)
  \/ \E m \in delayed : Deliver(m) \/ Drop(m)
  \/ \E t \in Tokens : ExpireLease(t)

Spec == Init /\ [][Next]_vars

(* The operator keeps calling process_batch, and the clock runs.           *)
Fairness ==
  /\ \A w \in Workers : WF_vars(Work(w))
  /\ \A e \in Events : WF_vars(ElapseBackoff(e))
  /\ \A t \in Tokens : WF_vars(~Held(t) /\ ExpireLease(t))

FairSpec == Spec /\ Fairness

----------------------------------------------------------------------------
(* Properties *)

(* A completed outbox row has a ledger entry, and the integrity hash the   *)
(* row keeps is the hash of that entry: whatever mapper, worker or late    *)
(* request appended it and whichever completed the row.                    *)
CompletedMeansRecorded ==
  \A e \in Events :
    outbox[e].state = "COMPLETED" => /\ Ledger!Recorded(e)
                                    /\ outbox[e].hash = ledger[e]

(* No two workers hold the current claim of one event, however often its   *)
(* lease expired and was taken over (FOR UPDATE SKIP LOCKED, random uuid). *)
ClaimIsExclusive ==
  \A v, w \in Workers : \A e \in batch[v] \intersect batch[w] :
    /\ Owns(e, token[v])
    /\ Owns(e, token[w])
    => v = w

(* A row that waits for another attempt still has one: the release RPC     *)
(* turns the last allowed attempt into a permanent failure.                *)
PendingHasAttemptLeft ==
  \A e \in Events :
    outbox[e].state = "PENDING" => outbox[e].attempts < MaxAttempts

(* One fault - a time-out, a crash or a lease outlived, at any point -     *)
(* never makes an event the mapper accepts a permanent failure.            *)
OneFaultNeverFails ==
  \A e \in Events \ Unmappable :
    faults <= 1 => outbox[e].state # "PERMANENT_FAILURE"

(* A duplicate mismatch is only ever recorded for an event whose ledger    *)
(* entry differs from what its mapper produces (one mapper is deployed).   *)
MismatchIsReal ==
  \A e \in Events :
    outbox[e].error = "P8_DUPLICATE_MISMATCH" =>
      /\ Ledger!Recorded(e)
      /\ \E w \in Workers : code[w] # ledger[e]

(* The row of an event is settled once and for all: no late request, no    *)
(* new claim and no other worker ever touches it again.                    *)
SettledIsFinal ==
  [][\A e \in Events : outbox[e].state \in Terminal => outbox'[e] = outbox[e]]_vars

(* A worker whose claim of an event was taken over cannot change the row   *)
(* of that event while it goes on as if it still held it.                  *)
OvertakenWorkerIsHarmless ==
  [][\A w \in Workers : \A e \in batch[w] :
       /\ outbox[e].owner # token[w]
       /\ <<pc[w], batch[w]>> # <<pc'[w], batch'[w]>>
       => outbox'[e] = outbox[e]]_vars

(* The processor implements the delivery contract.                         *)
DeliveryStatus(state) ==
  CASE state = "absent"                     -> "none"
    [] state \in {"PENDING", "PROCESSING"}  -> "open"
    [] state = "COMPLETED"                  -> "acknowledged"
    [] state = "PERMANENT_FAILURE"          -> "rejected"

Delivery == INSTANCE TraceDelivery WITH
              status  <- [e \in Events |-> DeliveryStatus(outbox[e].state)],
              entry   <- ledger,
              receipt <- [e \in Events |-> outbox[e].hash]

ImplementsTraceDelivery == Delivery!DeliverySpec

(* Every submitted event is completed or permanently failed in the end, if *)
(* workers keep running, faults are finitely many, and no row that cannot  *)
(* be parsed stands before it in every claim.                              *)
EverySubmissionSettles ==
  \A e \in Events :
    outbox[e].state = "PENDING" ~> \/ outbox[e].state \in Terminal
                                   \/ \E m \in Malformed : outbox[m].state # "absent"

(* A stored event that cannot be read back is failed closed.               *)
MalformedFailsClosed ==
  \A e \in Malformed :
    outbox[e].state = "PENDING" ~> outbox[e].state = "PERMANENT_FAILURE"
============================================================================
