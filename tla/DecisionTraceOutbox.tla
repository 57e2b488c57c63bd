------------------------ MODULE DecisionTraceOutbox ------------------------
(***************************************************************************)
(* The table decision_trace_outbox and the four service-only RPCs that     *)
(* work on it: claim, complete, release and fail.  A row is keyed by its   *)
(* event_id, which the table forces to be the revision_id of the submitted *)
(* mock registration it was inserted with.                                 *)
(*                                                                         *)
(* Time is abstracted to what the RPCs read of it.  A lease is "live" or   *)
(* "expired" (lease_expires_at < now()); a retry is "due" or in "backoff"  *)
(* (next_attempt_at <= now()); and the order by next_attempt_at,           *)
(* created_at of the claim is the relation before.                         *)
(*                                                                         *)
(* A claim token stands for <worker>:<random uuid>.  The code draws one    *)
(* per row; here one names a whole claim, which the RPCs cannot tell apart *)
(* because they always compare the token together with the event_id.       *)
(***************************************************************************)
EXTENDS Naturals, FiniteSets

CONSTANTS
  Events,       \* event identifiers (= revision identifiers)
  Payloads,     \* canonical ledger payloads, i.e. integrity hashes
  NoPayload,    \* no completed_ledger_integrity_hash
  Tokens,       \* claim tokens
  NoToken,      \* lease_owner is null
  BatchSize,    \* p_batch_size of a claim
  MaxAttempts,  \* p_max_attempts of a release
  AttemptCap    \* bound of the model: attempt_count is not counted further

ASSUME OutboxAssumption ==
  /\ NoToken \notin Tokens
  /\ NoPayload \notin Payloads
  /\ BatchSize \in Nat \ {0}
  /\ MaxAttempts \in Nat \ {0}
  /\ AttemptCap \in Nat
  /\ MaxAttempts <= AttemptCap

VARIABLES
  outbox,       \* the rows, by event_id
  before        \* <<e, f>> when e precedes f in the claim order

outboxVars == <<outbox, before>>

----------------------------------------------------------------------------
(* Rows *)

ProcessingStates == {"PENDING", "PROCESSING", "COMPLETED", "PERMANENT_FAILURE"}
Terminal == {"COMPLETED", "PERMANENT_FAILURE"}
FailClasses ==
  {"P8_DUPLICATE_MISMATCH", "SOURCE_INTEGRITY_FAILURE", "CONTRACT_FAILURE"}
TransientClass == "TRANSIENT_P8_UNAVAILABLE"
ErrorClasses == FailClasses \union {TransientClass, "none"}

Row == [state    : ProcessingStates \union {"absent"},
        attempts : Nat,
        owner    : Tokens \union {NoToken},
        lease    : {"none", "live", "expired"},
        retry    : {"due", "backoff"},
        hash     : Payloads \union {NoPayload},
        error    : ErrorClasses]

AbsentRow == [state |-> "absent", attempts |-> 0, owner |-> NoToken,
              lease |-> "none", retry |-> "due", hash |-> NoPayload,
              error |-> "none"]

OutboxInit ==
  /\ outbox = [e \in Events |-> AbsentRow]
  /\ before = {}

Open == {e \in Events : outbox[e].state \in {"PENDING", "PROCESSING"}}

(* The constraint decision_trace_outbox_operational_state of the table. *)
OperationalState(r) ==
  \/ r.state = "absent"
  \/ /\ r.state = "PENDING"
     /\ r.owner = NoToken /\ r.lease = "none" /\ r.hash = NoPayload
  \/ /\ r.state = "PROCESSING"
     /\ r.owner # NoToken /\ r.lease # "none" /\ r.hash = NoPayload
  \/ /\ r.state = "COMPLETED"
     /\ r.owner = NoToken /\ r.lease = "none" /\ r.hash # NoPayload
  \/ /\ r.state = "PERMANENT_FAILURE"
     /\ r.owner = NoToken /\ r.lease = "none" /\ r.hash = NoPayload
     /\ r.error # "none"

----------------------------------------------------------------------------
(* The claim order *)

Without(e) == {p \in before : p[1] # e /\ p[2] # e}

(* next_attempt_at of a new row is now(): after the rows that are due and  *)
(* ahead of those whose backoff has not elapsed.                           *)
EnqueueNew(e) ==
  before' = before
              \union {<<f, e>> : f \in {g \in Open : outbox[g].retry = "due"}}
              \union {<<e, f>> : f \in {g \in Open : outbox[g].retry = "backoff"}}

(* next_attempt_at of a released row is now() + backoff: behind every row. *)
EnqueueLast(e) == before' = Without(e) \union {<<f, e>> : f \in Open \ {e}}

Dequeue(e) == before' = Without(e)

----------------------------------------------------------------------------
(* RPCs *)

InsertEvent(e) ==
  /\ outbox[e].state = "absent"
  /\ outbox' = [outbox EXCEPT ![e].state = "PENDING"]
  /\ EnqueueNew(e)

(* Faulty: leases that ran out are never taken over.                       *)
EligiblePending ==
  {e \in Events : outbox[e].state = "PENDING" /\ outbox[e].retry = "due"}

Eligible ==
  {e \in Events : \/ outbox[e].state = "PENDING" /\ outbox[e].retry = "due"
                  \/ outbox[e].state = "PROCESSING" /\ outbox[e].lease = "expired"}

(* The rows `order by next_attempt_at, created_at limit batch` picks.      *)
OldestFirst(B) ==
  /\ Cardinality(B) = IF Cardinality(Eligible) <= BatchSize
                        THEN Cardinality(Eligible) ELSE BatchSize
  /\ \A e \in B : \A f \in Eligible \ B : <<f, e>> \notin before

NextAttempt(n) == IF n < AttemptCap THEN n + 1 ELSE n

ClaimRpc(B, t) ==
  /\ B # {}
  /\ B \subseteq Eligible
  /\ OldestFirst(B)
  /\ outbox' = [e \in Events |->
                  IF e \in B
                    THEN [outbox[e] EXCEPT !.state = "PROCESSING",
                                           !.owner = t,
                                           !.lease = "live",
                                           !.attempts = NextAttempt(@)]
                    ELSE outbox[e]]
  /\ UNCHANGED before

(* Faulty: no test of the token, or of neither token nor state.            *)
InProcessing(e, t) == outbox[e].state = "PROCESSING"
Exists(e, t) == outbox[e].state # "absent"

(* lease_owner = p_claim_token and processing_state = 'PROCESSING'; the    *)
(* RPCs do not look at lease_expires_at.                                   *)
Owns(e, t) == outbox[e].owner = t /\ outbox[e].state = "PROCESSING"

(* Faulty: the lease is not cleared.                                       *)
SettledUnderLease(r, state, hash, error) ==
  [r EXCEPT !.state = state, !.owner = NoToken, !.hash = hash, !.error = error]

Settled(r, state, hash, error) ==
  [r EXCEPT !.state = state, !.owner = NoToken, !.lease = "none",
            !.hash = hash, !.error = error]

Requeued(r) ==
  [r EXCEPT !.state = "PENDING", !.owner = NoToken, !.lease = "none",
            !.retry = "backoff", !.error = TransientClass]

(* Errcode 55000: the row is left alone and the caller told so.            *)
StaleClaim(e, t) == ~Owns(e, t) /\ UNCHANGED outboxVars

CompleteRpc(e, t, h) ==
  \/ StaleClaim(e, t)
  \/ /\ Owns(e, t)
     /\ outbox' = [outbox EXCEPT ![e] = Settled(@, "COMPLETED", h, @.error)]
     /\ Dequeue(e)

FailRpc(e, t, error) ==
  \/ StaleClaim(e, t)
  \/ /\ Owns(e, t)
     /\ outbox' = [outbox EXCEPT ![e] =
                     Settled(@, "PERMANENT_FAILURE", NoPayload, error)]
     /\ Dequeue(e)

(* Faulty: one attempt too many.                                           *)
ExhaustedLate(e) == outbox[e].attempts > MaxAttempts

Exhausted(e) == outbox[e].attempts >= MaxAttempts

ReleaseRpc(e, t) ==
  \/ StaleClaim(e, t)
  \/ /\ Owns(e, t)
     /\ Exhausted(e)
     /\ outbox' = [outbox EXCEPT ![e] =
                     Settled(@, "PERMANENT_FAILURE", NoPayload, TransientClass)]
     /\ Dequeue(e)
  \/ /\ Owns(e, t)
     /\ ~Exhausted(e)
     /\ outbox' = [outbox EXCEPT ![e] = Requeued(@)]
     /\ EnqueueLast(e)

----------------------------------------------------------------------------
(* The passage of time *)

(* Every row of one claim has the same lease_expires_at.                   *)
LeaseExpires(t) ==
  /\ \E e \in Events : outbox[e].owner = t /\ outbox[e].lease = "live"
  /\ outbox' = [e \in Events |->
                  IF outbox[e].owner = t
                    THEN [outbox[e] EXCEPT !.lease = "expired"]
                    ELSE outbox[e]]
  /\ UNCHANGED before

BackoffElapses(e) ==
  /\ outbox[e].state = "PENDING"
  /\ outbox[e].retry = "backoff"
  /\ \A f \in Events : <<f, e>> \in before => outbox[f].retry = "due"
  /\ outbox' = [outbox EXCEPT ![e].retry = "due"]
  /\ UNCHANGED before
============================================================================
