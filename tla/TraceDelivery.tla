--------------------------- MODULE TraceDelivery ---------------------------
(***************************************************************************)
(* What the decision-trace outbox promises: every submitted event gets at  *)
(* most one ledger entry, the entry never changes, and the event is        *)
(* acknowledged - once, with the payload of that entry - or rejected, never*)
(* both and never twice.  Workers, leases, retries and lost messages are   *)
(* invisible at this level.                                                *)
(***************************************************************************)
CONSTANTS Events, Payloads, NoPayload

VARIABLES
  status,   \* "none", "open", "acknowledged" or "rejected"
  entry,    \* the ledger entry of the event
  receipt   \* the payload recorded with the acknowledgement

deliveryVars == <<status, entry, receipt>>

DeliveryInit ==
  /\ status = [e \in Events |-> "none"]
  /\ entry = [e \in Events |-> NoPayload]
  /\ receipt = [e \in Events |-> NoPayload]

Accept(e) ==
  /\ status[e] = "none"
  /\ status' = [status EXCEPT ![e] = "open"]
  /\ UNCHANGED <<entry, receipt>>

Record(e) ==
  /\ status[e] # "none"
  /\ entry[e] = NoPayload
  /\ \E p \in Payloads : entry' = [entry EXCEPT ![e] = p]
  /\ UNCHANGED <<status, receipt>>

Acknowledge(e) ==
  /\ status[e] = "open"
  /\ entry[e] # NoPayload
  /\ status' = [status EXCEPT ![e] = "acknowledged"]
  /\ receipt' = [receipt EXCEPT ![e] = entry[e]]
  /\ UNCHANGED entry

Reject(e) ==
  /\ status[e] = "open"
  /\ status' = [status EXCEPT ![e] = "rejected"]
  /\ UNCHANGED <<entry, receipt>>

DeliveryNext ==
  \E e \in Events : Accept(e) \/ Record(e) \/ Acknowledge(e) \/ Reject(e)

DeliverySpec == DeliveryInit /\ [][DeliveryNext]_deliveryVars
============================================================================
