------------------------ MODULE DecisionTraceLedger ------------------------
(***************************************************************************)
(* The append-only table decision_trace_ledger with its evidence rows, as  *)
(* far as the trusted outbox path uses it: one entry per event identity,   *)
(* appended with its evidence in one transaction and never updated.        *)
(* Entries of the outbox path supersede nothing (the mapper always leaves  *)
(* supersedes_entry_id null), so the supersession trigger does not apply.  *)
(* An entry is abstracted to its canonical payload, which its integrity    *)
(* hash identifies.                                                        *)
(***************************************************************************)
CONSTANTS
  Entries,     \* ledger identities
  Payloads,    \* canonical payloads
  NoPayload    \* there is no such entry

VARIABLE ledger

LedgerInit == ledger = [e \in Entries |-> NoPayload]

LedgerTypeOK == ledger \in [Entries -> Payloads \union {NoPayload}]

Recorded(e) == ledger[e] # NoPayload

(* The primary key rejects a second entry of the same identity (23505).    *)
AppendRpc(e, p) ==
  /\ ~Recorded(e)
  /\ ledger' = [ledger EXCEPT ![e] = p]

AppendConflict(e) ==
  /\ Recorded(e)
  /\ UNCHANGED ledger
============================================================================
