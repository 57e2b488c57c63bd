-------------------------- MODULE UniversityEvents --------------------------
(***************************************************************************)
(* What the university tells its students, from the webhook to the bell in *)
(* their browser.  The sender posts an event until it is acknowledged; the *)
(* database ingests it in one transaction                                  *)
(* (ingest_university_event_scoped); a stream per connected browser polls  *)
(* for rows past its cursor (university_sync/event_routes.py); the browser *)
(* (UniversityLiveSync.tsx) reads the stream, polls the whole list from    *)
(* time to time, and keeps the two apart by the events it has seen.        *)
(*                                                                         *)
(* One student is modelled, whom every event concerns.  Rows are numbered  *)
(* when they are written and seen when they are committed.                 *)
(***************************************************************************)
EXTENDS Integers

CONSTANTS
  Events,       \* what the university sends
  IdOf,         \* the id of an event, as sent
  KeyOf,        \* its idempotency key
  Aggregates,   \* what events are versions of
  AggregateOf,  \* the aggregate of an event
  VersionOf,    \* its version in the aggregate
  Handlers,     \* webhook requests that are served at a time
  NoEvent,      \* an idle handler
  MaxId         \* bound of the model: the rows ever numbered

ASSUME UniversityEventsAssumption ==
  /\ AggregateOf \in [Events -> Aggregates]
  /\ VersionOf \in [Events -> Nat \ {0}]
  /\ NoEvent \notin Events
  /\ Events \subseteq DOMAIN IdOf /\ Events \subseteq DOMAIN KeyOf
  /\ MaxId \in Nat

VARIABLES
  inbox,       \* university_event_inbox: the events committed
  version,     \* university_event_versions.last_version (0: none)
  notices,     \* student_notifications, committed
  lastId,      \* the sequence of their identifiers
  txn,         \* the transaction each handler is in
  answered,    \* the events the sender got an answer for
  overtaken,   \* history: rows committed after a row with a higher number
  connected,   \* the browser has a stream
  cursor,      \* the stream's cursor (0: none yet)
  offered,     \* history: what this stream has sent
  pipe,        \* of that, what the browser has yet to read
  seen,        \* seenEventIds
  announced    \* history: how often an event was counted as unread

database == <<inbox, version, notices, lastId>>
server == <<database, txn, answered, overtaken>>
stream == <<connected, cursor, offered, pipe>>
browser == <<seen, announced>>
liveVars == <<server, stream, browser>>

Notice == [id : 1 .. MaxId, event : Events]
Stages == {"idle", "inserted", "locked", "stale", "written"}
Transaction == [event : Events \union {NoEvent}, stage : Stages, id : 0 .. MaxId]
NoTxn == [event |-> NoEvent, stage |-> "idle", id |-> 0]

LiveTypeOK ==
  /\ inbox \subseteq Events
  /\ version \in [Aggregates -> Nat]
  /\ notices \subseteq Notice
  /\ lastId \in 0 .. MaxId
  /\ txn \in [Handlers -> Transaction]
  /\ answered \subseteq Events
  /\ overtaken \subseteq Notice
  /\ connected \in BOOLEAN
  /\ cursor \in 0 .. MaxId
  /\ offered \subseteq Notice
  /\ pipe \subseteq Notice
  /\ seen \subseteq Events
  /\ announced \in [Events -> Nat]

LiveInit ==
  /\ inbox = {}
  /\ version = [g \in Aggregates |-> 0]
  /\ notices = {}
  /\ lastId = 0
  /\ txn = [h \in Handlers |-> NoTxn]
  /\ answered = {}
  /\ overtaken = {}
  /\ connected = FALSE
  /\ cursor = 0
  /\ offered = {}
  /\ pipe = {}
  /\ seen = {}
  /\ announced = [e \in Events |-> 0]

----------------------------------------------------------------------------
(* POST /uni/webhook: the transaction of ingest_university_event_scoped    *)

Locks == {"locked", "stale", "written"}

(* The inbox is unique by event id, and by idempotency key.                *)
Clash(e, f) == IdOf[e] = IdOf[f] \/ KeyOf[e] = KeyOf[f]

Duplicate(e) == \E i \in inbox : Clash(e, i)

(* Faulty: a delivery does not wait for another of its id or key.          *)
ReceiveAtOnce(h, e) ==
  /\ txn[h].stage = "idle"
  /\ IF Duplicate(e) \/ \E k \in Handlers : txn[k].stage # "idle" /\ Clash(e, txn[k].event)
       THEN answered' = answered \union {e} /\ UNCHANGED txn
       ELSE /\ txn' = [txn EXCEPT ![h] = [event |-> e, stage |-> "inserted", id |-> 0]]
            /\ UNCHANGED answered
  /\ UNCHANGED <<database, overtaken, stream, browser>>

(* INSERT ... ON CONFLICT DO NOTHING waits for an uncommitted row of the   *)
(* same id or key; a committed one makes the delivery a duplicate.         *)
Receive(h, e) ==
  /\ txn[h].stage = "idle"
  /\ \A k \in Handlers : txn[k].stage # "idle" => ~Clash(e, txn[k].event)
  /\ IF Duplicate(e)
       THEN answered' = answered \union {e} /\ UNCHANGED txn
       ELSE /\ txn' = [txn EXCEPT ![h] = [event |-> e, stage |-> "inserted", id |-> 0]]
            /\ UNCHANGED answered
  /\ UNCHANGED <<database, overtaken, stream, browser>>

(* Faulty: the advisory lock is left out.                                  *)
CompareUnlocked(h) ==
  LET e == txn[h].event IN
  /\ txn[h].stage = "inserted"
  /\ txn' = [txn EXCEPT ![h].stage =
               IF VersionOf[e] <= version[AggregateOf[e]] THEN "stale" ELSE "locked"]
  /\ UNCHANGED <<database, answered, overtaken, stream, browser>>

(* The advisory lock of the aggregate, and what its version is then.       *)
LockAndCompare(h) ==
  LET e == txn[h].event IN
  /\ txn[h].stage = "inserted"
  /\ \A k \in Handlers :
       txn[k].stage \in Locks => AggregateOf[txn[k].event] # AggregateOf[e]
  /\ txn' = [txn EXCEPT ![h].stage =
               IF VersionOf[e] <= version[AggregateOf[e]] THEN "stale" ELSE "locked"]
  /\ UNCHANGED <<database, answered, overtaken, stream, browser>>

(* The row gets its number; a transaction that aborts wastes it.           *)
WriteNotice(h) ==
  /\ txn[h].stage = "locked"
  /\ lastId < MaxId
  /\ lastId' = lastId + 1
  /\ txn' = [txn EXCEPT ![h].stage = "written", ![h].id = lastId + 1]
  /\ UNCHANGED <<inbox, version, notices, answered, overtaken, stream, browser>>

(* The answer may be lost on its way.                                      *)
Commit(h) ==
  LET e == txn[h].event
      row == [id |-> txn[h].id, event |-> e]
      written == txn[h].stage = "written" IN
  /\ txn[h].stage \in {"stale", "written"}
  /\ inbox' = inbox \union {e}
  /\ version' = IF written THEN [version EXCEPT ![AggregateOf[e]] = VersionOf[e]] ELSE version
  /\ notices' = IF written THEN notices \union {row} ELSE notices
  /\ overtaken' = IF written /\ \E n \in notices : n.id > row.id
                    THEN overtaken \union {row} ELSE overtaken
  /\ txn' = [txn EXCEPT ![h] = NoTxn]
  /\ answered' \in {answered, answered \union {e}}
  /\ UNCHANGED <<lastId, stream, browser>>

Abort(h) ==
  /\ txn[h].stage # "idle"
  /\ txn' = [txn EXCEPT ![h] = NoTxn]
  /\ UNCHANGED <<database, answered, overtaken, stream, browser>>

----------------------------------------------------------------------------
(* GET /me/university-stream: one generator per connection                 *)

Connect ==
  /\ ~connected
  /\ connected' = TRUE
  /\ UNCHANGED <<server, cursor, offered, pipe, browser>>

(* Faulty: the cursor is the last number given out.                        *)
PollToSequence ==
  LET rows == {n \in notices : n.id > cursor} IN
  /\ connected
  /\ rows # {}
  /\ offered' = offered \union rows
  /\ pipe' = pipe \union rows
  /\ cursor' = lastId
  /\ UNCHANGED <<server, connected, browser>>

(* Every three seconds: the rows past the cursor, which moves to the last. *)
PollStream ==
  LET rows == {n \in notices : n.id > cursor} IN
  /\ connected
  /\ \E last \in rows : /\ \A n \in rows : n.id <= last.id
                       /\ cursor' = last.id
  /\ offered' = offered \union rows
  /\ pipe' = pipe \union rows
  /\ UNCHANGED <<server, connected, browser>>

(* The connection ends, or the server does.                                *)
Disconnect ==
  /\ connected
  /\ connected' = FALSE
  /\ cursor' = 0
  /\ offered' = {}
  /\ pipe' = {}
  /\ UNCHANGED <<server, browser>>

----------------------------------------------------------------------------
(* UniversityLiveSync *)

(* Faulty: what came by the stream is counted, seen or not.                *)
CountFrame(n) ==
  /\ n \in pipe
  /\ pipe' = pipe \ {n}
  /\ announced' = [announced EXCEPT ![n.event] = @ + 1]
  /\ seen' = seen \union {n.event}
  /\ UNCHANGED <<server, connected, cursor, offered>>

(* update(..., true): an event the browser has not seen counts as unread.  *)
ReadFrame(n) ==
  /\ n \in pipe
  /\ pipe' = pipe \ {n}
  /\ announced' = IF n.event \in seen THEN announced
                  ELSE [announced EXCEPT ![n.event] = @ + 1]
  /\ seen' = seen \union {n.event}
  /\ UNCHANGED <<server, connected, cursor, offered>>

(* Faulty: only the rows past the stream's cursor are asked for.           *)
ReconcileNew ==
  /\ seen' = seen \union {n.event : n \in {m \in notices : m.id > cursor}}
  /\ UNCHANGED <<server, stream, announced>>

(* update(..., false): what the whole list brings is not counted.          *)
Reconcile ==
  /\ seen' = seen \union {n.event : n \in notices}
  /\ UNCHANGED <<server, stream, announced>>

LiveNext ==
  \/ \E h \in Handlers : \/ \E e \in Events : Receive(h, e)
                         \/ LockAndCompare(h) \/ WriteNotice(h)
                         \/ Commit(h) \/ Abort(h)
  \/ Connect \/ PollStream \/ Disconnect
  \/ \E n \in pipe : ReadFrame(n)
  \/ Reconcile

LiveSpec == LiveInit /\ [][LiveNext]_liveVars

(* The browser reconciles every minute.                                    *)
LiveFairness == WF_liveVars(Reconcile)

FairLiveSpec == LiveSpec /\ LiveFairness

----------------------------------------------------------------------------
(* Properties *)

(* When the university got an answer for an event, one of its id or its    *)
(* idempotency key is stored, however many deliveries were under way and   *)
(* whichever of them aborted.                                              *)
AnsweredIsStored == \A e \in answered : Duplicate(e)

(* The notices of one aggregate are numbered in the order of its versions, *)
(* and an event has one notice, whatever order deliveries arrive in.       *)
NumberedByVersion ==
  \A m, n \in notices :
    AggregateOf[m.event] = AggregateOf[n.event] =>
      (m.id < n.id <=> VersionOf[m.event] < VersionOf[n.event])

(* An event counts as unread at most once, though it comes by the stream   *)
(* of every connection and by every reconciliation.                        *)
AnnouncedOnce == \A e \in Events : announced[e] <= 1

(* The stream passes over a row only if the row was committed after one    *)
(* with a higher number: in step with its commits a stream loses nothing.  *)
OnlyOvertakenIsSkipped ==
  \A n \in notices : n.id <= cursor /\ n \notin offered => n \in overtaken

(* What the stream passes over, or loses with its connection, is seen all  *)
(* the same, by the next reconciliation.                                   *)
EveryNoticeIsSeen ==
  \A e \in Events : (\E n \in notices : n.event = e) ~> e \in seen
============================================================================
