----------------------- MODULE UniversityEventsProofs -----------------------
(***************************************************************************)
(* Safety of the university's events for any number of events, aggregates, *)
(* deliveries at a time, and rows.                                         *)
(*                                                                         *)
(* The database's part: a transaction that holds the lock of an aggregate  *)
(* carries a newer version than any committed, and its number is above     *)
(* those of all the aggregate's rows (DatabaseInv).  The stream's: the     *)
(* cursor is the number of a committed row, so whatever is committed       *)
(* below it later was overtaken (StreamInv).                               *)
(***************************************************************************)
EXTENDS UniversityEvents, TLAPS

(* What one transaction has read is still true.                            *)
Consistent(h) ==
  LET e == txn[h].event IN
  /\ txn[h].stage = "idle" => txn[h] = NoTxn
  /\ txn[h].stage # "idle" => e \in Events /\ e \notin inbox
  /\ txn[h].stage \in {"locked", "written"} => version[AggregateOf[e]] < VersionOf[e]
  /\ txn[h].stage = "written" =>
       /\ txn[h].id \in 1 .. lastId
       /\ \A n \in notices : /\ n.id # txn[h].id
                             /\ AggregateOf[n.event] = AggregateOf[e] => n.id < txn[h].id

(* What keeps two transactions apart.                                      *)
Apart(h, k) ==
  h # k =>
    /\ txn[h].stage # "idle" => txn[h].event # txn[k].event
    /\ txn[h].stage \in Locks /\ txn[k].stage \in Locks =>
         AggregateOf[txn[h].event] # AggregateOf[txn[k].event]
    /\ txn[h].stage = "written" /\ txn[k].stage = "written" => txn[h].id # txn[k].id

RowsInv ==
  /\ \A n \in notices : /\ n.id <= lastId
                        /\ n.event \in inbox
                        /\ VersionOf[n.event] <= version[AggregateOf[n.event]]
  /\ \A m, n \in notices : m.id = n.id => m = n
  /\ NumberedByVersion

DatabaseInv ==
  /\ \A h \in Handlers : Consistent(h)
  /\ \A h, k \in Handlers : Apart(h, k)
  /\ RowsInv
  /\ AnsweredIsStored

StreamInv ==
  /\ cursor = 0 \/ \E n \in notices : n.id = cursor
  /\ OnlyOvertakenIsSkipped

BrowserInv ==
  \A e \in Events : announced[e] = 0 \/ (announced[e] = 1 /\ e \in seen)

LiveInv == LiveTypeOK /\ DatabaseInv /\ StreamInv /\ BrowserInv

----------------------------------------------------------------------------
(* Steps of the database *)

LEMMA TxnFields ==
  ASSUME LiveTypeOK, NEW h \in Handlers
  PROVE  /\ txn[h] \in Transaction
         /\ txn[h].event \in Events \union {NoEvent}
         /\ txn[h].stage \in Stages
         /\ txn[h].id \in 0 .. MaxId
  BY DEF LiveTypeOK, Transaction

(* A step that leaves the stream and the rows alone keeps their invariants.*)
LEMMA RestKept ==
  ASSUME LiveInv, UNCHANGED <<inbox, version, notices, overtaken, stream, browser>>,
         lastId' \in {lastId, lastId + 1}, lastId \in Nat
  PROVE  RowsInv' /\ StreamInv' /\ BrowserInv'
  <1>1. RowsInv'
    BY DEF LiveInv, DatabaseInv, RowsInv, NumberedByVersion, LiveTypeOK, Notice
  <1>2. StreamInv' /\ BrowserInv'
    BY DEF LiveInv, StreamInv, BrowserInv, OnlyOvertakenIsSkipped, stream, browser
  <1> QED
    BY <1>1, <1>2

LEMMA ReceiveStep ==
  ASSUME LiveInv, NEW h \in Handlers, NEW e \in Events, Receive(h, e)
  PROVE  LiveInv'
  <1>0. /\ UNCHANGED <<database, overtaken, stream, browser>> /\ txn[h].stage = "idle"
        /\ \A k \in Handlers : txn[k].event # e
    <2>1. ASSUME NEW k \in Handlers PROVE txn[k].event # e
      <3>1. CASE txn[k].stage = "idle"
        BY <3>1, UniversityEventsAssumption DEF LiveInv, DatabaseInv, Consistent, NoTxn
      <3>2. CASE txn[k].stage # "idle"
        BY <3>2 DEF Receive, Clash
      <3> QED BY <3>1, <3>2
    <2> QED BY <2>1 DEF Receive
  <1>1. RowsInv' /\ StreamInv' /\ BrowserInv'
    BY <1>0, RestKept DEF LiveInv, LiveTypeOK, database
  <1>2. CASE Duplicate(e)
    <2>1. answered' = answered \union {e} /\ UNCHANGED txn
      BY <1>2 DEF Receive
    <2>2. LiveTypeOK'
      BY <1>0, <2>1 DEF LiveInv, LiveTypeOK, database, stream, browser
    <2>3. /\ \A k \in Handlers : Consistent(k)'
          /\ \A k, l \in Handlers : Apart(k, l)'
          /\ AnsweredIsStored'
      BY <1>0, <1>2, <2>1
         DEF LiveInv, DatabaseInv, Consistent, Apart, AnsweredIsStored, Duplicate, database
    <2> QED
      BY <1>1, <2>2, <2>3 DEF LiveInv, DatabaseInv
  <1>3. CASE ~Duplicate(e)
    <2> DEFINE t == [event |-> e, stage |-> "inserted", id |-> 0]
    <2>1. txn' = [txn EXCEPT ![h] = t] /\ UNCHANGED answered
      BY <1>3 DEF Receive
    <2>2. t \in Transaction
      BY UniversityEventsAssumption
         DEF Transaction, Stages
    <2>3. txn'[h] = t /\ \A k \in Handlers \ {h} : txn'[k] = txn[k]
      BY <2>1 DEF LiveInv, LiveTypeOK
    <2>4. LiveTypeOK'
      BY <1>0, <2>1, <2>2 DEF LiveInv, LiveTypeOK, database, stream, browser
    <2>5. ASSUME NEW k \in Handlers PROVE Consistent(k)'
      <3>1. e \notin inbox
        BY <1>3 DEF Duplicate, Clash
      <3> QED
        BY <1>0, <2>3, <3>1 DEF LiveInv, DatabaseInv, Consistent, database
    <2>6. ASSUME NEW k \in Handlers, NEW l \in Handlers PROVE Apart(k, l)'
      BY <1>0, <2>3 DEF LiveInv, DatabaseInv, Apart, Locks
    <2>7. AnsweredIsStored'
      BY <1>0, <2>1 DEF LiveInv, DatabaseInv, AnsweredIsStored, Duplicate, database
    <2> QED
      BY <1>1, <2>4, <2>5, <2>6, <2>7 DEF LiveInv, DatabaseInv
  <1> QED
    BY <1>2, <1>3

LEMMA LockStep ==
  ASSUME LiveInv, NEW h \in Handlers, LockAndCompare(h)
  PROVE  LiveInv'
  <1> DEFINE e == txn[h].event
             v == IF VersionOf[e] <= version[AggregateOf[e]] THEN "stale" ELSE "locked"
             t == [txn[h] EXCEPT !.stage = v]
  <1>0. /\ UNCHANGED <<database, answered, overtaken, stream, browser>>
        /\ txn[h].stage = "inserted" /\ txn' = [txn EXCEPT ![h].stage = v]
        /\ \A k \in Handlers :
             txn[k].stage \in Locks => AggregateOf[txn[k].event] # AggregateOf[e]
    BY DEF LockAndCompare
  <1>1. RowsInv' /\ StreamInv' /\ BrowserInv'
    BY <1>0, RestKept DEF LiveInv, LiveTypeOK, database
  <1>2. t \in Transaction /\ t.event = e /\ t.stage = v
    BY TxnFields DEF LiveInv, Transaction, Stages
  <1>3. txn'[h] = t /\ \A k \in Handlers \ {h} : txn'[k] = txn[k]
    BY <1>0 DEF LiveInv, LiveTypeOK
  <1>4. LiveTypeOK'
    BY <1>0, <1>2 DEF LiveInv, LiveTypeOK, database, stream, browser
  <1>5. e \in Events /\ e \notin inbox
    BY <1>0 DEF LiveInv, DatabaseInv, Consistent
  <1>6. v = "locked" => version[AggregateOf[e]] < VersionOf[e]
    BY <1>5, UniversityEventsAssumption DEF LiveInv, LiveTypeOK
  <1>7. v \in {"stale", "locked"}
    OBVIOUS
  <1> HIDE DEF t, v
  <1>8. ASSUME NEW k \in Handlers PROVE Consistent(k)'
    <2>1. CASE k = h
      BY <1>0, <1>2, <1>3, <1>5, <1>6, <1>7, <2>1 DEF Consistent, database
    <2>2. CASE k # h
      BY <1>0, <1>3, <2>2 DEF LiveInv, DatabaseInv, Consistent, database
    <2> QED
      BY <2>1, <2>2
  <1>9. ASSUME NEW k \in Handlers, NEW l \in Handlers PROVE Apart(k, l)'
    BY <1>0, <1>2, <1>3, <1>7 DEF LiveInv, DatabaseInv, Apart
  <1>10. AnsweredIsStored'
    BY <1>0 DEF LiveInv, DatabaseInv, AnsweredIsStored, Duplicate, database
  <1> QED
    BY <1>1, <1>4, <1>8, <1>9, <1>10 DEF LiveInv, DatabaseInv

LEMMA WriteStep ==
  ASSUME LiveInv, NEW h \in Handlers, WriteNotice(h)
  PROVE  LiveInv'
  <1> DEFINE t == [txn[h] EXCEPT !.stage = "written", !.id = lastId + 1]
  <1>0. /\ UNCHANGED <<inbox, version, notices, answered, overtaken, stream, browser>>
        /\ txn[h].stage = "locked" /\ lastId' = lastId + 1 /\ lastId < MaxId
        /\ lastId \in Nat /\ MaxId \in Nat
    BY UniversityEventsAssumption DEF WriteNotice, LiveInv, LiveTypeOK
  <1>1. RowsInv' /\ StreamInv' /\ BrowserInv'
    BY <1>0, RestKept
  <1>2. /\ t \in Transaction /\ t.event = txn[h].event
        /\ t.stage = "written" /\ t.id = lastId + 1
    <2>1. lastId + 1 \in 0 .. MaxId /\ "written" \in Stages
      BY <1>0 DEF Stages
    <2>2. txn[h] \in Transaction
      BY TxnFields DEF LiveInv
    <2> QED
      BY <2>1, <2>2 DEF Transaction
  <1>3. txn' = [txn EXCEPT ![h] = t]
    BY DEF WriteNotice, LiveInv, LiveTypeOK
  <1> HIDE DEF t
  <1>4. txn'[h] = t /\ \A k \in Handlers \ {h} : txn'[k] = txn[k]
    BY <1>3 DEF LiveInv, LiveTypeOK
  <1>5. LiveTypeOK'
    BY <1>0, <1>2, <1>3 DEF LiveInv, LiveTypeOK, stream, browser
  <1>6. \A n \in notices : n.id \in Nat /\ n.id <= lastId
    BY DEF LiveInv, LiveTypeOK, DatabaseInv, RowsInv, Notice
  <1>7. ASSUME NEW k \in Handlers PROVE Consistent(k)'
    <2>1. CASE k = h
      BY <1>0, <1>2, <1>4, <1>6, <2>1 DEF LiveInv, DatabaseInv, Consistent
    <2>2. CASE k # h
      <3>1. txn[k].stage = "written" => txn[k].id \in 1 .. lastId + 1
        BY <1>0 DEF LiveInv, DatabaseInv, Consistent
      <3> QED
        BY <1>0, <1>4, <2>2, <3>1 DEF LiveInv, DatabaseInv, Consistent
    <2> QED
      BY <2>1, <2>2
  <1>8. ASSUME NEW k \in Handlers PROVE txn[k].stage = "written" => txn[k].id # lastId + 1
    BY <1>0 DEF LiveInv, DatabaseInv, Consistent
  <1>9. ASSUME NEW k \in Handlers, NEW l \in Handlers PROVE Apart(k, l)'
    BY <1>0, <1>2, <1>4, <1>8 DEF LiveInv, DatabaseInv, Apart, Locks
  <1>10. AnsweredIsStored'
    BY <1>0 DEF LiveInv, DatabaseInv, AnsweredIsStored, Duplicate
  <1> QED
    BY <1>1, <1>5, <1>7, <1>9, <1>10 DEF LiveInv, DatabaseInv

LEMMA AbortStep ==
  ASSUME LiveInv, NEW h \in Handlers, Abort(h)
  PROVE  LiveInv'
  <1>0. /\ UNCHANGED <<database, answered, overtaken, stream, browser>>
        /\ txn' = [txn EXCEPT ![h] = NoTxn]
    BY DEF Abort
  <1>1. RowsInv' /\ StreamInv' /\ BrowserInv'
    BY <1>0, RestKept DEF LiveInv, LiveTypeOK, database
  <1>2. NoTxn \in Transaction
    BY UniversityEventsAssumption DEF NoTxn, Transaction, Stages
  <1>3. txn'[h] = NoTxn /\ \A k \in Handlers \ {h} : txn'[k] = txn[k]
    BY <1>0 DEF LiveInv, LiveTypeOK
  <1>4. LiveTypeOK'
    BY <1>0, <1>2 DEF LiveInv, LiveTypeOK, database, stream, browser
  <1>5. ASSUME NEW k \in Handlers PROVE Consistent(k)'
    BY <1>0, <1>3 DEF LiveInv, DatabaseInv, Consistent, NoTxn, database
  <1>6. ASSUME NEW k \in Handlers, NEW l \in Handlers PROVE Apart(k, l)'
    <2>1. txn[k].stage # "idle" => txn[k].event \in Events
      BY DEF LiveInv, DatabaseInv, Consistent
    <2> QED
      BY <1>3, <2>1, UniversityEventsAssumption
         DEF LiveInv, DatabaseInv, Apart, NoTxn, Locks
  <1>7. AnsweredIsStored'
    BY <1>0 DEF LiveInv, DatabaseInv, AnsweredIsStored, Duplicate, database
  <1> QED
    BY <1>1, <1>4, <1>5, <1>6, <1>7 DEF LiveInv, DatabaseInv

(* A commit: the row is above those of its aggregate, in number and        *)
(* version, and no other transaction holds the aggregate's lock.           *)
LEMMA CommitStep ==
  ASSUME LiveInv, NEW h \in Handlers, Commit(h)
  PROVE  LiveInv'
  <1> DEFINE e == txn[h].event
             g == AggregateOf[e]
             row == [id |-> txn[h].id, event |-> e]
             written == txn[h].stage = "written"
  <1>0. /\ txn[h].stage \in {"stale", "written"}
        /\ inbox' = inbox \union {e}
        /\ version' = IF written THEN [version EXCEPT ![g] = VersionOf[e]] ELSE version
        /\ notices' = IF written THEN notices \union {row} ELSE notices
        /\ overtaken' = IF written /\ \E n \in notices : n.id > row.id
                          THEN overtaken \union {row} ELSE overtaken
        /\ txn' = [txn EXCEPT ![h] = NoTxn]
        /\ answered' \in {answered, answered \union {e}}
        /\ UNCHANGED <<lastId, stream, browser>>
    BY DEF Commit
  <1>1. /\ e \in Events /\ e \notin inbox /\ g \in Aggregates
        /\ VersionOf[e] \in Nat /\ version[g] \in Nat
    BY <1>0, UniversityEventsAssumption
       DEF LiveInv, LiveTypeOK, DatabaseInv, Consistent
  <1>2. written => /\ version[g] < VersionOf[e] /\ txn[h].id \in 1 .. lastId
                   /\ \A n \in notices : /\ n.id # txn[h].id
                                         /\ AggregateOf[n.event] = g => n.id < txn[h].id
    BY <1>0 DEF LiveInv, DatabaseInv, Consistent
  <1>3. written => row \in Notice /\ row.id = txn[h].id /\ row.event = e
    BY <1>1, <1>2, UniversityEventsAssumption
       DEF Notice, LiveInv, LiveTypeOK
  <1>4. txn'[h] = NoTxn /\ \A k \in Handlers \ {h} : txn'[k] = txn[k]
    BY <1>0 DEF LiveInv, LiveTypeOK
  <1>5. NoTxn \in Transaction
    BY UniversityEventsAssumption DEF NoTxn, Transaction, Stages
  <1>6. version' \in [Aggregates -> Nat]
    BY <1>0, <1>1 DEF LiveInv, LiveTypeOK
  <1>7. \A a \in Aggregates : /\ version[a] <= version'[a]
                              /\ a # g => version'[a] = version[a]
                              /\ a = g /\ written => version'[a] = VersionOf[e]
                              /\ ~written => version'[a] = version[a]
    BY <1>0, <1>1, <1>2 DEF LiveInv, LiveTypeOK
  <1> HIDE DEF row
  <1>8. notices' \subseteq Notice /\ notices \subseteq Notice
    BY <1>0, <1>3 DEF LiveInv, LiveTypeOK
  <1>9. LiveTypeOK'
    <2>1. overtaken' \subseteq Notice /\ txn' \in [Handlers -> Transaction]
      BY <1>0, <1>3, <1>5 DEF LiveInv, LiveTypeOK
    <2>2. inbox' \subseteq Events /\ answered' \subseteq Events
      BY <1>0, <1>1 DEF LiveInv, LiveTypeOK
    <2> QED
      BY <1>0, <1>6, <1>8, <2>1, <2>2 DEF LiveInv, LiveTypeOK, stream, browser
  <1>10. ASSUME NEW k \in Handlers PROVE Consistent(k)'
    <2>1. CASE k = h
      BY <1>4, <2>1 DEF Consistent, NoTxn
    <2>2. CASE k # h
      <3> DEFINE f == txn[k].event
      <3>1. txn'[k] = txn[k] /\ Consistent(k) /\ Apart(h, k) /\ Apart(k, h)
        BY <1>4, <2>2 DEF LiveInv, DatabaseInv
      <3>2. txn[k].stage # "idle" => f \in Events /\ f \notin inbox' /\ AggregateOf[f] \in Aggregates
        BY <1>0, <2>2, <3>1, UniversityEventsAssumption
           DEF Consistent, Apart
      <3>3. txn[k].stage \in Locks => ~written \/ AggregateOf[f] # g
        BY <2>2, <3>1 DEF Apart, Locks
      <3>4. txn[k].stage \in {"locked", "written"} => version'[AggregateOf[f]] = version[AggregateOf[f]]
        BY <1>7, <3>2, <3>3 DEF Locks
      <3>5. txn[k].stage = "written" =>
              \A n \in notices' : n.id # txn[k].id
                /\ (AggregateOf[n.event] = AggregateOf[f] => n.id < txn[k].id)
        BY <1>0, <1>3, <2>2, <3>1, <3>3 DEF Consistent, Apart, Locks
      <3> QED
        BY <1>0, <3>1, <3>2, <3>4, <3>5 DEF Consistent
    <2> QED
      BY <2>1, <2>2
  <1>11. ASSUME NEW k \in Handlers, NEW l \in Handlers PROVE Apart(k, l)'
    <2>1. txn[k].stage # "idle" => txn[k].event \in Events
      BY DEF LiveInv, DatabaseInv, Consistent
    <2> QED
      BY <1>4, <2>1, UniversityEventsAssumption
         DEF LiveInv, DatabaseInv, Apart, NoTxn, Locks
  <1>12. RowsInv'
    <2>1. CASE ~written
      BY <1>0, <1>7, <2>1 DEF LiveInv, DatabaseInv, RowsInv, NumberedByVersion
    <2>2. CASE written
      <3>1. \A n \in notices : /\ n.id \in Nat /\ n.id <= lastId /\ n.event \in Events
                              /\ n.event \in inbox /\ AggregateOf[n.event] \in Aggregates
                              /\ VersionOf[n.event] \in Nat
                              /\ VersionOf[n.event] <= version[AggregateOf[n.event]]
        BY <1>8, UniversityEventsAssumption
           DEF LiveInv, DatabaseInv, RowsInv, Notice
      <3>2. notices' = notices \union {row} /\ lastId' = lastId /\ lastId \in Nat
        BY <1>0, <2>2 DEF LiveInv, LiveTypeOK
      <3>3. ASSUME NEW n \in notices'
            PROVE  /\ n.id <= lastId' /\ n.event \in inbox'
                   /\ VersionOf[n.event] <= version'[AggregateOf[n.event]]
        <4>1. CASE n = row
          BY <1>0, <1>1, <1>2, <1>3, <1>7, <2>2, <3>2, <4>1
        <4>2. CASE n \in notices
          BY <1>0, <1>6, <1>7, <3>1, <3>2, <4>2 DEF LiveInv, LiveTypeOK
        <4> QED
          BY <3>2, <4>1, <4>2
      <3>4. ASSUME NEW m \in notices', NEW n \in notices', m.id = n.id PROVE m = n
        BY <1>2, <1>3, <2>2, <3>2, <3>4 DEF LiveInv, DatabaseInv, RowsInv
      <3>5. ASSUME NEW n \in notices, AggregateOf[n.event] = g
            PROVE  n.id < row.id /\ VersionOf[n.event] < VersionOf[e]
        BY <1>1, <1>2, <1>3, <2>2, <3>1, <3>5
      <3>6. ASSUME NEW m \in notices', NEW n \in notices',
                   AggregateOf[m.event] = AggregateOf[n.event]
            PROVE  m.id < n.id <=> VersionOf[m.event] < VersionOf[n.event]
        <4>1. CASE m \in notices /\ n \in notices
          BY <3>6, <4>1 DEF LiveInv, DatabaseInv, RowsInv, NumberedByVersion
        <4>2. CASE m = row /\ n \in notices
          BY <1>1, <1>2, <1>3, <2>2, <3>1, <3>5, <3>6, <4>2
        <4>3. CASE m \in notices /\ n = row
          BY <1>1, <1>2, <1>3, <2>2, <3>1, <3>5, <3>6, <4>3
        <4>4. CASE m = row /\ n = row
          BY <1>1, <1>2, <1>3, <2>2, <4>4
        <4> QED
          BY <3>2, <4>1, <4>2, <4>3, <4>4
      <3> QED
        BY <3>3, <3>4, <3>6 DEF RowsInv, NumberedByVersion
    <2> QED
      BY <2>1, <2>2
  <1>13. AnsweredIsStored'
    BY <1>0 DEF LiveInv, DatabaseInv, AnsweredIsStored, Duplicate, Clash
  <1>14. StreamInv'
    <2>1. CASE ~written
      BY <1>0, <2>1 DEF LiveInv, StreamInv, OnlyOvertakenIsSkipped, stream
    <2>2. CASE written
      <3>1. notices' = notices \union {row} /\ overtaken \subseteq overtaken'
            /\ cursor' = cursor /\ offered' = offered
        BY <1>0, <2>2 DEF stream
      <3>2. row.id <= cursor => row \in overtaken'
        <4> SUFFICES ASSUME row.id <= cursor PROVE row \in overtaken'
          OBVIOUS
        <4>1. row.id \in Nat \ {0} /\ cursor \in Nat
          BY <1>2, <1>3, <2>2 DEF LiveInv, LiveTypeOK
        <4>2. PICK n \in notices : n.id = cursor
          BY <4>1 DEF LiveInv, StreamInv
        <4>3. n.id > row.id
          BY <1>2, <1>3, <2>2, <4>1, <4>2
        <4> QED
          BY <1>0, <2>2, <4>3
      <3> QED
        BY <3>1, <3>2 DEF LiveInv, StreamInv, OnlyOvertakenIsSkipped
    <2> QED
      BY <2>1, <2>2
  <1>15. BrowserInv'
    BY <1>0 DEF LiveInv, BrowserInv, browser
  <1> QED
    BY <1>9, <1>10, <1>11, <1>12, <1>13, <1>14, <1>15 DEF LiveInv, DatabaseInv

----------------------------------------------------------------------------
(* Steps of the stream and of the browser *)

LEMMA DatabaseKept ==
  ASSUME LiveInv, UNCHANGED server
  PROVE  DatabaseInv'
  BY DEF LiveInv, DatabaseInv, Consistent, Apart, RowsInv, NumberedByVersion,
         AnsweredIsStored, Duplicate, server, database

LEMMA StreamStep ==
  ASSUME LiveInv, Connect \/ PollStream \/ Disconnect
  PROVE  LiveInv'
  <1>1. UNCHANGED <<server, browser>>
    BY DEF Connect, PollStream, Disconnect, server, browser
  <1>2. DatabaseInv' /\ BrowserInv'
    BY <1>1, DatabaseKept DEF LiveInv, BrowserInv, browser
  <1>3. CASE Connect
    <2>1. connected' = TRUE /\ UNCHANGED <<cursor, offered, pipe>>
      BY <1>3 DEF Connect
    <2>2. LiveTypeOK'
      BY <1>1, <2>1 DEF LiveInv, LiveTypeOK, server, database, browser
    <2> QED
      BY <1>1, <1>2, <2>1, <2>2
         DEF LiveInv, StreamInv, OnlyOvertakenIsSkipped, server, database
  <1>4. CASE PollStream
    <2> DEFINE rows == {n \in notices : n.id > cursor}
    <2>1. PICK last \in rows : (\A n \in rows : n.id <= last.id) /\ cursor' = last.id
      BY <1>4 DEF PollStream
    <2>2. /\ offered' = offered \union rows /\ pipe' = pipe \union rows
          /\ UNCHANGED connected
      BY <1>4 DEF PollStream
    <2>3. rows \subseteq Notice /\ last.id \in 0 .. MaxId /\ cursor \in 0 .. MaxId
      BY UniversityEventsAssumption
         DEF LiveInv, LiveTypeOK, Notice
    <2>4. LiveTypeOK'
      BY <1>1, <2>1, <2>2, <2>3 DEF LiveInv, LiveTypeOK, server, database, browser
    <2>5. StreamInv'
      <3>1. notices' = notices /\ overtaken' = overtaken
        BY <1>1 DEF server, database
      <3>2. \E n \in notices' : n.id = cursor'
        BY <2>1, <3>1
      <3>3. ASSUME NEW n \in notices, n \notin offered' PROVE n.id <= cursor
        BY <2>2, <2>3, <3>3 DEF LiveInv, LiveTypeOK, Notice
      <3> QED
        BY <2>2, <3>1, <3>2, <3>3 DEF LiveInv, StreamInv, OnlyOvertakenIsSkipped
    <2> QED
      BY <1>2, <2>4, <2>5 DEF LiveInv
  <1>5. CASE Disconnect
    <2>1. connected' = FALSE /\ cursor' = 0 /\ offered' = {} /\ pipe' = {}
      BY <1>5 DEF Disconnect
    <2>2. LiveTypeOK'
      <3>1. 0 \in 0 .. MaxId
        BY UniversityEventsAssumption
      <3> QED
        BY <1>1, <2>1, <3>1 DEF LiveInv, LiveTypeOK, server, database, browser
    <2>3. StreamInv'
      <3>1. notices' = notices /\ \A n \in notices : n.id > 0
        BY <1>1 DEF LiveInv, LiveTypeOK, Notice, server, database
      <3> QED
        BY <2>1, <3>1 DEF StreamInv, OnlyOvertakenIsSkipped, LiveInv, LiveTypeOK, Notice
    <2> QED
      BY <1>2, <2>2, <2>3 DEF LiveInv
  <1> QED
    BY <1>3, <1>4, <1>5

LEMMA ReadStep ==
  ASSUME LiveInv, NEW n \in pipe, ReadFrame(n)
  PROVE  LiveInv'
  <1>0. n.event \in Events
    BY DEF LiveInv, LiveTypeOK, Notice
  <1>1. /\ UNCHANGED <<server, connected, cursor, offered>> /\ pipe' = pipe \ {n}
        /\ announced' = IF n.event \in seen THEN announced
                         ELSE [announced EXCEPT ![n.event] = @ + 1]
        /\ seen' = seen \union {n.event}
    BY DEF ReadFrame
  <1>2. DatabaseInv'
    BY <1>1, DatabaseKept
  <1>3. announced' \in [Events -> Nat]
    BY <1>0, <1>1 DEF LiveInv, LiveTypeOK
  <1>4. LiveTypeOK'
    BY <1>0, <1>1, <1>3 DEF LiveInv, LiveTypeOK, server, database
  <1>5. StreamInv'
    BY <1>1 DEF LiveInv, StreamInv, OnlyOvertakenIsSkipped, server, database
  <1>6. ASSUME NEW e \in Events
        PROVE  announced'[e] = 0 \/ (announced'[e] = 1 /\ e \in seen')
    <2>1. CASE e = n.event /\ n.event \notin seen
      BY <1>0, <1>1, <2>1 DEF LiveInv, LiveTypeOK, BrowserInv
    <2>2. CASE ~(e = n.event /\ n.event \notin seen)
      BY <1>0, <1>1, <2>2 DEF LiveInv, LiveTypeOK, BrowserInv
    <2> QED
      BY <2>1, <2>2
  <1> QED
    BY <1>2, <1>4, <1>5, <1>6 DEF LiveInv, BrowserInv

LEMMA ReconcileStep ==
  ASSUME LiveInv, Reconcile
  PROVE  LiveInv'
  <1>1. /\ UNCHANGED <<server, stream, announced>>
        /\ seen' = seen \union {n.event : n \in notices}
    BY DEF Reconcile
  <1>2. DatabaseInv'
    BY <1>1, DatabaseKept
  <1>3. LiveTypeOK'
    BY <1>1 DEF LiveInv, LiveTypeOK, Notice, server, database, stream
  <1> QED
    BY <1>1, <1>2, <1>3
       DEF LiveInv, StreamInv, OnlyOvertakenIsSkipped, BrowserInv, server, database, stream

----------------------------------------------------------------------------
(* The theorems *)

(* The inductive invariant: what the transactions hold, how the rows are   *)
(* numbered, where the stream's cursor stands, what was announced.         *)
THEOREM LiveInvariance ==
  LiveSpec => []LiveInv
  <1>1. LiveInit => LiveInv
    <2> SUFFICES ASSUME LiveInit PROVE LiveInv
      OBVIOUS
    <2>1. NoTxn \in Transaction /\ NoTxn.stage = "idle"
      BY UniversityEventsAssumption DEF NoTxn, Transaction, Stages
    <2>2. LiveTypeOK
      <3>1. 0 \in 0 .. MaxId /\ 0 \in Nat
        BY UniversityEventsAssumption
      <3> QED
        BY <2>1, <3>1 DEF LiveInit, LiveTypeOK
    <2>3. DatabaseInv
      BY <2>1 DEF LiveInit, DatabaseInv, Consistent, Apart, RowsInv, NumberedByVersion,
                  AnsweredIsStored, Duplicate, Locks
    <2>4. StreamInv /\ BrowserInv
      BY DEF LiveInit, StreamInv, OnlyOvertakenIsSkipped, BrowserInv
    <2> QED
      BY <2>2, <2>3, <2>4 DEF LiveInv
  <1>2. LiveInv /\ [LiveNext]_liveVars => LiveInv'
    <2> SUFFICES ASSUME LiveInv, [LiveNext]_liveVars PROVE LiveInv'
      OBVIOUS
    <2>1. CASE UNCHANGED liveVars
      <3>1. DatabaseInv'
        BY <2>1, DatabaseKept DEF liveVars
      <3> QED
        BY <2>1, <3>1 DEF LiveInv, LiveTypeOK, StreamInv, OnlyOvertakenIsSkipped, BrowserInv,
                          liveVars, server, database, stream, browser
    <2>2. CASE LiveNext
      BY <2>2, ReceiveStep, LockStep, WriteStep, CommitStep, AbortStep, StreamStep,
         ReadStep, ReconcileStep DEF LiveNext
    <2> QED
      BY <2>1, <2>2
  <1> QED
    BY <1>1, <1>2, PTL DEF LiveSpec

(* Type correctness, for any number of events, deliveries and rows.        *)
THEOREM LiveTypeCorrect ==
  LiveSpec => []LiveTypeOK
  BY LiveInvariance, PTL DEF LiveInv

(* An event the university got an answer for is stored.                    *)
THEOREM AnswersAreTrue ==
  LiveSpec => []AnsweredIsStored
  BY LiveInvariance, PTL DEF LiveInv, DatabaseInv

(* The notices of an aggregate are numbered in the order of its versions.  *)
THEOREM NumbersFollowVersions ==
  LiveSpec => []NumberedByVersion
  BY LiveInvariance, PTL DEF LiveInv, DatabaseInv, RowsInv

(* Only a row committed after a higher number is passed over by a stream.  *)
THEOREM StreamSkipsOnlyOvertaken ==
  LiveSpec => []OnlyOvertakenIsSkipped
  BY LiveInvariance, PTL DEF LiveInv, StreamInv

(* An event counts as unread at most once.                                 *)
THEOREM AnnouncedAtMostOnce ==
  LiveSpec => []AnnouncedOnce
  <1>1. LiveInv => AnnouncedOnce
    <2> SUFFICES ASSUME LiveInv, NEW e \in Events PROVE announced[e] <= 1
      BY DEF AnnouncedOnce
    <2>1. announced[e] = 0 \/ announced[e] = 1
      BY DEF LiveInv, BrowserInv
    <2> QED
      BY <2>1
  <1> QED
    BY <1>1, LiveInvariance, PTL
============================================================================
