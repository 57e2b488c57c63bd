----------------------- MODULE MockRegistrationProofs -----------------------
(***************************************************************************)
(* Safety of the mock-registration log for every number of devices,        *)
(* requests, course lists, contexts, changes and transport errors.         *)
(*                                                                         *)
(* The argument: rows never change, so whatever a device has shown stays a *)
(* true picture of its revision.  A request carries such a picture as its  *)
(* basis, and the RPC inserts it only directly behind the revision of that *)
(* basis.  The rest of Inv says which requests may be authors of a row and *)
(* what an answer of the RPC promises until the device hears of it.        *)
(***************************************************************************)
EXTENDS MockRegistration, TLAPS

(* A picture some device may hold: of a revision that exists.              *)
Pictured(v) == v.revision \in 0 .. Len(log) /\ v = Shown(v.revision)

(* Row n is what the request asked for.                                    *)
Stored(q, n) ==
  /\ n \in 1 .. Len(log)
  /\ log[n].op = q.op
  /\ log[n].courses = q.courses
  /\ log[n].basis = q.basis

NotAuthor(r) == \A i \in 1 .. Len(log) : log[i].author # r

LogOK ==
  /\ log \in Seq(Rows)
  /\ DecidedOnThePrevious
  /\ \A i \in 1 .. Len(log) :
       log[i].op = "withdraw" => log[i].basis.op = "submit"

(* What holds of a request that may call the RPC.                          *)
Sendable(q) ==
  /\ q.op \in Operations
  /\ q.context \in Contexts

RequestOK(r, q) ==
  /\ Pictured(q.basis)
  /\ q.op = "withdraw" => q.basis.op = "submit"
  /\ q.step # "unused" => q.op \in Operations
  /\ q.step \in {"check", "fresh", "persist", "reread"} => q.context \in Contexts
  /\ q.step = "done" <=> q.answer # "none"
  /\ q.step = "reread" => Stored(q, q.basis.revision + 1)
  /\ q.answer = "SUCCESS" => Stored(q, q.revision)
  /\ q.step \in Steps \ {"reread", "done"} => NotAuthor(r)
  /\ q.answer \notin {"none", "SUCCESS", "UNAVAILABLE"} => NotAuthor(r)

Types ==
  /\ context \in Contexts
  /\ changes \in 0 .. MaxChanges
  /\ expired \in BOOLEAN
  /\ view \in [Devices -> Views]
  /\ awaiting \in [Devices -> Requests \union {NoRequest}]
  /\ request \in [Requests -> RequestRecord]
  /\ late \subseteq Requests

LateOK(r) == request[r].answer = "UNAVAILABLE" /\ Sendable(request[r])

Inv ==
  /\ LogOK
  /\ Types
  /\ \A d \in Devices : Pictured(view[d])
  /\ \A r \in Requests : RequestOK(r, request[r])
  /\ \A r \in late : LateOK(r)

(* The log only grows, at its end.                                         *)
Grows ==
  /\ Len(log) <= Len(log')
  /\ \A i \in 1 .. Len(log) : log'[i] = log[i]

----------------------------------------------------------------------------
(* The log *)

LEMMA ShownKept ==
  ASSUME LogOK, Grows, NEW i \in 0 .. Len(log)
  PROVE  Shown(i)' = Shown(i)
BY DEF LogOK, Grows, Shown

LEMMA ShownIsView ==
  ASSUME LogOK, NEW i \in 0 .. Len(log)
  PROVE  Shown(i) \in Views /\ Shown(i).revision = i
<1>1. i # 0 => log[i] \in Rows
  BY DEF LogOK
<1>2. i # 0 => log[i].op \in Operations /\ log[i].courses \in Lists
  BY <1>1 DEF Rows
<1> QED BY <1>2 DEF Shown, Views, NoIntent, Lists

(* Whatever the RPC does for a request, the log stays in order, grows at   *)
(* most by a row of that request, and a success means that it is stored.   *)
LEMMA PersistLemma ==
  ASSUME LogOK, NEW r \in Requests, NEW answer,
         request[r] \in RequestRecord, RequestOK(r, request[r]),
         Sendable(request[r]), PersistRpc(r, answer)
  PROVE  /\ LogOK'
         /\ Grows
         /\ \A i \in 1 .. Len(log') : log'[i].author # r => i \in 1 .. Len(log)
         /\ answer # "SUCCESS" => log' = log
         /\ answer = "SUCCESS" =>
              LET n == request[r].basis.revision + 1 IN
              /\ n \in 1 .. Len(log')
              /\ log'[n].op = request[r].op
              /\ log'[n].courses = request[r].courses
              /\ log'[n].basis = request[r].basis
<1> DEFINE q == request[r]
           n == q.basis.revision + 1
<1>0. /\ q.op \in Operations /\ q.courses \in Lists /\ q.basis \in Views
      /\ q.context \in Contexts
      /\ q.basis = Shown(q.basis.revision) /\ q.basis.revision \in 0 .. Len(log)
      /\ q.op = "withdraw" => q.basis.op = "submit"
  BY DEF RequestRecord, RequestOK, Sendable, Pictured
<1>1. CASE IsReplay(r) /\ answer = "SUCCESS" /\ UNCHANGED log
  <2>1. n \in 1 .. Len(log) /\ Fingerprint(log[n], n) = Fingerprint(q, n)
    BY <1>1, <1>0 DEF IsReplay, Occupied, NextRevision, LogOK, Views
  <2>2. log[n].op = q.op /\ log[n].courses = q.courses
    BY <2>1 DEF Fingerprint
  <2>3. log[n].basis = q.basis
    BY <2>1, <1>0 DEF LogOK, DecidedOnThePrevious, Views
  <2> QED BY <1>1, <2>1, <2>2, <2>3
          DEF LogOK, Grows, DecidedOnThePrevious, Shown
<1>2. CASE UNCHANGED log /\ answer # "SUCCESS"
  BY <1>2 DEF LogOK, Grows, DecidedOnThePrevious, Shown
<1>3. CASE Insertable(r) /\ answer = "SUCCESS" /\ log' = Append(log, NewRow(r))
  <2>1. NewRow(r) \in Rows
    BY <1>0 DEF NewRow, Rows
  <2>2. /\ log \in Seq(Rows) /\ log' \in Seq(Rows) /\ Len(log') = Len(log) + 1
        /\ \A i \in 1 .. Len(log) : log'[i] = log[i]
        /\ log'[Len(log) + 1] = NewRow(r)
    BY <1>3, <2>1 DEF LogOK
  <2>3. n = Len(log) + 1 /\ n \in 1 .. Len(log')
    BY <1>3, <2>2, <1>0 DEF Insertable, NextRevision
  <2>4. \A i \in 0 .. Len(log) : Shown(i)' = Shown(i)
    BY <2>2 DEF Shown
  <2>5. NewRow(r).op = q.op /\ NewRow(r).courses = q.courses
        /\ NewRow(r).basis = q.basis /\ NewRow(r).author = r
    BY DEF NewRow
  <2>6. ASSUME NEW i \in 1 .. Len(log')
        PROVE  /\ log'[i].basis = Shown(i - 1)'
               /\ log'[i].op = "withdraw" => log'[i].basis.op = "submit"
    <3>1. CASE i \in 1 .. Len(log)
      BY <3>1, <2>2, <2>4 DEF LogOK, DecidedOnThePrevious
    <3>2. CASE i = n
      <4>1. i - 1 = q.basis.revision /\ i - 1 \in 0 .. Len(log)
        BY <3>2, <1>0
      <4>2. log'[i] = NewRow(r)
        BY <3>2, <2>2, <2>3
      <4>3. Shown(i - 1)' = q.basis
        BY <4>1, <2>4, <1>0
      <4> QED BY <4>2, <4>3, <2>5, <1>0
    <3> QED BY <3>1, <3>2, <2>2, <2>3
  <2>7. LogOK'
    BY <2>2, <2>6 DEF LogOK, DecidedOnThePrevious
  <2>8. \A i \in 1 .. Len(log') : log'[i].author # r => i \in 1 .. Len(log)
    BY <2>2, <2>5
  <2> QED BY <1>3, <2>2, <2>3, <2>5, <2>7, <2>8 DEF Grows
<1> QED BY <1>1, <1>2, <1>3 DEF PersistRpc

----------------------------------------------------------------------------
(* What a step leaves alone *)

(* Rows that are new in this step are not by request s.                    *)
NoNewRowOf(s) ==
  \A i \in 1 .. Len(log') : log'[i].author = s => i \in 1 .. Len(log)

LEMMA QuietLog ==
  ASSUME LogOK, UNCHANGED log
  PROVE  LogOK' /\ Grows /\ \A s \in Requests : NoNewRowOf(s)
BY DEF LogOK, Grows, NoNewRowOf, DecidedOnThePrevious, Shown

LEMMA PictureKept ==
  ASSUME Inv, LogOK', Grows, NEW d \in Devices, view'[d] = view[d]
  PROVE  Pictured(view[d])'
BY DEF Inv, Types, LogOK, Grows, Pictured, Shown, Views

LEMMA RequestKept ==
  ASSUME Inv, LogOK', Grows, NEW s \in Requests, NoNewRowOf(s),
         request'[s] = request[s]
  PROVE  RequestOK(s, request[s])'
<1>1. RequestOK(s, request[s]) /\ request[s] \in RequestRecord
  BY DEF Inv, Types
<1>2. Pictured(request[s].basis)'
  BY <1>1 DEF RequestOK, RequestRecord, Inv, LogOK, Grows, Pictured, Shown, Views
<1>3. request[s].step = "reread" =>
        Stored(request[s], request[s].basis.revision + 1)'
  BY <1>1 DEF RequestOK, Inv, LogOK, Grows, Stored
<1>4. request[s].answer = "SUCCESS" => Stored(request[s], request[s].revision)'
  BY <1>1 DEF RequestOK, Inv, LogOK, Grows, Stored
<1>5. NotAuthor(s) => NotAuthor(s)'
  BY DEF NotAuthor, NoNewRowOf, Inv, LogOK, Grows
<1> QED BY <1>1, <1>2, <1>3, <1>4, <1>5 DEF RequestOK

(* A step of request r that changes its own record only.                   *)
RecordOf(r, q) == request' = [request EXCEPT ![r] = q]

LEMMA OthersKept ==
  ASSUME Inv, LogOK', Grows, NEW r \in Requests,
         request[r].step \notin {"unused", "done"},
         \A s \in Requests \ {r} : NoNewRowOf(s) /\ request'[s] = request[s]
  PROVE  /\ \A s \in Requests \ {r} : RequestOK(s, request[s])'
         /\ r \notin late
         /\ \A s \in late : LateOK(s)'
<1>1. r \notin late
  BY DEF Inv, LateOK, RequestOK
<1>2. \A s \in Requests \ {r} : RequestOK(s, request[s])'
  BY RequestKept
<1>3. \A s \in late : LateOK(s)'
  BY <1>1 DEF Inv, Types, LateOK, Sendable
<1> QED BY <1>1, <1>2, <1>3

(* What a request in progress is known to be.                              *)
LEMMA InProgress ==
  ASSUME Inv, NEW r \in Requests, request[r].step \notin {"unused", "done"}
  PROVE  /\ request[r] \in RequestRecord /\ RequestOK(r, request[r])
         /\ request[r].op \in Operations
         /\ request[r].answer = "none"
BY DEF Inv, Types, RequestOK

LEMMA AdvanceLemma ==
  ASSUME Inv, LogOK', Grows, NEW r \in Requests, NEW step \in Steps,
         request[r].step \notin {"unused", "done"},
         step \notin {"unused", "done"}, Advance(r, step),
         \A s \in Requests \ {r} : NoNewRowOf(s),
         step \in {"check", "fresh", "persist", "reread"} =>
           request[r].context \in Contexts,
         step = "reread" => Stored(request[r], request[r].basis.revision + 1)',
         step # "reread" => NotAuthor(r)'
  PROVE  /\ request' \in [Requests -> RequestRecord]
         /\ view' = view /\ awaiting' = awaiting
         /\ \A d \in Devices : Pictured(view[d])'
         /\ \A s \in Requests : RequestOK(s, request[s])'
         /\ \A s \in late : LateOK(s)'
<1> DEFINE q == [request[r] EXCEPT !.step = step]
<1>1. /\ request \in [Requests -> RequestRecord]
      /\ request' = [request EXCEPT ![r] = q] /\ view' = view /\ awaiting' = awaiting
  BY DEF Advance, Inv, Types
<1>2. q \in RequestRecord
  BY <1>1 DEF RequestRecord
<1>3. /\ request' \in [Requests -> RequestRecord] /\ request'[r] = q
      /\ \A s \in Requests \ {r} : request'[s] = request[s]
  BY <1>1, <1>2
<1>4. Pictured(request[r].basis)'
  <2>1. Pictured(request[r].basis) /\ request[r].basis \in Views
    BY InProgress DEF RequestOK, RequestRecord
  <2>2. Shown(request[r].basis.revision)' = Shown(request[r].basis.revision)
        /\ request'[r].basis = request[r].basis
    BY <2>1, <1>1, <1>3, ShownKept DEF Pictured, Inv, RequestRecord
  <2> QED BY <2>1, <2>2 DEF Pictured, Grows, Inv, LogOK
<1>5. RequestOK(r, request[r])'
  <2>1. /\ q.step = step /\ q.op = request[r].op /\ q.basis = request[r].basis
        /\ q.courses = request[r].courses
        /\ q.context = request[r].context /\ q.answer = request[r].answer
    BY <1>1 DEF RequestRecord
  <2>2. RequestOK(r, request[r]) /\ request[r].op \in Operations
        /\ request[r].answer = "none"
    BY InProgress
  <2> QED BY <1>3, <1>4, <2>1, <2>2 DEF RequestOK, Stored, Pictured
<1>6. \A d \in Devices : Pictured(view[d])'
  BY <1>1, PictureKept
<1> QED BY <1>1, <1>3, <1>5, <1>6, OthersKept

LEMMA AnswerLemma ==
  ASSUME Inv, LogOK', Grows, NEW r \in Requests,
         NEW answer \in Answers \ {"none"}, NEW revision \in Nat,
         request[r].step \notin {"unused", "done"}, Answer(r, answer, revision),
         \A s \in Requests \ {r} : NoNewRowOf(s),
         answer = "SUCCESS" => Stored(request[r], revision)' /\ UNCHANGED log
                               /\ revision = request[r].basis.revision + 1,
         answer \notin {"SUCCESS", "UNAVAILABLE"} => NotAuthor(r)'
  PROVE  /\ request' \in [Requests -> RequestRecord]
         /\ view' \in [Devices -> Views]
         /\ awaiting' \in [Devices -> Requests \union {NoRequest}]
         /\ \A d \in Devices : Pictured(view[d])'
         /\ \A s \in Requests : RequestOK(s, request[s])'
         /\ \A s \in late : LateOK(s)'
<1> DEFINE q == [request[r] EXCEPT !.step = "done", !.answer = answer,
                                   !.revision = revision]
<1>1. /\ request \in [Requests -> RequestRecord]
      /\ request' = [request EXCEPT ![r] = q]
  BY DEF Answer, Inv, Types
<1>2. q \in RequestRecord
  BY <1>1 DEF RequestRecord, Steps
<1>3. /\ request' \in [Requests -> RequestRecord] /\ request'[r] = q
      /\ \A s \in Requests \ {r} : request'[s] = request[s]
  BY <1>1, <1>2
<1>4. Pictured(request[r].basis)'
  <2>1. Pictured(request[r].basis) /\ request[r].basis \in Views
    BY InProgress DEF RequestOK, RequestRecord
  <2>2. Shown(request[r].basis.revision)' = Shown(request[r].basis.revision)
        /\ request'[r].basis = request[r].basis
    BY <2>1, <1>1, <1>3, ShownKept DEF Pictured, Inv, RequestRecord
  <2> QED BY <2>1, <2>2 DEF Pictured, Grows, Inv, LogOK
<1>5. RequestOK(r, request[r])'
  <2>1. /\ q.step = "done" /\ q.op = request[r].op /\ q.basis = request[r].basis
        /\ q.courses = request[r].courses /\ q.revision = revision
        /\ q.context = request[r].context /\ q.answer = answer
    BY <1>1 DEF RequestRecord
  <2>2. RequestOK(r, request[r]) /\ request[r].op \in Operations
    BY InProgress
  <2> QED BY <1>3, <1>4, <2>1, <2>2 DEF RequestOK, Stored, Pictured, NotAuthor
<1>6. /\ view' \in [Devices -> Views]
      /\ awaiting' \in [Devices -> Requests \union {NoRequest}]
      /\ \A d \in Devices : Pictured(view[d])'
  <2> DEFINE d == request[r].device
  <2>1. view \in [Devices -> Views] /\ awaiting \in [Devices -> Requests \union {NoRequest}]
    BY DEF Inv, Types
  <2>2. CASE UNCHANGED <<view, awaiting>>
    BY <2>1, <2>2, PictureKept
  <2>3. CASE awaiting' = [awaiting EXCEPT ![d] = NoRequest] /\ view' = view
    BY <2>1, <2>3, PictureKept
  <2>4. CASE /\ awaiting' = [awaiting EXCEPT ![d] = NoRequest]
             /\ answer = "SUCCESS" /\ view' = [view EXCEPT ![d] = Shown(revision)]
    <3>1. revision \in 1 .. Len(log) /\ log \in Seq(Rows) /\ log' = log
      BY <2>4 DEF Stored, Inv, LogOK
    <3>2. /\ Shown(revision) \in Views /\ Shown(revision).revision = revision
          /\ Shown(revision)' = Shown(revision)
      BY <3>1, ShownIsView DEF Shown, Inv
    <3>3. ASSUME NEW e \in Devices PROVE Pictured(view[e])'
      <4>1. CASE e = d
        BY <2>1, <2>4, <3>1, <3>2, <4>1 DEF Pictured
      <4>2. CASE e # d
        BY <2>1, <2>4, <4>2, PictureKept
      <4> QED BY <4>1, <4>2
    <3> QED BY <2>1, <2>4, <3>2, <3>3
  <2> QED BY <2>2, <2>3, <2>4 DEF Answer
<1> QED BY <1>3, <1>5, <1>6, OthersKept
----------------------------------------------------------------------------
(* The devices and the environment *)

LEMMA EverythingKept ==
  ASSUME Inv, UNCHANGED <<log, request, late>>
  PROVE  /\ LogOK'
         /\ \A s \in Requests : RequestOK(s, request[s])'
         /\ \A s \in late' : LateOK(s)'
<1>1. LogOK' /\ Grows /\ \A s \in Requests : NoNewRowOf(s)
  BY QuietLog DEF Inv
<1>2. \A s \in Requests : RequestOK(s, request[s])'
  BY <1>1, RequestKept
<1> QED BY <1>1, <1>2 DEF Inv, LateOK, Sendable

LEMMA RefreshStep ==
  ASSUME Inv, NEW d \in Devices, Refresh(d)
  PROVE  Inv'
<1> PICK i \in 0 .. Len(log) : view' = [view EXCEPT ![d] = Shown(i)]
  BY DEF Refresh
<1>1. Shown(i) \in Views /\ Shown(i).revision = i
  BY ShownIsView DEF Inv
<1>2. LogOK' /\ Grows
  BY QuietLog DEF Refresh, Inv
<1>3. ASSUME NEW e \in Devices PROVE Pictured(view[e])'
  <2>1. CASE e = d
    BY <1>1, <2>1 DEF Refresh, Inv, Types, Pictured, Shown
  <2>2. CASE e # d
    BY <1>2, <2>2, PictureKept DEF Inv, Types
  <2> QED BY <2>1, <2>2
<1>4. Types'
  BY <1>1 DEF Refresh, Inv, Types
<1> QED BY <1>3, <1>4, EverythingKept DEF Refresh, Inv

LEMMA SendStep ==
  ASSUME Inv, NEW d \in Devices, NEW r \in Requests, NEW op \in Operations,
         NEW courses \in Lists, op = "withdraw" => view[d].op = "submit",
         Send(d, r, op, courses)
  PROVE  Inv'
<1> DEFINE q == [request[r] EXCEPT !.step = "context", !.device = d, !.op = op,
                                   !.courses = courses, !.basis = view[d]]
<1>1. LogOK' /\ Grows /\ \A s \in Requests : NoNewRowOf(s)
  BY QuietLog DEF Send, Inv
<1>2. /\ request \in [Requests -> RequestRecord] /\ view[d] \in Views
      /\ request' = [request EXCEPT ![r] = q]
      /\ request[r].step = "unused" /\ request[r].answer = "none"
  BY DEF Send, Inv, Types, RequestOK
<1>3. q \in RequestRecord
  BY <1>2 DEF RequestRecord, Steps
<1>4. /\ request' \in [Requests -> RequestRecord] /\ request'[r] = q
      /\ \A s \in Requests \ {r} : request'[s] = request[s]
  BY <1>2, <1>3
<1>5. /\ q.step = "context" /\ q.op = op /\ q.basis = view[d]
      /\ q.answer = "none"
  BY <1>2 DEF RequestRecord
<1>6. \A e \in Devices : Pictured(view[e])'
  BY <1>1, PictureKept DEF Send
<1>7. RequestOK(r, request[r])'
  <2>1. NotAuthor(r)'
    BY <1>2 DEF Send, Inv, RequestOK, NotAuthor, Steps
  <2> QED BY <1>4, <1>5, <1>6, <2>1 DEF Send, RequestOK, Pictured, Shown
<1>8. \A s \in Requests : RequestOK(s, request[s])'
  BY <1>1, <1>4, <1>7, RequestKept
<1>9. \A s \in late' : LateOK(s)'
  <2>1. r \notin late
    BY <1>2 DEF Inv, LateOK
  <2> QED BY <1>4, <2>1 DEF Send, Inv, Types, LateOK, Sendable
<1>10. Types'
  BY <1>4 DEF Send, Inv, Types
<1> QED BY <1>1, <1>6, <1>8, <1>9, <1>10 DEF Inv

LEMMA DeviceStep ==
  ASSUME Inv, NEW d \in Devices, NEW r \in Requests,
         SubmitRevision(d, r) \/ WithdrawIntent(d, r)
  PROVE  Inv'
<1>1. CASE SubmitRevision(d, r)
  BY <1>1, SendStep DEF SubmitRevision, Operations, Lists
<1>2. CASE WithdrawIntent(d, r)
  BY <1>2, SendStep DEF WithdrawIntent, Operations, Lists
<1> QED BY <1>1, <1>2

LEMMA EnvironmentStep ==
  ASSUME Inv,
         \/ \E d \in Devices : StopWaiting(d)
         \/ AcademicChange \/ PeriodEnds \/ UNCHANGED vars
  PROVE  Inv'
<1>1. UNCHANGED <<log, request, late, view>>
  BY DEF StopWaiting, AcademicChange, PeriodEnds, vars
<1>2. LogOK' /\ Grows
  BY <1>1, QuietLog DEF Inv
<1>3. \A d \in Devices : Pictured(view[d])'
  BY <1>1, <1>2, PictureKept
<1>4. Types'
  <2>1. CASE \E d \in Devices : StopWaiting(d)
    BY <2>1 DEF StopWaiting, Inv, Types
  <2>2. CASE AcademicChange
    BY <2>2, RegistrationAssumption DEF AcademicChange, Inv, Types
  <2>3. CASE PeriodEnds
    BY <2>3 DEF PeriodEnds, Inv, Types
  <2>4. CASE UNCHANGED vars
    BY <2>4 DEF vars, Inv, Types
  <2> QED BY <2>1, <2>2, <2>3, <2>4
<1> QED BY <1>1, <1>3, <1>4, EverythingKept DEF Inv

----------------------------------------------------------------------------
(* The requests *)

(* A request that reads something and goes on, or answers without success. *)
LEMMA ReadingStep ==
  ASSUME Inv, NEW r \in Requests,
         request[r].step \in {"context", "check", "fresh"},
         UNCHANGED <<log, late>>, context' \in Contexts,
         changes' \in 0 .. MaxChanges, expired' \in BOOLEAN,
         \/ \E answer \in Answers \ {"none", "SUCCESS"} : Answer(r, answer, 0)
         \/ request[r].context \in Contexts
            /\ \E step \in {"fresh", "persist"} : Advance(r, step)
  PROVE  Inv'
<1>1. LogOK' /\ Grows /\ \A s \in Requests : NoNewRowOf(s)
  BY QuietLog DEF Inv
<1>2. NotAuthor(r)'
  BY DEF Inv, RequestOK, NotAuthor, Steps
<1>3. CASE \E answer \in Answers \ {"none", "SUCCESS"} : Answer(r, answer, 0)
  BY <1>1, <1>2, <1>3, AnswerLemma DEF Inv, Types
<1>4. CASE request[r].context \in Contexts
           /\ \E step \in {"fresh", "persist"} : Advance(r, step)
  BY <1>1, <1>2, <1>4, AdvanceLemma DEF Inv, Types, Steps
<1> QED BY <1>3, <1>4

LEMMA LoadContextStep ==
  ASSUME Inv, NEW r \in Requests, LoadContext(r)
  PROVE  Inv'
<1> DEFINE q == [request[r] EXCEPT !.step = "check", !.context = context]
<1>1. LogOK' /\ Grows /\ \A s \in Requests : NoNewRowOf(s)
  BY QuietLog DEF LoadContext, Inv
<1>2. /\ request \in [Requests -> RequestRecord] /\ context \in Contexts
      /\ request' = [request EXCEPT ![r] = q]
      /\ request[r].step = "context"
  BY DEF LoadContext, Inv, Types
<1>3. q \in RequestRecord
  BY <1>2 DEF RequestRecord, Steps
<1>4. /\ request' \in [Requests -> RequestRecord] /\ request'[r] = q
      /\ \A s \in Requests \ {r} : request'[s] = request[s]
  BY <1>2, <1>3
<1>5. /\ q.step = "check" /\ q.op = request[r].op
      /\ q.basis = request[r].basis /\ q.answer = request[r].answer
  BY <1>2 DEF RequestRecord
<1>6. RequestOK(r, request[r])'
  <2>1. RequestOK(r, request[r])
    BY DEF Inv
  <2> QED BY <1>2, <1>4, <1>5, <2>1
          DEF LoadContext, RequestOK, NotAuthor, Steps, Pictured, Shown
<1>7. \A d \in Devices : Pictured(view[d])'
  BY <1>1, PictureKept DEF LoadContext
<1>8. Types'
  BY <1>4 DEF LoadContext, Inv, Types
<1>9. /\ \A s \in Requests \ {r} : RequestOK(s, request[s])'
      /\ \A s \in late : LateOK(s)'
  BY <1>1, <1>2, <1>4, OthersKept
<1> QED BY <1>1, <1>6, <1>7, <1>8, <1>9 DEF LoadContext, Inv

LEMMA CheckStep ==
  ASSUME Inv, NEW r \in Requests,
         CheckSubmission(r) \/ CheckWithdrawal(r) \/ RereadContext(r)
  PROVE  Inv'
<1>1. /\ context \in Contexts /\ changes \in 0 .. MaxChanges
      /\ expired \in BOOLEAN
  BY DEF Inv, Types
<1>2. request[r].step = "check" => request[r].context \in Contexts
  BY DEF Inv, RequestOK
<1>3. CASE CheckSubmission(r)
  BY <1>1, <1>2, <1>3, ReadingStep DEF CheckSubmission, Answers
<1>4. CASE CheckWithdrawal(r)
  BY <1>1, <1>2, <1>4, ReadingStep DEF CheckWithdrawal, Answers
<1>5. CASE RereadContext(r)
  BY <1>1, <1>5, ReadingStep DEF RereadContext, Answers, Inv, RequestOK
<1> QED BY <1>3, <1>4, <1>5
LEMMA PersistStep ==
  ASSUME Inv, NEW r \in Requests, Persist(r)
  PROVE  Inv'
<1>1. PICK answer \in Answers :
        /\ PersistRpc(r, answer)
        /\ \/ answer = "SUCCESS" /\ Advance(r, "reread")
           \/ answer # "SUCCESS" /\ Answer(r, answer, 0)
  BY DEF Persist
<1>2. /\ request[r] \in RequestRecord /\ RequestOK(r, request[r])
      /\ Sendable(request[r]) /\ request[r].step = "persist"
  BY InProgress DEF Persist, Sendable, RequestOK
<1>3. /\ LogOK' /\ Grows
      /\ \A s \in Requests \ {r} : NoNewRowOf(s)
      /\ answer # "SUCCESS" => log' = log
      /\ answer = "SUCCESS" => Stored(request[r], request[r].basis.revision + 1)'
  <2>1. /\ LogOK' /\ Grows
        /\ \A i \in 1 .. Len(log') : log'[i].author # r => i \in 1 .. Len(log)
        /\ answer # "SUCCESS" => log' = log
        /\ answer = "SUCCESS" =>
             LET n == request[r].basis.revision + 1 IN
             /\ n \in 1 .. Len(log')
             /\ log'[n].op = request[r].op
             /\ log'[n].courses = request[r].courses
             /\ log'[n].basis = request[r].basis
    BY <1>1, <1>2, PersistLemma DEF Inv
  <2>2. /\ Advance(r, "reread") =>
             /\ request'[r].basis = request[r].basis
             /\ request'[r].op = request[r].op
             /\ request'[r].courses = request[r].courses
    BY <1>2 DEF Advance, Inv, Types, RequestRecord
  <2> QED BY <1>1, <2>1, <2>2 DEF NoNewRowOf, Stored
<1>4. answer # "SUCCESS" => NotAuthor(r)'
  BY <1>2, <1>3 DEF RequestOK, NotAuthor, Steps
<1>5. answer # "none"
  BY <1>1 DEF PersistRpc
<1>6. CASE answer = "SUCCESS" /\ Advance(r, "reread")
  BY <1>2, <1>3, <1>6, AdvanceLemma DEF Persist, Inv, Types, Sendable, Steps
<1>7. CASE answer # "SUCCESS" /\ Answer(r, answer, 0)
  BY <1>2, <1>3, <1>4, <1>5, <1>7, AnswerLemma DEF Persist, Inv, Types
<1> QED BY <1>1, <1>6, <1>7

LEMMA RereadStep ==
  ASSUME Inv, NEW r \in Requests, Reread(r)
  PROVE  Inv'
<1>1. LogOK' /\ Grows /\ \A s \in Requests : NoNewRowOf(s)
  BY QuietLog DEF Reread, Inv
<1>2. /\ request[r] \in RequestRecord /\ request[r].step = "reread"
      /\ Stored(request[r], request[r].basis.revision + 1)
      /\ request \in [Requests -> RequestRecord]
  BY InProgress DEF Reread, RequestOK, Inv, Types
<1>3. NextRevision(r) = request[r].basis.revision + 1 /\ NextRevision(r) \in Nat
  BY <1>2 DEF NextRevision, RequestRecord, Views
<1>4. Stored(request[r], NextRevision(r))'
  <2>1. /\ request'[r].op = request[r].op /\ request'[r].basis = request[r].basis
        /\ request'[r].courses = request[r].courses
    BY <1>2 DEF Reread, Answer, RequestRecord
  <2> QED BY <1>2, <1>3, <2>1 DEF Reread, Stored, NextRevision
<1>5. Answer(r, "SUCCESS", NextRevision(r)) /\ UNCHANGED log
  BY DEF Reread
<1>6. /\ request' \in [Requests -> RequestRecord]
      /\ view' \in [Devices -> Views]
      /\ awaiting' \in [Devices -> Requests \union {NoRequest}]
      /\ \A d \in Devices : Pictured(view[d])'
      /\ \A s \in Requests : RequestOK(s, request[s])'
      /\ \A s \in late : LateOK(s)'
  <2> DEFINE n == request[r].basis.revision + 1
  <2>1. Answer(r, "SUCCESS", n) /\ n \in Nat
    BY <1>3, <1>5
  <2>2. n' = n
    BY <1>2 DEF Reread, Answer, RequestRecord
  <2>3. Stored(request[r], n)'
    BY <1>3, <1>4, <2>2 DEF NextRevision
  <2> QED BY <1>1, <1>2, <2>1, <2>2, <2>3, <1>5, AnswerLemma DEF Answers
<1> QED BY <1>1, <1>6 DEF Reread, Inv, Types

LEMMA UnavailableStep ==
  ASSUME Inv, NEW r \in Requests, ReadFails(r) \/ PersistUnanswered(r)
  PROVE  Inv'
<1>1. /\ request[r].step \notin {"unused", "done"} /\ UNCHANGED log
      /\ Answer(r, "UNAVAILABLE", 0)
      /\ UNCHANGED <<context, changes, expired>>
  BY DEF ReadFails, PersistUnanswered, Unavailable
<1>2. LogOK' /\ Grows /\ \A s \in Requests : NoNewRowOf(s)
  BY <1>1, QuietLog DEF Inv
<1>3. /\ request' \in [Requests -> RequestRecord]
      /\ view' \in [Devices -> Views]
      /\ awaiting' \in [Devices -> Requests \union {NoRequest}]
      /\ \A d \in Devices : Pictured(view[d])'
      /\ \A s \in Requests : RequestOK(s, request[s])'
      /\ \A s \in late : LateOK(s)'
  BY <1>1, <1>2, AnswerLemma DEF Answers
<1>4. late' \subseteq Requests /\ \A s \in late' : LateOK(s)'
  <2>1. CASE ReadFails(r)
    BY <1>3, <2>1 DEF ReadFails, Inv, Types
  <2>2. CASE PersistUnanswered(r)
    <3>1. Sendable(request[r]) /\ request[r] \in RequestRecord
          /\ request \in [Requests -> RequestRecord]
      BY <2>2, InProgress DEF PersistUnanswered, Sendable, RequestOK, Inv, Types
    <3>2. LateOK(r)'
      BY <1>1, <3>1 DEF Answer, LateOK, Sendable, RequestRecord
    <3> QED BY <1>3, <2>2, <3>2 DEF PersistUnanswered, Inv, Types
  <2> QED BY <2>1, <2>2
<1> QED BY <1>1, <1>2, <1>3, <1>4 DEF Inv, Types

LEMMA PersistLateStep ==
  ASSUME Inv, NEW r \in Requests, PersistLate(r)
  PROVE  Inv'
<1>1. /\ r \in late /\ late' = late \ {r} /\ UNCHANGED request
      /\ UNCHANGED <<context, changes, expired, view, awaiting>>
  BY DEF PersistLate
<1>2. PICK answer \in Answers : PersistRpc(r, answer)
  BY DEF PersistLate
<1>3. /\ request[r] \in RequestRecord /\ RequestOK(r, request[r])
      /\ request[r].answer = "UNAVAILABLE" /\ Sendable(request[r])
  BY <1>1 DEF Inv, Types, LateOK
<1>4. /\ LogOK' /\ Grows
      /\ \A s \in Requests \ {r} : NoNewRowOf(s)
  BY <1>2, <1>3, PersistLemma DEF Inv, NoNewRowOf
<1>5. \A d \in Devices : Pictured(view[d])'
  BY <1>1, <1>4, PictureKept
<1>6. RequestOK(r, request[r])'
  <2>1. Pictured(request[r].basis)'
    <3>1. Pictured(request[r].basis) /\ request[r].basis \in Views
      BY <1>3 DEF RequestOK, RequestRecord
    <3>2. Shown(request[r].basis.revision)' = Shown(request[r].basis.revision)
      BY <1>1, <1>4, <3>1, ShownKept DEF Pictured, Inv
    <3> QED BY <1>1, <1>4, <3>1, <3>2 DEF Pictured, Grows, Inv, LogOK
  <2>2. request[r].step = "done"
    BY <1>3 DEF RequestOK
  <2> QED BY <1>1, <1>3, <2>1, <2>2 DEF RequestOK
<1>7. \A s \in Requests : RequestOK(s, request[s])'
  BY <1>1, <1>4, <1>6, RequestKept
<1>8. Types' /\ \A s \in late' : LateOK(s)'
  BY <1>1 DEF Inv, Types, LateOK, Sendable
<1> QED BY <1>4, <1>5, <1>7, <1>8 DEF Inv

----------------------------------------------------------------------------
(* The invariant *)

LEMMA InvInit == Init => Inv
<1> SUFFICES ASSUME Init PROVE Inv
  OBVIOUS
<1>1. Len(log) = 0 /\ log \in Seq(Rows)
  BY DEF Init
<1>2. NoIntent \in Views /\ Unused \in RequestRecord /\ Pictured(NoIntent)
  BY <1>1 DEF NoIntent, Views, Lists, Unused, RequestRecord, Steps, Answers, Pictured, Shown
<1>3. LogOK
  BY <1>1 DEF LogOK, DecidedOnThePrevious
<1>4. Types
  <2>1. changes \in 0 .. MaxChanges
    BY RegistrationAssumption DEF Init
  <2>2. /\ view \in [Devices -> Views]
        /\ awaiting \in [Devices -> Requests \union {NoRequest}]
        /\ request \in [Requests -> RequestRecord]
    BY <1>2 DEF Init
  <2> QED BY <2>1, <2>2 DEF Init, Types
<1>5. \A r \in Requests : RequestOK(r, request[r])
  BY <1>1, <1>2 DEF Init, RequestOK, Unused, NotAuthor, NoIntent
<1> QED BY <1>2, <1>3, <1>4, <1>5 DEF Init, Inv

LEMMA InvNext == Inv /\ [Next]_vars => Inv'
<1> SUFFICES ASSUME Inv, [Next]_vars PROVE Inv'
  OBVIOUS
<1>1. ASSUME NEW d \in Devices, NEW r \in Requests,
             SubmitRevision(d, r) \/ WithdrawIntent(d, r)
      PROVE  Inv'
  BY <1>1, DeviceStep
<1>2. ASSUME NEW d \in Devices, Refresh(d) PROVE Inv'
  BY <1>2, RefreshStep
<1>3. ASSUME NEW r \in Requests, Serve(r) PROVE Inv'
  BY <1>3, LoadContextStep, CheckStep, PersistStep, RereadStep DEF Serve
<1>4. ASSUME NEW r \in Requests,
             ReadFails(r) \/ PersistUnanswered(r) \/ PersistLate(r)
      PROVE  Inv'
  BY <1>4, UnavailableStep, PersistLateStep
<1>5. CASE \/ \E d \in Devices : StopWaiting(d)
           \/ AcademicChange \/ PeriodEnds \/ UNCHANGED vars
  BY <1>5, EnvironmentStep
<1> QED BY <1>1, <1>2, <1>3, <1>4, <1>5 DEF Next

(* The invariant the safety theorems rest on: what devices show, what      *)
(* requests carry and what the RPC answered agrees with the log.           *)
THEOREM Invariance == Spec => []Inv
BY InvInit, InvNext, PTL DEF Spec

(* Type correctness, for every value of the constants.                     *)
THEOREM TypeCorrect == Spec => []TypeOK
<1>1. Inv => TypeOK
  BY DEF Inv, LogOK, Types, RequestOK, TypeOK
<1> QED BY <1>1, Invariance, PTL

(* No blind overwrite: each revision was decided on the one before it.     *)
THEOREM NoBlindOverwrite == Spec => []DecidedOnThePrevious
<1>1. Inv => DecidedOnThePrevious
  BY DEF Inv, LogOK
<1> QED BY <1>1, Invariance, PTL

(* A withdrawal directly follows the submission it withdraws.              *)
THEOREM WithdrawalsAlternate == Spec => []WithdrawalEndsASubmission
<1>1. Inv => WithdrawalEndsASubmission
  <2> SUFFICES ASSUME Inv, NEW i \in 1 .. Len(log), log[i].op = "withdraw"
               PROVE  i > 1 /\ log[i - 1].op = "submit"
    BY DEF WithdrawalEndsASubmission
  <2>1. Shown(i - 1).op = "submit"
    BY DEF Inv, LogOK, DecidedOnThePrevious
  <2>2. i - 1 # 0
    BY <2>1 DEF Shown, NoIntent
  <2> QED BY <2>1, <2>2 DEF Shown, Inv, LogOK
<1> QED BY <1>1, Invariance, PTL

(* A request answered with success is stored at the revision answered.     *)
THEOREM SuccessesAreStored == Spec => []SuccessMeansStored
<1>1. Inv => SuccessMeansStored
  BY DEF Inv, RequestOK, Stored, SuccessMeansStored
<1> QED BY <1>1, Invariance, PTL

(* A request that was refused has stored nothing.                          *)
THEOREM RefusalsStoreNothing == Spec => []RefusalMeansNothingStored
<1>1. Inv => RefusalMeansNothingStored
  BY DEF Inv, RequestOK, NotAuthor, RefusalMeansNothingStored
<1> QED BY <1>1, Invariance, PTL

(* Nothing is recorded for an expired period.                              *)
THEOREM PeriodIsFinal == Spec => NothingAfterThePeriod
<1>1. ASSUME Next, expired PROVE log' = log
  <2>1. ASSUME NEW r \in Requests, Persist(r) PROVE log' = log
    BY <1>1, <2>1 DEF Persist, PersistRpc, PeriodExpired
  <2>2. ASSUME NEW r \in Requests, PersistLate(r) PROVE log' = log
    BY <1>1, <2>2 DEF PersistLate, PersistRpc, PeriodExpired
  <2>3. ASSUME NEW r \in Requests, Serve(r) PROVE log' = log
    BY <2>1, <2>3 DEF Serve, LoadContext, CheckSubmission, CheckWithdrawal,
                      RereadContext, Reread
  <2>4. ASSUME NEW r \in Requests, ReadFails(r) \/ PersistUnanswered(r)
        PROVE  log' = log
    BY <2>4 DEF ReadFails, PersistUnanswered, Unavailable
  <2>5. ASSUME NEW d \in Devices, NEW r \in Requests,
               SubmitRevision(d, r) \/ WithdrawIntent(d, r)
        PROVE  log' = log
    BY <2>5 DEF SubmitRevision, WithdrawIntent, Send
  <2>6. ASSUME NEW d \in Devices, Refresh(d) \/ StopWaiting(d) PROVE log' = log
    BY <2>6 DEF Refresh, StopWaiting
  <2>7. AcademicChange \/ PeriodEnds => log' = log
    BY DEF AcademicChange, PeriodEnds
  <2> QED BY <1>1, <2>2, <2>3, <2>4, <2>5, <2>6, <2>7 DEF Next
<1>2. [Next]_vars => [expired => log' = log]_vars
  BY <1>1
<1> QED BY <1>2, PTL DEF Spec, NothingAfterThePeriod

----------------------------------------------------------------------------
(* The abstract log *)

(* What the refinement needs besides Inv: a request not sent yet carries   *)
(* no command, and a late one has not been executed.                       *)
IntentInv ==
  /\ \A r \in Requests : request[r].step = "unused" => request[r] = Unused
  /\ \A r \in late : NotAuthor(r)

(* Every step but the sending leaves unsent requests as they are.          *)
LEMMA UnsentKept ==
  ASSUME Inv, NEW r \in Requests, NEW q,
         request' = [request EXCEPT ![r] = q], q.step # "unused"
  PROVE  \A s \in Requests : request'[s].step = "unused" => request'[s] = request[s]
BY DEF Inv, Types

LEMMA AdvanceKeepsUnsent ==
  ASSUME Inv, NEW r \in Requests, NEW step, step # "unused", Advance(r, step)
  PROVE  \A s \in Requests : request'[s].step = "unused" => request'[s] = request[s]
<1> DEFINE q == [request[r] EXCEPT !.step = step]
<1>1. request[r] \in RequestRecord /\ request \in [Requests -> RequestRecord]
  BY DEF Inv, Types
<1>2. request' = [request EXCEPT ![r] = q] /\ q.step = step
  BY <1>1 DEF Advance, RequestRecord
<1> HIDE DEF q
<1> QED BY <1>2, UnsentKept

LEMMA AnswerKeepsUnsent ==
  ASSUME Inv, NEW r \in Requests, NEW answer, NEW revision, Answer(r, answer, revision)
  PROVE  \A s \in Requests : request'[s].step = "unused" => request'[s] = request[s]
<1> DEFINE q == [request[r] EXCEPT !.step = "done", !.answer = answer, !.revision = revision]
<1>1. request[r] \in RequestRecord /\ request \in [Requests -> RequestRecord]
  BY DEF Inv, Types
<1>2. request' = [request EXCEPT ![r] = q] /\ q.step = "done"
  BY <1>1 DEF Answer, RequestRecord
<1> HIDE DEF q
<1> QED BY <1>2, UnsentKept

LEMMA UnsentNext ==
  ASSUME Inv, [Next]_vars
  PROVE  \A s \in Requests : request'[s].step = "unused" => request'[s] = request[s]
<1> DEFINE Kept == \A s \in Requests : request'[s].step = "unused" => request'[s] = request[s]
<1>1. ASSUME NEW d \in Devices, NEW r \in Requests,
             SubmitRevision(d, r) \/ WithdrawIntent(d, r)
      PROVE  Kept
  <2>1. PICK op, courses : Send(d, r, op, courses)
    BY <1>1 DEF SubmitRevision, WithdrawIntent
  <2> DEFINE q == [request[r] EXCEPT !.step = "context", !.device = d, !.op = op,
                                     !.courses = courses, !.basis = view[d]]
  <2>2. request' = [request EXCEPT ![r] = q] /\ q.step = "context"
    BY <2>1 DEF Send, Inv, Types, RequestRecord
  <2> HIDE DEF q
  <2> QED BY <2>2, UnsentKept
<1>2. ASSUME NEW r \in Requests, LoadContext(r) PROVE Kept
  <2> DEFINE q == [request[r] EXCEPT !.step = "check", !.context = context]
  <2>1. request' = [request EXCEPT ![r] = q] /\ q.step = "check"
    BY <1>2 DEF LoadContext, Inv, Types, RequestRecord
  <2> HIDE DEF q
  <2> QED BY <2>1, UnsentKept
<1>3. ASSUME NEW r \in Requests,
             CheckSubmission(r) \/ CheckWithdrawal(r) \/ RereadContext(r) \/ Persist(r)
               \/ Reread(r) \/ ReadFails(r) \/ PersistUnanswered(r)
      PROVE  Kept
  <2>1. \/ \E step \in {"fresh", "persist", "reread"} : Advance(r, step)
        \/ \E answer, revision : Answer(r, answer, revision)
    BY <1>3 DEF CheckSubmission, CheckWithdrawal, RereadContext, Persist, Reread,
                ReadFails, PersistUnanswered, Unavailable
  <2> QED BY <2>1, AdvanceKeepsUnsent, AnswerKeepsUnsent
<1>4. CASE UNCHANGED request
  BY <1>4
<1>5. ASSUME NEW d \in Devices, Refresh(d) \/ StopWaiting(d) PROVE UNCHANGED request
  BY <1>5 DEF Refresh, StopWaiting
<1>6. ASSUME NEW r \in Requests, PersistLate(r) PROVE UNCHANGED request
  BY <1>6 DEF PersistLate
<1>7. AcademicChange \/ PeriodEnds \/ UNCHANGED vars => UNCHANGED request
  BY DEF AcademicChange, PeriodEnds, vars
<1> QED BY <1>1, <1>2, <1>3, <1>4, <1>5, <1>6, <1>7 DEF Next, Serve

(* Only the RPC changes the log, and late requests are its only debtors.   *)
LEMMA LogMoves ==
  ASSUME [Next]_vars
  PROVE  \/ log' = log
         \/ \E r \in Requests : /\ Persist(r) \/ PersistLate(r)
                                /\ log' = Append(log, NewRow(r))
<1>1. ASSUME NEW r \in Requests, Persist(r) \/ PersistLate(r)
      PROVE  log' = log \/ log' = Append(log, NewRow(r))
  BY <1>1 DEF Persist, PersistLate, PersistRpc
<1>2. ASSUME NEW r \in Requests,
             \/ LoadContext(r) \/ CheckSubmission(r) \/ CheckWithdrawal(r)
             \/ RereadContext(r) \/ Reread(r) \/ ReadFails(r) \/ PersistUnanswered(r)
      PROVE  log' = log
  BY <1>2 DEF LoadContext, CheckSubmission, CheckWithdrawal, RereadContext, Reread,
              ReadFails, PersistUnanswered, Unavailable
<1>3. ASSUME NEW d \in Devices, NEW r \in Requests,
             SubmitRevision(d, r) \/ WithdrawIntent(d, r)
      PROVE  log' = log
  BY <1>3 DEF SubmitRevision, WithdrawIntent, Send
<1>4. ASSUME NEW d \in Devices, Refresh(d) \/ StopWaiting(d) PROVE log' = log
  BY <1>4 DEF Refresh, StopWaiting
<1>5. AcademicChange \/ PeriodEnds \/ UNCHANGED vars => log' = log
  BY DEF AcademicChange, PeriodEnds, vars
<1> QED BY <1>1, <1>2, <1>3, <1>4, <1>5 DEF Next, Serve

LEMMA LateMoves ==
  ASSUME [Next]_vars
  PROVE  \A s \in late' : s \in late \/ (s \in Requests /\ PersistUnanswered(s))
<1>1. ASSUME NEW r \in Requests,
             Serve(r) \/ ReadFails(r) \/ PersistUnanswered(r) \/ PersistLate(r)
      PROVE  \A s \in late' : s \in late \/ (s \in Requests /\ PersistUnanswered(s))
  BY <1>1 DEF Serve, LoadContext, CheckSubmission, CheckWithdrawal, RereadContext, Persist,
              Reread, ReadFails, PersistUnanswered, PersistLate
<1>2. ASSUME NEW d \in Devices, NEW r \in Requests,
             SubmitRevision(d, r) \/ WithdrawIntent(d, r)
      PROVE  late' = late
  BY <1>2 DEF SubmitRevision, WithdrawIntent, Send
<1>3. ASSUME NEW d \in Devices, Refresh(d) \/ StopWaiting(d) PROVE late' = late
  BY <1>3 DEF Refresh, StopWaiting
<1>4. AcademicChange \/ PeriodEnds \/ UNCHANGED vars => late' = late
  BY DEF AcademicChange, PeriodEnds, vars
<1> QED BY <1>1, <1>2, <1>3, <1>4 DEF Next

LEMMA LateNext ==
  ASSUME Inv, IntentInv, [Next]_vars
  PROVE  \A s \in late' : NotAuthor(s)'
<1> SUFFICES ASSUME NEW s \in late' PROVE NotAuthor(s)'
  OBVIOUS
<1>1. s \in late \/ (s \in Requests /\ PersistUnanswered(s))
  BY LateMoves
<1>2. NotAuthor(s)
  <2>1. CASE s \in late
    BY <2>1 DEF IntentInv
  <2>2. CASE s \in Requests /\ PersistUnanswered(s)
    BY <2>2 DEF PersistUnanswered, Inv, RequestOK, Steps
  <2> QED BY <1>1, <2>1, <2>2
<1>3. CASE log' = log
  BY <1>2, <1>3 DEF NotAuthor
<1>4. ASSUME NEW r \in Requests, Persist(r) \/ PersistLate(r), log' = Append(log, NewRow(r))
      PROVE  NotAuthor(s)'
  <2>1. r # s
    <3>1. CASE Persist(r)
      <4>1. late' = late /\ request[r].step = "persist"
        BY <3>1 DEF Persist
      <4>2. request[s].step = "done"
        BY <4>1 DEF Inv, Types, LateOK, RequestOK
      <4> QED BY <4>1, <4>2
    <3>2. CASE PersistLate(r)
      BY <3>2 DEF PersistLate
    <3> QED BY <1>4, <3>1, <3>2
  <2>2. NewRow(r).author = r /\ log \in Seq(Rows)
    BY DEF NewRow, Inv, LogOK
  <2>3. \A i \in 1 .. Len(log') : log'[i] = NewRow(r) \/ (i \in 1 .. Len(log) /\ log'[i] = log[i])
    <3> DEFINE row == NewRow(r)
    <3> HIDE DEF row
    <3>1. log' = Append(log, row)
      BY <1>4 DEF row
    <3>2. \A i \in 1 .. Len(log') : log'[i] = row \/ (i \in 1 .. Len(log) /\ log'[i] = log[i])
      BY <2>2, <3>1
    <3> QED BY <3>2 DEF row
  <2> QED BY <1>2, <2>1, <2>2, <2>3 DEF NotAuthor
<1> QED BY <1>3, <1>4, LogMoves

LEMMA IntentInvNext ==
  ASSUME Inv, IntentInv, [Next]_vars
  PROVE  IntentInv'
<1>1. \A s \in Requests : request'[s].step = "unused" => request'[s] = Unused
  BY UnsentNext DEF IntentInv
<1> QED BY <1>1, LateNext DEF IntentInv

----------------------------------------------------------------------------
(* The refinement *)

(* What the abstract log does not see.                                     *)
LEMMA Unseen ==
  ASSUME UNCHANGED <<log, expired>>,
         \A s \in Requests : CommandOf(request'[s]) = CommandOf(request[s])
  PROVE  UNCHANGED Intent!vars
<1>1. [s \in Requests |-> CommandOf(request[s])]' = [s \in Requests |-> CommandOf(request[s])]
  BY Zenon
<1> QED BY <1>1 DEF Intent!vars

LEMMA AdvanceUnseen ==
  ASSUME Inv, NEW r \in Requests, NEW step, Advance(r, step)
  PROVE  \A s \in Requests : CommandOf(request'[s]) = CommandOf(request[s])
<1>1. request \in [Requests -> RequestRecord]
      /\ request' = [request EXCEPT ![r] = [request[r] EXCEPT !.step = step]]
  BY DEF Inv, Types, Advance
<1>2. \A s \in Requests \ {r} : request'[s] = request[s]
  BY <1>1
<1>3. /\ request'[r].op = request[r].op /\ request'[r].courses = request[r].courses
      /\ request'[r].basis = request[r].basis /\ request'[r].answer = request[r].answer
  BY <1>1 DEF RequestRecord
<1> QED BY <1>2, <1>3 DEF CommandOf

(* An answer is a reply.                                                   *)
LEMMA AnswerReplies ==
  ASSUME Inv, UNCHANGED <<log, expired>>, NEW r \in Requests,
         request[r].step \notin {"unused", "done"},
         NEW answer \in Answers \ {"none"}, NEW revision, Answer(r, answer, revision)
  PROVE  Intent!Reply(r, ReplyOf(answer))
<1> DEFINE C == [s \in Requests |-> CommandOf(request[s])]
           c == [CommandOf(request[r]) EXCEPT !.reply = ReplyOf(answer)]
<1>1. request \in [Requests -> RequestRecord] /\ request[r].op \in Operations
      /\ request[r].answer = "none"
      /\ request' = [request EXCEPT ![r] = [request[r] EXCEPT !.step = "done",
                       !.answer = answer, !.revision = revision]]
  BY InProgress DEF Inv, Types, Answer
<1>2. \A s \in Requests \ {r} : request'[s] = request[s]
  BY <1>1
<1>3. /\ request'[r].op = request[r].op /\ request'[r].courses = request[r].courses
      /\ request'[r].basis = request[r].basis /\ request'[r].answer = answer
  BY <1>1 DEF RequestRecord
<1>4. CommandOf(request'[r]) = c
  BY <1>3 DEF CommandOf
<1>5. C' = [C EXCEPT ![r] = c]
  <2>1. \A s \in Requests : CommandOf(request'[s]) = IF s = r THEN c ELSE CommandOf(request[s])
    BY <1>2, <1>4
  <2>2. C' = [s \in Requests |-> IF s = r THEN c ELSE CommandOf(request[s])]
    BY <2>1, Zenon
  <2> HIDE DEF c
  <2>3. C = [s \in Requests |-> CommandOf(request[s])]
    OBVIOUS
  <2> QED BY <2>2, <2>3
<1>6. C[r].op # "none" /\ C[r].reply = "none"
  BY <1>1 DEF CommandOf, ReplyOf, Operations
<1>7. C' = [C EXCEPT ![r].reply = ReplyOf(answer)]
  BY <1>5
<1> QED BY <1>6, <1>7 DEF Intent!Reply

(* The rows the abstract log sees.                                         *)
LEMMA RevisionsSeen ==
  ASSUME NEW l, l \in Seq(Rows)
  PROVE  LET R == [i \in 1 .. Len(l) |-> Effect(l[i])] IN
         /\ R \in Seq({Effect(row) : row \in Rows})
         /\ Len(R) = Len(l)
         /\ \A i \in 1 .. Len(l) : R[i] = Effect(l[i])
<1> DEFINE R == [i \in 1 .. Len(l) |-> Effect(l[i])]
           Effects == {Effect(row) : row \in Rows}
<1>1. Len(l) \in Nat /\ \A i \in 1 .. Len(l) : l[i] \in Rows
  OBVIOUS
<1>2. \A i \in 1 .. Len(l) : Effect(l[i]) \in Effects
  BY <1>1
<1>3. R \in [1 .. Len(l) -> Effects]
  BY <1>2
<1>4. \A i \in 1 .. Len(l) : R[i] = Effect(l[i])
  OBVIOUS
<1> HIDE DEF R, Effects
<1>5. R \in Seq(Effects) /\ Len(R) = Len(l)
  BY <1>1, <1>3
<1> QED BY <1>4, <1>5 DEF R, Effects

LEMMA AppendSeen ==
  ASSUME NEW l, l \in Seq(Rows), NEW row, row \in Rows
  PROVE  [i \in 1 .. Len(Append(l, row)) |-> Effect(Append(l, row)[i])]
           = Append([i \in 1 .. Len(l) |-> Effect(l[i])], Effect(row))
<1> DEFINE R == [i \in 1 .. Len(l) |-> Effect(l[i])]
           m == Append(l, row)
           S == [i \in 1 .. Len(m) |-> Effect(m[i])]
           Effects == {Effect(e) : e \in Rows}
<1>1. m \in Seq(Rows) /\ Len(m) = Len(l) + 1 /\ m[Len(l) + 1] = row
      /\ \A i \in 1 .. Len(l) : m[i] = l[i]
  OBVIOUS
<1>2. R \in Seq(Effects) /\ Len(R) = Len(l) /\ \A i \in 1 .. Len(l) : R[i] = Effect(l[i])
  BY RevisionsSeen
<1> HIDE DEF m
<1>3. S \in Seq(Effects) /\ Len(S) = Len(m) /\ \A i \in 1 .. Len(m) : S[i] = Effect(m[i])
  BY <1>1, RevisionsSeen
<1>4. Effect(row) \in Effects /\ Len(l) \in Nat
  OBVIOUS
<1>5. \A i \in 1 .. Len(l) + 1 : S[i] = IF i = Len(l) + 1 THEN Effect(row) ELSE R[i]
  BY <1>1, <1>2, <1>3
<1> DEFINE e == Effect(row)
<1> HIDE DEF R, S, Effects, e
<1>6. S \in Seq(Effects) /\ R \in Seq(Effects) /\ e \in Effects /\ Len(S) = Len(R) + 1
      /\ \A i \in 1 .. Len(S) : S[i] = IF i = Len(R) + 1 THEN e ELSE R[i]
  BY <1>1, <1>2, <1>3, <1>4, <1>5 DEF e
<1>7. S = Append(R, e)
  <2> DEFINE A == Append(R, e)
  <2>1. A \in Seq(Effects) /\ Len(A) = Len(R) + 1
        /\ \A i \in 1 .. Len(A) : A[i] = IF i = Len(R) + 1 THEN e ELSE R[i]
    BY <1>6
  <2> HIDE DEF A
  <2>2. Len(S) = Len(A) /\ \A i \in 1 .. Len(S) : S[i] = A[i]
    BY <1>6, <2>1
  <2>3. S = A
    BY <1>6, <2>1, <2>2
  <2> QED BY <2>3 DEF A
<1> QED BY <1>7 DEF R, S, m, e

(* A row inserted by the RPC is the command taking effect.                 *)
LEMMA InsertTakesEffect ==
  ASSUME Inv, NEW r \in Requests, NotAuthor(r), Sendable(request[r]),
         request[r].answer \in {"none", "UNAVAILABLE"},
         Insertable(r), ~PeriodExpired, log' = Append(log, NewRow(r)), expired' = expired,
         \A s \in Requests : CommandOf(request'[s]) = CommandOf(request[s])
  PROVE  Intent!TakeEffect(r)
<1> DEFINE C == [s \in Requests |-> CommandOf(request[s])]
           R == [i \in 1 .. Len(log) |-> Effect(log[i])]
<1>1. log \in Seq(Rows) /\ request[r] \in RequestRecord
  BY DEF Inv, LogOK, Types
<1>2. NewRow(r) \in Rows
  BY <1>1 DEF NewRow, Rows, Sendable, RequestRecord
<1>3. Len(R) = Len(log) /\ \A i \in 1 .. Len(log) : R[i] = Effect(log[i])
  BY <1>1, RevisionsSeen
<1>4. R' = Append(R, Effect(NewRow(r)))
  <2> DEFINE row == NewRow(r)
  <2>1. row \in Rows /\ log' = Append(log, row)
    BY <1>2
  <2> HIDE DEF row
  <2>2. R' = [i \in 1 .. Len(Append(log, row)) |-> Effect(Append(log, row)[i])]
    BY <2>1, Zenon
  <2>3. R' = Append(R, Effect(row))
    BY <1>1, <2>1, <2>2, AppendSeen
  <2> QED BY <2>3 DEF row
<1>5. /\ C[r].op = request[r].op /\ C[r].courses = request[r].courses
      /\ C[r].on = request[r].basis.revision /\ C[r].reply \in {"none", "unknown"}
  BY DEF CommandOf, ReplyOf
<1>6. Effect(NewRow(r)) = [by |-> r, op |-> C[r].op, courses |-> C[r].courses]
  BY <1>5 DEF Effect, NewRow
<1>7. C[r].op # "none"
  BY <1>5 DEF Sendable, Operations
<1>8. C[r].on = Len(R)
  BY <1>1, <1>3, <1>5 DEF Insertable, NextRevision, RequestRecord, Views
<1>9. ~Intent!InEffect(r)
  <2>1. \A i \in 1 .. Len(R) : R[i].by # r
    BY <1>3 DEF NotAuthor, Effect
  <2> QED BY <2>1 DEF Intent!InEffect
<1>10. C' = C
  BY Zenon
<1> HIDE DEF C, R
<1>11. /\ C[r].op # "none" /\ C[r].reply \in {"none", "unknown"}
       /\ ~expired /\ C[r].on = Len(R)
       /\ R' = Append(R, [by |-> r, op |-> C[r].op, courses |-> C[r].courses])
       /\ C' = C /\ (~expired)' = ~expired
  BY <1>4, <1>5, <1>6, <1>7, <1>8, <1>10 DEF PeriodExpired
<1> QED BY <1>9, <1>11 DEF Intent!TakeEffect, C, R

(* Sending a request is giving a command on the revision shown.            *)
LEMMA SendIssues ==
  ASSUME Inv, IntentInv, NEW d \in Devices, NEW r \in Requests,
         SubmitRevision(d, r) \/ WithdrawIntent(d, r)
  PROVE  Intent!Issue(r)
<1> DEFINE C == [s \in Requests |-> CommandOf(request[s])]
           R == [i \in 1 .. Len(log) |-> Effect(log[i])]
           n == view[d].revision
<1>1. PICK op \in Operations, courses \in Lists :
        /\ Send(d, r, op, courses)
        /\ \/ op = "submit" /\ courses \in Courses
           \/ op = "withdraw" /\ courses = NoCourses /\ view[d].op = "submit"
  BY DEF SubmitRevision, WithdrawIntent, Operations, Lists
<1> DEFINE c == [op |-> op, courses |-> courses, on |-> n, reply |-> "none"]
<1>2. request \in [Requests -> RequestRecord] /\ view[d] \in Views /\ Pictured(view[d])
  BY DEF Inv, Types
<1>3. log' = log /\ expired' = expired
  BY <1>1 DEF Send
<1>4. request[r] = Unused
  BY <1>1 DEF Send, IntentInv
<1>5. C[r] = Intent!NoCommand
  BY <1>4 DEF CommandOf, ReplyOf, Unused, NoIntent, Intent!NoCommand
<1>6. C' = [C EXCEPT ![r] = c]
  <2>1. request' = [request EXCEPT ![r] = [request[r] EXCEPT !.step = "context",
                      !.device = d, !.op = op, !.courses = courses, !.basis = view[d]]]
    BY <1>1 DEF Send
  <2>2. \A s \in Requests \ {r} : request'[s] = request[s]
    BY <1>2, <2>1
  <2>3. /\ request'[r].op = op /\ request'[r].courses = courses
        /\ request'[r].basis = view[d] /\ request'[r].answer = request[r].answer
    BY <1>2, <2>1 DEF RequestRecord
  <2>4. CommandOf(request'[r]) = c
    BY <1>4, <2>3 DEF CommandOf, ReplyOf, Unused
  <2>5. C' = [s \in Requests |-> CommandOf(request'[s])]
    BY Zenon
  <2>6. \A s \in Requests : CommandOf(request'[s]) = IF s = r THEN c ELSE C[s]
    BY <2>2, <2>4
  <2> HIDE DEF c
  <2> QED BY <2>5, <2>6
<1>7. Len(R) = Len(log) /\ \A i \in 1 .. Len(log) : R[i] = Effect(log[i])
  BY RevisionsSeen DEF Inv, LogOK
<1>8. n \in 0 .. Len(R)
  BY <1>2, <1>7 DEF Pictured
<1>9. c.op = "submit" \/ (c.op = "withdraw" /\ n > 0 /\ R[n].op = "submit")
  <2>1. view[d].op = "submit" => n # 0 /\ log[n].op = "submit"
    BY <1>2 DEF Pictured, Shown, NoIntent
  <2>2. view[d].op = "submit" => n > 0 /\ R[n].op = "submit"
    BY <2>1, <1>7, <1>8 DEF Effect
  <2> QED BY <1>1, <2>2
<1>10. c \in Intent!CommandsOn(n)
  <2>1. CASE c.op = "submit"
    <3>1. op = "submit" /\ courses \in Courses
      BY <1>1, <2>1
    <3> QED BY <3>1 DEF Intent!CommandsOn
  <2>2. CASE c.op = "withdraw"
    <3>1. op = "withdraw" /\ courses = NoCourses
      BY <1>1, <2>2
    <3> QED BY <1>9, <3>1 DEF Intent!CommandsOn
  <2> QED BY <1>9, <2>1, <2>2
<1>11. R' = R /\ (~expired)' = ~expired
  BY <1>3, Zenon
<1> QED BY <1>5, <1>6, <1>8, <1>10, <1>11 DEF Intent!Issue

(* A refusal is one to the abstract log: nothing was stored.               *)
LEMMA RefusalSeen ==
  ASSUME Inv, UNCHANGED <<log, expired>>, NEW r \in Requests,
         request[r].step \notin {"unused", "done", "reread"},
         NEW answer \in Answers \ {"none", "SUCCESS", "UNAVAILABLE"}, Answer(r, answer, 0)
  PROVE  Intent!Refuse(r)
<1>1. Intent!Reply(r, ReplyOf(answer)) /\ ReplyOf(answer) = "refused"
  BY AnswerReplies DEF ReplyOf
<1>2. NotAuthor(r)
  BY DEF Inv, Types, RequestOK, RequestRecord
<1> DEFINE R == [i \in 1 .. Len(log) |-> Effect(log[i])]
<1>3. Len(R) = Len(log) /\ \A i \in 1 .. Len(log) : R[i] = Effect(log[i])
  BY RevisionsSeen DEF Inv, LogOK
<1>4. \A i \in 1 .. Len(R) : R[i].by # r
  BY <1>2, <1>3 DEF NotAuthor, Effect
<1>5. ~Intent!InEffect(r)
  BY <1>4 DEF Intent!InEffect
<1> QED BY <1>1, <1>5 DEF Intent!Refuse

(* A success is told only of what is in effect.                            *)
LEMMA RereadAccepts ==
  ASSUME Inv, NEW r \in Requests, Reread(r)
  PROVE  Intent!Accept(r)
<1> DEFINE C == [s \in Requests |-> CommandOf(request[s])]
           R == [i \in 1 .. Len(log) |-> Effect(log[i])]
           n == request[r].basis.revision
<1>1. Intent!Reply(r, "accepted")
  BY AnswerReplies DEF Reread, ReplyOf, Answers
<1>2. Stored(request[r], n + 1) /\ n \in Nat /\ log \in Seq(Rows)
  BY DEF Reread, Inv, RequestOK, Types, RequestRecord, Views, LogOK
<1>3. Len(R) = Len(log) /\ \A i \in 1 .. Len(log) : R[i] = Effect(log[i])
  BY <1>2, RevisionsSeen
<1>4. C[r].on = n /\ C[r].op = request[r].op /\ C[r].courses = request[r].courses
  BY DEF CommandOf
<1>5. /\ C[r].on < Len(R)
      /\ R[C[r].on + 1].op = C[r].op /\ R[C[r].on + 1].courses = C[r].courses
  BY <1>2, <1>3, <1>4 DEF Stored, Effect
<1> QED BY <1>1, <1>5 DEF Intent!Accept

LEMMA PersistSeen ==
  ASSUME Inv, NEW r \in Requests, Persist(r)
  PROVE  UNCHANGED Intent!vars \/ Intent!TakeEffect(r) \/ Intent!Refuse(r)
<1>1. PICK answer \in Answers :
        /\ PersistRpc(r, answer)
        /\ \/ answer = "SUCCESS" /\ Advance(r, "reread")
           \/ answer # "SUCCESS" /\ Answer(r, answer, 0)
  BY DEF Persist
<1>2. expired' = expired /\ request[r].step = "persist"
  BY DEF Persist
<1>3. NotAuthor(r) /\ Sendable(request[r]) /\ request[r].answer = "none"
  BY <1>2 DEF Inv, RequestOK, Sendable, Steps
<1>4. CASE answer # "SUCCESS"
  <2>1. log' = log /\ answer \in {"REVISION_CONFLICT", "PERSISTENCE_CONFLICT"}
    BY <1>1, <1>4 DEF PersistRpc
  <2> QED BY <1>1, <1>2, <1>4, <2>1, RefusalSeen
<1>5. CASE answer = "SUCCESS"
  <2>1. \A s \in Requests : CommandOf(request'[s]) = CommandOf(request[s])
    BY <1>1, <1>5, AdvanceUnseen
  <2>2. CASE log' = log
    BY <1>2, <2>1, <2>2, Unseen
  <2>3. CASE Insertable(r) /\ ~PeriodExpired /\ log' = Append(log, NewRow(r))
    BY <1>2, <1>3, <2>1, <2>3, InsertTakesEffect
  <2> QED BY <1>1, <1>5, <2>2, <2>3 DEF PersistRpc
<1> QED BY <1>4, <1>5

LEMMA PersistLateSeen ==
  ASSUME Inv, IntentInv, NEW r \in Requests, PersistLate(r)
  PROVE  UNCHANGED Intent!vars \/ Intent!TakeEffect(r)
<1>1. PICK answer \in Answers : PersistRpc(r, answer)
  BY DEF PersistLate
<1>2. expired' = expired /\ request' = request /\ r \in late
  BY DEF PersistLate
<1>3. NotAuthor(r) /\ Sendable(request[r]) /\ request[r].answer = "UNAVAILABLE"
  BY <1>2 DEF Inv, LateOK, IntentInv
<1>4. \A s \in Requests : CommandOf(request'[s]) = CommandOf(request[s])
  BY <1>2
<1>5. CASE log' = log
  BY <1>2, <1>4, <1>5, Unseen
<1>6. CASE Insertable(r) /\ ~PeriodExpired /\ log' = Append(log, NewRow(r))
  BY <1>2, <1>3, <1>4, <1>6, InsertTakesEffect
<1> QED BY <1>1, <1>5, <1>6 DEF PersistRpc

(* Each check lets the request pass, or refuses it.                        *)
LEMMA CheckSeen ==
  ASSUME Inv, NEW r \in Requests, CheckSubmission(r) \/ CheckWithdrawal(r) \/ RereadContext(r)
  PROVE  UNCHANGED Intent!vars \/ Intent!Refuse(r)
<1>1. UNCHANGED <<log, expired>> /\ request[r].step \in {"check", "fresh"}
  BY DEF CheckSubmission, CheckWithdrawal, RereadContext
<1>2. \/ \E step \in Steps : Advance(r, step)
      \/ \E answer \in {"PERIOD_INVALID", "INVALID_INTENT", "RESOURCE_NOT_FOUND",
                        "ACADEMIC_STATE_CHANGED"} : Answer(r, answer, 0)
  BY DEF CheckSubmission, CheckWithdrawal, RereadContext, Steps
<1>3. ASSUME NEW step \in Steps, Advance(r, step) PROVE UNCHANGED Intent!vars
  BY <1>1, <1>3, AdvanceUnseen, Unseen
<1>4. ASSUME NEW answer \in {"PERIOD_INVALID", "INVALID_INTENT", "RESOURCE_NOT_FOUND",
                             "ACADEMIC_STATE_CHANGED"}, Answer(r, answer, 0)
      PROVE  Intent!Refuse(r)
  <2>1. answer \in Answers \ {"none", "SUCCESS", "UNAVAILABLE"}
    BY DEF Answers
  <2> QED BY <1>1, <1>4, <2>1, RefusalSeen
<1> QED BY <1>2, <1>3, <1>4

LEMMA LoadContextUnseen ==
  ASSUME Inv, NEW r \in Requests, LoadContext(r)
  PROVE  UNCHANGED Intent!vars
<1>1. request \in [Requests -> RequestRecord] /\ UNCHANGED <<log, expired>>
      /\ request' = [request EXCEPT ![r] = [request[r] EXCEPT !.step = "check",
                                                              !.context = context]]
  BY DEF LoadContext, Inv, Types
<1>2. \A s \in Requests \ {r} : request'[s] = request[s]
  BY <1>1
<1>3. /\ request'[r].op = request[r].op /\ request'[r].courses = request[r].courses
      /\ request'[r].basis = request[r].basis /\ request'[r].answer = request[r].answer
  BY <1>1 DEF RequestRecord
<1>4. \A s \in Requests : CommandOf(request'[s]) = CommandOf(request[s])
  BY <1>2, <1>3 DEF CommandOf
<1> QED BY <1>1, <1>4, Unseen

(* A 503 leaves the student's command open.                                *)
LEMMA UnavailableSeen ==
  ASSUME Inv, NEW r \in Requests, ReadFails(r) \/ PersistUnanswered(r)
  PROVE  Intent!LeaveOpen(r)
<1>1. /\ UNCHANGED <<log, expired>> /\ Answer(r, "UNAVAILABLE", 0)
      /\ request[r].step \notin {"unused", "done"}
  BY DEF ReadFails, PersistUnanswered, Unavailable
<1>2. Intent!Reply(r, ReplyOf("UNAVAILABLE")) /\ ReplyOf("UNAVAILABLE") = "unknown"
  BY <1>1, AnswerReplies DEF Answers, ReplyOf
<1> QED BY <1>2 DEF Intent!LeaveOpen

LEMMA PeriodEndCloses == PeriodEnds => Intent!Close
<1> SUFFICES ASSUME PeriodEnds PROVE Intent!Close
  OBVIOUS
<1>1. ~expired /\ expired' = TRUE /\ log' = log /\ request' = request
  BY DEF PeriodEnds
<1>2. [s \in Requests |-> CommandOf(request[s])]' = [s \in Requests |-> CommandOf(request[s])]
  BY <1>1, Zenon
<1>3. [i \in 1 .. Len(log) |-> Effect(log[i])]' = [i \in 1 .. Len(log) |-> Effect(log[i])]
  BY <1>1, Zenon
<1> QED BY <1>1, <1>2, <1>3 DEF Intent!Close

LEMMA IntentInit == Init => Intent!Init /\ IntentInv
<1> SUFFICES ASSUME Init PROVE Intent!Init /\ IntentInv
  OBVIOUS
<1>1. IntentInv
  BY DEF Init, IntentInv
<1>2. [i \in 1 .. Len(log) |-> Effect(log[i])] = <<>>
  BY DEF Init
<1>3. \A r \in Requests : CommandOf(request[r]) = Intent!NoCommand
  BY DEF Init, Unused, NoIntent, CommandOf, ReplyOf, Intent!NoCommand
<1>4. [r \in Requests |-> CommandOf(request[r])] = [r \in Requests |-> Intent!NoCommand]
  BY <1>3
<1> QED BY <1>1, <1>2, <1>4 DEF Intent!Init, Init

LEMMA IntentNext ==
  ASSUME Inv, IntentInv, [Next]_vars
  PROVE  UNCHANGED Intent!vars \/ Intent!Next
<1>1. ASSUME NEW d \in Devices, NEW r \in Requests,
             SubmitRevision(d, r) \/ WithdrawIntent(d, r)
      PROVE  Intent!Next
  BY <1>1, SendIssues DEF Intent!Next
<1>2. ASSUME NEW r \in Requests, Serve(r)
      PROVE  UNCHANGED Intent!vars \/ Intent!Next
  BY <1>2, LoadContextUnseen, CheckSeen, PersistSeen, RereadAccepts DEF Serve, Intent!Next
<1>3. ASSUME NEW r \in Requests, ReadFails(r) \/ PersistUnanswered(r)
      PROVE  Intent!Next
  BY <1>3, UnavailableSeen DEF Intent!Next
<1>4. ASSUME NEW r \in Requests, PersistLate(r)
      PROVE  UNCHANGED Intent!vars \/ Intent!Next
  BY <1>4, PersistLateSeen DEF Intent!Next
<1>5. CASE (\E d \in Devices : Refresh(d) \/ StopWaiting(d)) \/ AcademicChange \/ UNCHANGED vars
  <2>1. UNCHANGED <<log, expired, request>>
    BY <1>5 DEF Refresh, StopWaiting, AcademicChange, vars
  <2> QED BY <2>1, Unseen
<1>6. CASE PeriodEnds
  BY <1>6, PeriodEndCloses DEF Intent!Next
<1> QED BY <1>1, <1>2, <1>3, <1>4, <1>5, <1>6 DEF Next

(* The promise to the student: everything together is one log, in which a  *)
(* command takes effect at most once, on the revision it was decided on    *)
(* and within the period, and whose answers tell the truth.                *)
THEOREM Refinement == Spec => ImplementsIntentLog
<1>1. Spec => []IntentInv
  BY IntentInit, IntentInvNext, Invariance, PTL DEF Spec
<1> QED BY <1>1, IntentInit, IntentNext, Invariance, PTL DEF Spec, ImplementsIntentLog
=====
