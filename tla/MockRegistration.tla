-------------------------- MODULE MockRegistration --------------------------
(***************************************************************************)
(* The mock-registration intent of one student for one plan and period:    *)
(* the revision log behind persist_mock_registration_revision, and the     *)
(* requests of MockRegistrationStudentService that submit and withdraw.    *)
(*                                                                         *)
(* A device shows the revision it last read and sends it as the expected   *)
(* current revision (mock-registration/page.tsx).  A request reads the     *)
(* academic context, the period or the history, the context once more, and *)
(* calls the RPC: each read is a step, and other requests, a change of the *)
(* student's records or the end of the period may come between any two.    *)
(* The RPC runs under an advisory lock of the key and is one step.         *)
(*                                                                         *)
(* The academic context is abstracted to its snapshot token, the course    *)
(* list to a model value and validation to the pairs it rejects.           *)
(***************************************************************************)
EXTENDS Naturals, Sequences, FiniteSets

CONSTANTS
  Devices,     \* the browsers of one student
  Requests,    \* HTTP requests; each is used once
  Courses,     \* non-empty course lists
  NoCourses,   \* the course list of a withdrawal
  Contexts,    \* snapshot tokens of the student's academic context
  Rejected,    \* <<courses, context>> whose validation status is INVALID
  NoContext,   \* the request has not read the context
  NoDevice,    \* the request has not been sent
  NoRequest,   \* the device waits for no answer
  MaxChanges,  \* bound of the model: changes of the academic context
  MaxLost      \* bound of the model: requests that meet a transport error

ASSUME RegistrationAssumption ==
  /\ NoCourses \notin Courses
  /\ NoContext \notin Contexts
  /\ NoDevice \notin Devices
  /\ NoRequest \notin Requests
  /\ Rejected \subseteq Courses \X Contexts
  /\ MaxChanges \in Nat
  /\ MaxLost \in Nat

VARIABLES
  log,       \* the revisions, in order: immutable rows
  context,   \* the academic context now
  changes,   \* how often it changed
  expired,   \* the target period is expired
  view,      \* what each device shows
  awaiting,  \* the request each device waits for
  request,   \* the requests
  late       \* timed-out requests whose RPC may still be executed

vars == <<log, context, changes, expired, view, awaiting, request, late>>

----------------------------------------------------------------------------
(* Data *)

Operations == {"submit", "withdraw"}

Lists == Courses \union {NoCourses}

(* What a revision looks like to the student.                              *)
Views == [revision : Nat, op : Operations \union {"none"}, courses : Lists]

NoIntent == [revision |-> 0, op |-> "none", courses |-> NoCourses]

Rows == [op : Operations, courses : Lists, context : Contexts,
         author : Requests, basis : Views]

Shown(i) ==
  IF i = 0 THEN NoIntent
  ELSE [revision |-> i, op |-> log[i].op, courses |-> log[i].courses]

Steps == {"unused", "context", "check", "fresh", "persist", "reread", "done"}

Answers == {"none", "SUCCESS", "PERIOD_INVALID", "INVALID_INTENT",
            "RESOURCE_NOT_FOUND", "ACADEMIC_STATE_CHANGED",
            "REVISION_CONFLICT", "PERSISTENCE_CONFLICT",
            "UNAVAILABLE"}

RequestRecord ==
  [step : Steps, device : Devices \union {NoDevice},
   op : Operations \union {"none"}, courses : Lists, basis : Views,
   context : Contexts \union {NoContext}, answer : Answers, revision : Nat]

Unused == [step |-> "unused", device |-> NoDevice, op |-> "none",
           courses |-> NoCourses, basis |-> NoIntent, context |-> NoContext,
           answer |-> "none", revision |-> 0]

TypeOK ==
  /\ log \in Seq(Rows)
  /\ context \in Contexts
  /\ changes \in 0 .. MaxChanges
  /\ expired \in BOOLEAN
  /\ view \in [Devices -> Views]
  /\ awaiting \in [Devices -> Requests \union {NoRequest}]
  /\ request \in [Requests -> RequestRecord]
  /\ late \subseteq Requests
  /\ \A r \in Requests : request[r].step = "done" <=> request[r].answer # "none"

Init ==
  /\ log = <<>>
  /\ context \in Contexts
  /\ changes = 0
  /\ expired = FALSE
  /\ view = [d \in Devices |-> NoIntent]
  /\ awaiting = [d \in Devices |-> NoRequest]
  /\ request = [r \in Requests |-> Unused]
  /\ late = {}

----------------------------------------------------------------------------
(* The devices *)

(* The answer of a GET current arrives: the greatest revision, or not      *)
(* found, at the time it was read - since when others may have followed.   *)
(* One that arrives while a request is awaited may as well arrive later:   *)
(* what is shown matters only when the next command is sent.               *)
Refresh(d) ==
  /\ awaiting[d] = NoRequest
  /\ \E i \in 0 .. Len(log) : view' = [view EXCEPT ![d] = Shown(i)]
  /\ UNCHANGED <<log, context, changes, expired, awaiting, request, late>>

Send(d, r, op, courses) ==
  /\ awaiting[d] = NoRequest
  /\ request[r].step = "unused"
  /\ request' = [request EXCEPT ![r].step = "context", ![r].device = d,
                                ![r].op = op, ![r].courses = courses,
                                ![r].basis = view[d]]
  /\ awaiting' = [awaiting EXCEPT ![d] = r]
  /\ UNCHANGED <<log, context, changes, expired, view, late>>

SubmitRevision(d, r) == \E courses \in Courses : Send(d, r, "submit", courses)

(* The button is there while the intent shown is a submitted one.          *)
WithdrawIntent(d, r) ==
  /\ view[d].op = "submit"
  /\ Send(d, r, "withdraw", NoCourses)

(* The connection breaks: the request goes on without anyone listening.    *)
StopWaiting(d) ==
  /\ awaiting[d] # NoRequest
  /\ awaiting' = [awaiting EXCEPT ![d] = NoRequest]
  /\ UNCHANGED <<log, context, changes, expired, view, request, late>>

----------------------------------------------------------------------------
(* persist_mock_registration_revision *)

NextRevision(r) == request[r].basis.revision + 1

(* Faulty: the fingerprint leaves out the courses.                         *)
FingerprintOfState(q, revision) == <<revision, q.op, q.context>>

Fingerprint(q, revision) == <<revision, q.op, q.context, q.courses>>

Occupied(r) == NextRevision(r) <= Len(log)

IsReplay(r) ==
  /\ Occupied(r)
  /\ LET n == NextRevision(r) IN Fingerprint(log[n], n) = Fingerprint(request[r], n)

(* Faulty: the database appends whatever it does not hold yet.             *)
NotHeld(r) == ~IsReplay(r)

Insertable(r) == NextRevision(r) = Len(log) + 1

NewRow(r) == [op |-> request[r].op, courses |-> request[r].courses,
              context |-> request[r].context, author |-> r,
              basis |-> request[r].basis]

(* Faulty: the service has looked at the period already.                   *)
NeverExpired == FALSE

PeriodExpired == expired

(* The effect of the RPC and its answer.                                   *)
PersistRpc(r, answer) ==
  \/ IsReplay(r) /\ answer = "SUCCESS" /\ UNCHANGED log
  \/ ~IsReplay(r) /\ ~Insertable(r) /\ answer = "REVISION_CONFLICT" /\ UNCHANGED log
  \/ Insertable(r) /\ PeriodExpired /\ answer = "PERSISTENCE_CONFLICT" /\ UNCHANGED log
  \/ Insertable(r) /\ ~PeriodExpired /\ answer = "SUCCESS" /\ log' = Append(log, NewRow(r))

----------------------------------------------------------------------------
(* The requests *)

Advance(r, step) ==
  /\ request' = [request EXCEPT ![r].step = step]
  /\ UNCHANGED <<view, awaiting>>

(* Faulty: the request ends without an answer.                             *)
AnswerForgotten(r, answer, revision) == Advance(r, "done")

(* The response, and what the device does with it if it still listens.     *)
Answer(r, answer, revision) ==
  LET d == request[r].device IN
  /\ request' = [request EXCEPT ![r].step = "done", ![r].answer = answer,
                                ![r].revision = revision]
  /\ IF awaiting[d] = r
       THEN /\ awaiting' = [awaiting EXCEPT ![d] = NoRequest]
            /\ view' = IF answer = "SUCCESS"
                         THEN [view EXCEPT ![d] = Shown(revision)] ELSE view
       ELSE UNCHANGED <<view, awaiting>>

LoadContext(r) ==
  /\ request[r].step = "context"
  /\ request' = [request EXCEPT ![r].step = "check", ![r].context = context]
  /\ UNCHANGED <<log, context, changes, expired, view, awaiting, late>>

(* submit: the period, then validation in the context just read.           *)
CheckSubmission(r) ==
  /\ request[r].step = "check" /\ request[r].op = "submit"
  /\ \/ expired /\ Answer(r, "PERIOD_INVALID", 0)
     \/ /\ ~expired /\ <<request[r].courses, request[r].context>> \in Rejected
        /\ Answer(r, "INVALID_INTENT", 0)
     \/ /\ ~expired /\ <<request[r].courses, request[r].context>> \notin Rejected
        /\ Advance(r, "fresh")
  /\ UNCHANGED <<log, context, changes, expired, late>>

NothingToWithdraw == IF log = <<>> THEN TRUE ELSE log[Len(log)].op = "withdraw"

(* withdraw: the history; the period is read but not checked.              *)
CheckWithdrawal(r) ==
  /\ request[r].step = "check" /\ request[r].op = "withdraw"
  /\ \/ NothingToWithdraw /\ Answer(r, "RESOURCE_NOT_FOUND", 0)
     \/ ~NothingToWithdraw /\ Advance(r, "fresh")
  /\ UNCHANGED <<log, context, changes, expired, late>>

RereadContext(r) ==
  /\ request[r].step = "fresh"
  /\ \/ context = request[r].context /\ Advance(r, "persist")
     \/ context # request[r].context /\ Answer(r, "ACADEMIC_STATE_CHANGED", 0)
  /\ UNCHANGED <<log, context, changes, expired, late>>

(* Faulty: the service inserts first and checks the period afterwards.     *)
InsertThenCheck(r) ==
  /\ request[r].step = "persist"
  /\ \E answer \in Answers :
       /\ \/ ~Insertable(r) /\ PersistRpc(r, answer)
          \/ Insertable(r) /\ log' = Append(log, NewRow(r))
             /\ answer = IF expired THEN "PERSISTENCE_CONFLICT" ELSE "SUCCESS"
       /\ \/ answer = "SUCCESS" /\ Advance(r, "reread")
          \/ answer # "SUCCESS" /\ Answer(r, answer, 0)
  /\ UNCHANGED <<context, changes, expired, late>>

Persist(r) ==
  /\ request[r].step = "persist"
  /\ \E answer \in Answers :
       /\ PersistRpc(r, answer)
       /\ \/ answer = "SUCCESS" /\ Advance(r, "reread")
          \/ answer # "SUCCESS" /\ Answer(r, answer, 0)
  /\ UNCHANGED <<context, changes, expired, late>>

(* A call to the database fails in transport: 503 in every case.           *)
Unavailable(r) ==
  /\ Cardinality({q \in Requests : request[q].answer = "UNAVAILABLE"}) < MaxLost
  /\ Answer(r, "UNAVAILABLE", 0)
  /\ UNCHANGED <<log, context, changes, expired>>

ReadFails(r) ==
  /\ request[r].step \in {"context", "check", "fresh", "reread"}
  /\ Unavailable(r)
  /\ UNCHANGED late

(* The RPC was executed, or will be, or never is.                          *)
PersistUnanswered(r) ==
  /\ request[r].step = "persist"
  /\ Unavailable(r)
  /\ late' = late \union {r}

PersistLate(r) ==
  /\ r \in late
  /\ \E answer \in Answers : PersistRpc(r, answer)
  /\ late' = late \ {r}
  /\ UNCHANGED <<context, changes, expired, view, awaiting, request>>

(* The history is read again and the row of the answered revision picked.  *)
Reread(r) ==
  /\ request[r].step = "reread"
  /\ Answer(r, "SUCCESS", NextRevision(r))
  /\ UNCHANGED <<log, context, changes, expired, late>>

----------------------------------------------------------------------------
(* The environment *)

(* A grade arrives, the plan is edited: the snapshot token differs.        *)
AcademicChange ==
  /\ changes < MaxChanges
  /\ changes' = changes + 1
  /\ context' \in Contexts \ {context}
  /\ UNCHANGED <<log, expired, view, awaiting, request, late>>

PeriodEnds ==
  /\ ~expired
  /\ expired' = TRUE
  /\ UNCHANGED <<log, context, changes, view, awaiting, request, late>>

----------------------------------------------------------------------------

Serve(r) ==
  \/ LoadContext(r) \/ CheckSubmission(r) \/ CheckWithdrawal(r)
  \/ RereadContext(r) \/ Persist(r) \/ Reread(r)

Next ==
  \/ \E d \in Devices, r \in Requests : SubmitRevision(d, r) \/ WithdrawIntent(d, r)
  \/ \E d \in Devices : Refresh(d) \/ StopWaiting(d)
  \/ \E r \in Requests :
       Serve(r) \/ ReadFails(r) \/ PersistUnanswered(r) \/ PersistLate(r)
  \/ AcademicChange
  \/ PeriodEnds

Spec == Init /\ [][Next]_vars

----------------------------------------------------------------------------
(* Properties *)

(* No blind overwrite: every revision was decided by a student who was     *)
(* looking at the revision just before it, whichever devices, retries and  *)
(* late transactions produced the two.                                     *)
DecidedOnThePrevious ==
  \A i \in 1 .. Len(log) : log[i].basis = Shown(i - 1)

(* A withdrawal directly follows a submission: two devices never withdraw  *)
(* the same intent twice, and none is withdrawn that was not submitted.    *)
WithdrawalEndsASubmission ==
  \A i \in 1 .. Len(log) :
    log[i].op = "withdraw" => i > 1 /\ log[i - 1].op = "submit"

(* A success means that the revision answered holds exactly what the       *)
(* request asked for, also when another request had inserted it.           *)
SuccessMeansStored ==
  \A r \in Requests :
    LET q == request[r] IN
    q.answer = "SUCCESS" =>
      /\ q.revision \in 1 .. Len(log)
      /\ log[q.revision].op = q.op
      /\ log[q.revision].courses = q.courses
      /\ log[q.revision].basis = q.basis

(* A refusal means that the request stored nothing and never will; only a  *)
(* 503 leaves that open.                                                   *)
RefusalMeansNothingStored ==
  \A r \in Requests :
    request[r].answer \notin {"none", "SUCCESS", "UNAVAILABLE"} =>
      \A i \in 1 .. Len(log) : log[i].author # r

(* What the abstract log sees of a row, of a request and of its answer.    *)
Effect(row) == [by |-> row.author, op |-> row.op, courses |-> row.courses]

ReplyOf(answer) ==
  CASE answer = "none" -> "none"
    [] answer = "SUCCESS" -> "accepted"
    [] answer = "UNAVAILABLE" -> "unknown"
    [] OTHER -> "refused"

CommandOf(q) == [op |-> q.op, courses |-> q.courses, on |-> q.basis.revision,
                 reply |-> ReplyOf(q.answer)]

Intent == INSTANCE IntentLog
  WITH revisions <- [i \in 1 .. Len(log) |-> Effect(log[i])],
       command <- [r \in Requests |-> CommandOf(request[r])],
       open <- ~expired

(* Devices, service, RPC and late transactions together are one log, in    *)
(* which a command takes effect at most once, on the revision it was       *)
(* decided on and within the period, and whose answers tell the truth.     *)
(* It is Intent!Spec, so written that TLC first looks whether the abstract *)
(* log sees the step at all.                                               *)
ImplementsIntentLog ==
  Intent!Init /\ [][UNCHANGED Intent!vars \/ Intent!Next]_vars

(* Nothing is recorded for a period that has ended, whenever the request   *)
(* looked at the period.                                                   *)
NothingAfterThePeriod == [][expired => log' = log]_vars

(* docs/mock-registration-concurrency-matrix.md:17: a revision is inserted *)
(* only while the academic state it was validated in is the current one.   *)
ValidatedStateIsCurrent ==
  [][Len(log') > Len(log) => log'[Len(log')].context = context]_vars
=============================================================================
