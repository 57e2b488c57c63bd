# Morshidi: verification project

TLA+ specifications of the concurrent and fault-tolerant parts of Morshidi (a
university academic-advising system: a FastAPI service in `src/apps/api/app`, a
Next.js client in `src/apps/web`, PostgreSQL functions and tables in
`src/supabase/migrations`), their TLC model-checking runs, and TLAPS proofs of
their safety. `PROJECT.json` maps every definition to the lines it models.

## 1. Inventory

Most of the code by volume is pure: catalogue, rules, planners and analytics
computed from a student's records. State that several actors change lives in a
few places, and those are what this project is about.

| Component | State | Operations | Interacts with | Hard behaviour | Correct when |
|---|---|---|---|---|---|
| **Decision-trace outbox and P8 processor** (`decision_trace_persistence/`, P8 migrations) | outbox rows (state, attempts, token, lease, retry time, hash, error); a worker's batch | claim, load artifact, map, append, verify, complete, release, fail | fed by the P6 transaction; appends to the ledger; REST RPCs | lost and late answers, leases outlived, crashes, competing workers, redeployment | each submission is settled once, with the hash of its one ledger entry |
| **Decision-trace ledger** | append-only entries and evidence | append, load | outbox processor, decision-history API | identity conflicts of retries | one immutable entry per identity |
| **P6 mock registration** (`mock_registration_service/`, `persist_mock_registration_revision`) | immutable revisions per student, plan and period; what each device shows | current, submit, withdraw | academic records, target period, outbox (same transaction) | two devices, retries, late commits, records changing under validation, period ending | no blind overwrite; answers agree with the log |
| **Academic compute limiter** (`core/academic_compute.py`) | slots, worker threads | run, finish, cancel | degree-path, planner and advisor services | time-out or disconnect while the thread goes on | never more threads than slots; every slot returns |
| **Voice sessions, server** (`voice/session_manager.py`) | daily quota, active session per user | validate, register, end, status | several server processes, one SQLite file | check and write in different transactions | quota respected, each second charged once |
| **Voice session, browser** (`lib/voice/webrtc-voice-session.ts`) | peer connection, microphone, timers, session id | start, stop, callbacks | voice API, browser media | stop between the awaits of start; callbacks after the end | no microphone or server session outlives the session |
| **University live events** (`university_sync/events.py`, `event_routes.py`) | event table, SSE cursor, seen set | ingest, stream, poll, mark read | university webhook, browser | retries against an open transaction; identifiers allocated before commit; frames lost and repeated | what is answered is stored; versions in order; nothing is lost for good; counted once |
| **University sync** (`university_sync/service.py`) | student profile, attempts, identity | sync, apply payload | university API, REST tables | concurrent syncs, partial writes | a sync is complete or retried; no duplicate attempt |
| **Pilot onboarding** (`pilot_onboarding/`) | phase, requirements, blockers, sign-offs | transition, block, resume | write enablement | read-check-write without a lock | no active phase without its gates |
| **SIS integration** (`sis_integration/`) | job rows, seen webhooks | full and incremental sync, webhook | SIS adapters | a webhook marked as seen before it is recorded; a restart | every webhook is recorded once |
| **Student conversations** (`student_conversation/store.py`) | threads, messages, memories | append, archive, upsert memory | advisor | read-then-write over REST | one memory per key; no message in an archived thread |
| **Diagnostics, policy ingestion, plan transition, privacy, learning materials** | versioned rows, sessions | RPCs in one transaction each | – | few interleavings | row-level checks in SQL |
| **Rate limiter** (`core/rate_limiter.py`) | window per key | check | every route | per process | at most N per window |
| **Academic engines** (rules, progress, recommendations, planner, degree paths) | the path that grows | plan a semester, end a path | each other | greedy searches and indexes that stand for quantification over all combinations | planned hours count; while there is room no combination is missed, and no unlocked course ever; a path gives up for a reason it names |
| **Validation of mock registrations** (`mock_registration/`) | none | pure functions | registration service | – | agree with a reference definition |
| **Web session provider** (`auth-provider.tsx`) | session | load, subscribe | Supabase Auth | the order of the first answer and of events is the library's | not in this repository |

## 2. Modules

| Module | What it is |
|---|---|
| `DecisionTraceOutbox` | the outbox table and its RPCs: `ClaimRpc`, `CompleteRpc`, `FailRpc`, `ReleaseRpc`, the insertion, and what time does to a row |
| `DecisionTraceLedger` | the append-only ledger: `AppendRpc` or `AppendConflict` |
| `DecisionTraceProcessor` | composes both with workers (`process_batch`, `process_event`) and a network that times out |
| `TraceDelivery` | the abstract promise: accepted, recorded at most once, acknowledged once with the recorded payload or rejected |
| `MockRegistration` | devices, requests and the revision log of one student, plan and period |
| `IntentLog` | the abstract promise to the student: a command takes effect at most once, on the revision it was decided on and within the period, and no answer is untrue |
| `AcademicCompute` | the compute limiter: calls, worker threads, the event loop's callbacks |
| `AdmissionControl` | the abstract promise of the limiter: at most `Capacity` hold a place, a refusal only when all are taken |
| `VoiceQuota` | the voice sessions, cooldown and daily usage of one student, and the server processes that share them |
| `VoiceClient` | the page of a voice conversation and the session objects it makes, in the browser |
| `UniversityEvents` | the university's events from the webhook to the bell in a student's browser |
| `PilotOnboarding` | the phases and gates of a pilot, and the administrators who move it |
| `DegreePath` | the academic engines, from eligibility to a path of semesters |
| `MC…` | instances for TLC; `MCServices` puts the last four together |
| `…Proofs` | TLAPS proofs, one module per component; `DecisionTraceProcessorProofs` is also about the outbox table, `ServicesProofs` about pilot onboarding and the composition |

### Decision-trace outbox

A row is `[state, attempts, owner, lease, retry, hash, error]`, the operational
columns of `decision_trace_outbox`. Time is what the RPCs read of it: a lease is
live or expired, a retry due or in backoff, and `before` is the order by
`next_attempt_at, created_at`. `pc[w]` names the call of `process_event` a
worker is about to make; `batch`, `cur`, `token`, `err` are its locals; `code`
is the mapper version it runs, represented by the payload it produces. A call
that times out leaves its request in `delayed`, where it may be executed at any
later moment or never; that covers requests that never arrived, lost answers,
and answers that came too late.

Abstractions: one token per claim instead of one per row (the RPCs compare it
with the event id, so they cannot tell); all errors of the mapper are one
rejection class; every retry has the same backoff; a claim skips locked rows at
the granularity of whole transactions; the optional university filter of a
claim is left out. An exception that is neither a transport nor a contract
error, escaping from a settlement on the conflict path, is left out: it ends
`process_batch` as `Restart` does.

### Mock registration

A request is `[step, device, op, courses, basis, context, answer, revision]`;
`basis` is what the device showed when the command was given, and its revision
the expected current revision. One action is one await of
`MockRegistrationStudentService`. The RPC holds an advisory lock on the key and
is one step. The snapshot token is `context`; a list of courses is a model
value; validation is the set `Rejected`. The event of a `SUBMITTED` revision is
inserted in the same transaction: that step is `Submit` of
`DecisionTraceProcessor`. Left out: the equality check of the replay artifact
(equal fingerprints come with equal snapshot tokens and lists), other plans (a
different key), `REVIEW_REQUIRED` (stored like `VALID`), and clients that send
a revision they never read.

### Academic compute

For each call of `AcademicComputeLimiter.run`, `caller` is where the coroutine
stands and `worker` where its thread stands. A coroutine runs to its one await
in a single step (`RunRefused`, `RunLate`, `RunAdmitted`), and is later resumed
by the worker (`Resume`), the cutoff (`TimeOut`) or a cancellation (`Cancel`);
`Finish` is the done callback that gives the slot back. A thread ends when the
calculation returns (`ThreadReturns`) or its `check_budget` raises
(`ThreadStopped`): nothing else can stop it. `slots` is the semaphore, `inUse`
the counter beside it; that the two agree is part of what is proved.
Abstractions: the clock is one flag per call, whether its cutoff has passed; a
call is made once (a service that calculates twice makes two calls). Left out:
the cancellation of worker tasks when the event loop itself shuts down.

### Voice sessions (server)

The state is the student's rows of the SQLite file (`active`, `lastStart`,
`count`, `seconds`) and, per process, the method it is in with its locals
(`op`). A method is a sequence of steps: every SELECT is one and every
`with conn:` block is one, because a SELECT runs outside any transaction; the
methods are synchronous, so one process runs one at a time, and processes
interleave at every step. A request is validated (`Validate`), waits for the
provider, which may fail (`ProviderFails`), and registers (`Register`).
`started` and `charged` are history. Time is a clock of ticks; `now` is read
when a method begins. Left out: the change of the UTC day (usage starts again
at zero), other students (their rows are independent; a sweep merely does more
of the same), dialects, delegated tools, an end-session request that names no
session (the web client always names one), two provider sessions with the same
identifier. A method that waits for a locked file just begins its next step
later; a wait that outlasts the busy timeout, which raises, is left out.

### Voice client (browser)

`session[s]` has the fields of a `WebRTCVoiceSession` that matter after an
`await`: its status, the await its `start` is suspended at, what it holds
(microphone, peer connection, expiry timer), its data channel, and whether it
knows the server's session. A step is what JavaScript runs between two awaits,
or one handler; an object the page has dropped goes on. `Cleaned` is
`cleanup()`, `Stopped` and `Tells` are `stop()`. The page (`Open`, `Retry`,
`ChangeThread`, `Close`, `TalkedOut`) makes, replaces and drops objects and
stops the current one, or not, as `LiveVoiceSession` does. That the server
registers a session (`ServerRegisters`) is a step of its own, so that an object
can end in between. Left out: transcripts, tool calls but for the status they
set, audio levels, dialect, mute.

### University events

`txn[h]` is where a webhook request stands in `ingest_university_event_scoped`:
the inbox row is inserted (`Receive`, which waits for an open transaction with
the same event id or the same idempotency key: the inbox is unique by each, and
a delivery that meets a committed row with either is answered as a duplicate), the aggregate locked and the version compared
(`LockAndCompare`), the notice written under the next number (`WriteNotice`),
and all committed (`Commit`) or rolled back (`Abort`); the sender repeats what
was not answered. `PollStream` is one round of the SSE loop with its cursor,
`pipe` the frames on their way, `ReadFrame` and `Reconcile` what the browser
does with a frame and with the whole list. `overtaken`, `offered` and
`announced` are history. One student is modelled, whom every event concerns;
signatures, scopes, the `since` parameter (the browser never sends it) and
lists of more than 50 are left out.

### Pilot onboarding

`Following`, `Resumable` and `Allowed` are the transition table, `GateOf` and
`NeededFor` the gates. What a gate looks at is a set of `facts`; those of
`Varying` change at any time (`Change`), the others hold. `transition_pilot`
reads the status (`BeginTransition`), then source after source (`Read`), gives
up (`Abandon`) or writes the status whatever it has become (`Write`): `work[a]`
is the request of an administrator. `entered` and `held` are history. A
scorecard that cannot be queried counts as passed, as in the code. Left out:
stakeholders, the activity log, reports, and how requirements, checks and
scorecards are evaluated.

### Degree paths

The state is a record (`passed`, `enrolled`), the request (`limit`, `strategy`)
and the path so far (`terms`, `outcome`, `blockers`); a behaviour is one path,
of any record. `Credited`, `Lacking` and `Satisfied` are the progress engine,
`Eligible` and `ReviewRequired` the evaluator, `Candidates` and `Ranks` the
recommendations and their order. The planner looks at the first
`CandidateWindow` candidates (`Window`); one after the other they join the
combinations there are (`Extends`), and after each only the best
`CombinationLimit` are kept (`Kept`, by `Merit`): `Frontier` is what is left in
the end. `Cap` is the limit of a strategy. The end of a path is one action for
each way it ends, and `Evidence` and `PlanEvidence` are the blockers it is given.
Left out: the order in which the planner offers its combinations and how many
of them the search tries, the beam and de-duplication (what holds of every path
holds of the kept ones), adaptive scores, which the path planner never passes,
the rest of the diagnostics, explanations, and the exhaustive search of the
standalone planner.

### The four together

`MCServices` extends the last four modules, whose definitions of specification
and types therefore carry a prefix (`VoiceSpec`, `LiveSpec`, `PilotSpec`,
`PathSpec`). The parts share no state: a behaviour of the instance is one of a
single part (`part`), so that the run is the union of four small ones and its
size their sum, not their product. That each part behaves there as its own
specification says is a theorem (`PartsBehave`).

## 3. Runs

| Run | Instance | Shows |
|---|---|---|
| `processor_safety` | 2 events, 2 workers, batches of 2, 2 attempts, 3 faults (time-out, crash, outlived lease) | types and table constraint, exclusive claims, the attempt bound, one fault never fails an event, settled rows are final, an overtaken worker is harmless, refinement of `TraceDelivery` |
| `processor_liveness` | 1 worker, 3 events of which one is rejected by the mapper and one cannot be parsed, batches of 1, 2 mapper versions, 2 faults of every kind | completed rows carry the hash of their entry; every submission is settled unless an unparsable one is stored |
| `processor_mismatch` (violation) | 1 event, 1 worker, 2 faults | a time-out is recorded as a permanent duplicate mismatch |
| `processor_malformed` (violation) | 2 events, one unparsable | an unparsable event is claimed and dropped for ever |
| `registration_safety` | 2 devices, 3 requests, 2 lists, 2 contexts, 1 change, 1 transport error | no blind overwrite, withdrawals alternate, successes are stored, refusals store nothing, refinement of `IntentLog` |
| `registration_stale_context` (violation) | as above, 1 list | a revision validated in an outdated context is inserted |
| `compute` | 3 calls, 2 slots | abandoned threads are told to stop, an answered call holds no slot, refinement of `AdmissionControl`, a full limiter does not stay full |
| `voice_one_process` | 1 process, 3 requests, 2 sessions and 2 ticks a day, sessions of at most 3 ticks, 8 ticks | quota, charges, overdraft and cooldown |
| `voice_two_processes` (violation) | 2 processes, 2 requests, 1 session a day | one session too many is registered |
| `services` | a page with 2 session objects; 3 events of 2 aggregates on 2 handlers; 2 administrators and 1 varying fact; a plan of 7 courses in 4 groups, 2 semesters of at most 3 courses, limits 2 and 16, a window of 3 candidates and 4 combinations, every set of passed courses and 3 sets of courses being taken | the voice client tells the server once and lets go of the microphone; answered events are stored, numbered in order, skipped only if overtaken, counted once and all seen; gates are passed before go-live; planned hours count, the frontier holds every combination if they are few, a path gives up only for a reason it names, the index of unlocked courses misses nothing |
| `voice_microphone` (violation) | the page alone | a page closed during the permission prompt listens |
| `path_in_progress` (violation) | the degree paths alone | what the student takes now no longer fits beside the path |

Why the bounds are enough to meet the interesting cases. Outbox: two workers
are needed for a takeover, two events for batches that outlive their lease half
done; `MaxAttempts = 2` makes both the requeue and the exhausted release
happen, and three faults are one more than it takes to lose an answer, lose the
lease, and have a late request arrive. `AttemptCap` exceeds `MaxAttempts`, so
no guard sees the cap. `processor_liveness` has batches of one, because an
unparsable event takes its neighbours with it (finding 2). Seven tokens suffice for every claim that can be alive.
Registration: three requests are submit, withdraw and one more that conflicts,
repeats or arrives late; the run starts in context `x`, in which lists are valid. Compute: two slots and three calls are the least with
which a slot can be lost, given back twice and competed for, with a call left
to be refused. Voice: three requests against a quota of two; a limit of 2
ticks that a session of 3 overdraws; a cooldown of 1, an inactivity limit of 2
and 8 ticks let a session be swept for either reason, be ended late, and be
replaced. Services: two objects are the least with which one is dropped while
another is current. Two versions of one aggregate and a second aggregate let
deliveries race both on the lock and on the numbers, with two handlers; an
event is delivered without a bound until it is answered, and `MaxId = 3` still
lets one number be wasted by a transaction that aborts. The event of the second
aggregate comes with the idempotency key of the first event. Two
administrators overlap in every order, and the varying fact
(`technical_signed`) is one that the gate of acceptance reads last. The plan has a
prerequisite chain, alternatives, a project with a minimum of hours, an
unresolved course, an approved free elective, a course of no hours, and more
electives than its group needs. In many records more than three courses are
candidates, and the three in the window have more than four combinations that
count, or at most four, so that the window and the cut both bite and both leave
room: paths give up with a candidate outside the window, and the premise of
`FewAreAllPlanned` is met and missed. 2 is a limit below most courses, which the
balanced strategy exceeds. Deadlock is not checked: an outbox with everything settled, a student
with no request left, a limiter with all calls answered, a day that is over, a
page with no object left and a path that has ended do stop.

**Fairness** (`processor_liveness`, `processor_malformed`): each worker keeps
taking steps (the operator keeps calling `process_batch`; the repository ships
the processor without a scheduler, so this is an assumption about deployment),
backoffs elapse, and leases nobody holds expire. Nothing is assumed about
requests in the network, and faults are finitely many. A lease that expires
under a worker that still holds it is a fault, not fairness.

**Fairness** (`compute`): time passes each cutoff, the executor starts what is
queued, a calculation keeps coming to `check_budget` until it returns (the
engines call it in their search loops), and the event loop runs its callbacks.
That a calculation ever returns by itself, that a request is made or that a
client leaves is not assumed.

**Fairness** (`services`): what a `start` awaits settles (a permission prompt is
answered, a request of the browser ends) and the expiry timer fires; the
browser reconciles every minute, as its interval does while the page is shown.
Nothing is assumed of webhooks, streams, administrators or paths.

## 4. Findings

Each is the counterexample of a violation run.

1. `processor_mismatch`, `processor.py:178`: any failure to load the entry
   behind a conflict counts as a mismatch, so a time-out makes an event fail
   permanently although the ledger holds exactly its entry.
2. `processor_malformed`, `outbox_repository.py:74`: one unparsable row or
   artifact makes `claim_events` raise; the healthy rows claimed with it are
   dropped too, and the row returns at the head of the queue for ever.
3. `registration_stale_context`, `student_service.py:71`: the academic context
   is compared before, not in, the transaction that inserts the revision.
4. `voice_two_processes`, `session_manager.py:392`: the quota is read outside
   the transaction that counts the session and under a lock of one process, so
   two worker processes can exceed it, against the guarantee in the module's
   header.
5. `voice_microphone`, `webrtc-voice-session.ts:112`: `start` goes on after the
   permission prompt although the page was closed meanwhile; the microphone
   granted then is connected by an object nobody can stop.
6. `path_in_progress`, `degree_path/engine.py:1025`: candidates leave out
   electives only of groups that *passed* courses fill
   (`recommendations/engine.py:274`), so a path plans an elective beside the one
   the student is taking for the same last hours, and fails on its own
   integrity check.

Known, without a run of their own: the retry of a withdrawal that succeeded is
answered 404 (`student_service.py:111`). Of two voice requests validated before
either registers, the second overwrites the first's session, which is never
charged (`session_manager.py:413`). A pilot cancelled during a transition is
brought back, and a scorecard that cannot be queried counts as passed
(`pilot_onboarding/service.py:168`, `:145`). The balanced strategy's limit is
never below 12 hours, whatever the student asked for
(`degree_path/engine.py:403`). An event that reuses the idempotency key of
another is answered as its duplicate and never stored
(`20261021162616_university_scoped_notifications.sql:49`). An append whose answer is garbled
fails the event although its entry is recorded (`processor.py:250`), and an
event whose worker dies after every claim is claimed without limit. A voice
session whose data channel the other side closes keeps its microphone
(`webrtc-voice-session.ts:157`). With an unparsable event in a batch its healthy
neighbours lose an attempt with every void claim (2).

## 5. Proofs

`DecisionTraceProcessorProofs` begins with what each RPC does to the table's
invariant, and proves, for every number of events, workers, tokens, payloads
and faults, from `OutboxAssumption` and `ProcessorAssumption`: type
correctness, `CompletedMeansRecorded`, `ClaimIsExclusive`,
`PendingHasAttemptLeft`, `SettledIsFinal`, `OvertakenWorkerIsHarmless`,
`OneFaultNeverFails`, and that the processor implements `TraceDelivery`. `CompletedMeansRecorded` is not inductive: a row is completed
by a worker, or by a delayed request, with the payload *it* has in hand. The
strengthening `Inv` says that whoever is about to complete an event has the
payload the ledger already holds, that tokens of busy workers are distinct and
that a claimed event exists; it is stable because ledger entries never change.
Each action has a lemma that proves `Inv' /\ Effects`, where `Effects` is what
a step may do to one row and to the ledger; `SettledIsFinal` and the
refinement follow from `Effects`. `OvertakenWorkerIsHarmless` is a matter of
who acts: no other actor moves a worker, and the worker writes only the row in
hand, if its token still owns it.

`OneFaultNeverFails` holds under `PlainDeployment`: one mapper version, no
stored row that cannot be parsed, no garbled answer, and at least two attempts.
`processor_safety` runs in such a deployment. Each condition is needed: a
redeployed mapper meets an entry of the old one and fails the event, an
unparsable neighbour takes attempts away without any fault, a garbled answer
is one fault that fails the event at once, and with a single attempt the first
time-out is the last. A property of one fault is not inductive, since it says nothing of
the state the fault finds. `OneFaultInv` has a part for each stage: before any
fault (`Undisturbed`) every claimed row is at its first attempt, under a live
lease, in the batch of the worker that owns it, and an entry is ahead of its row
only while its worker is about to complete it; up to the first fault (`Spared`)
only events the mapper rejects are on their way to a failure, and a release that
still counts is of a first attempt. A worker that looks up a duplicate finds an
entry (`VerifiesRecorded`), and with one mapper it is the right one, so the
second attempt completes.

`MockRegistrationProofs` proves, from `RegistrationAssumption`, type
correctness, `DecidedOnThePrevious`, `WithdrawalEndsASubmission`,
`SuccessMeansStored`, `RefusalMeansNothingStored`, `NothingAfterThePeriod` and
that the whole implements `IntentLog`. The strengthening: whatever a device
shows, and so every basis, is a true picture of a revision that exists, because
rows never change; and a request whose RPC answered success has its row until
the device hears of it. The refinement needs two facts more (`IntentInv`): a request not sent yet carries no
command, and one whose RPC is still on its way after the 503 has no row. Then
the RPC that inserts is the command taking effect (`InsertTakesEffect`), the
answers are the replies, and every read is a stutter. `NothingAfterThePeriod` has
no run of its own: `IntentLog` demands it of every revision.

`AcademicComputeProofs` proves, from `CapacityAssumption`, type correctness,
`AbandonedWorkIsTold`, `AnsweredHoldsNoSlot` and the refinement of
`AdmissionControl`, for every number of calls and every capacity. The
strengthening `Inv` is the account of the slots: `slots` plus the number of
live workers is `Capacity`, and `inUse` is that number; with it each step of a
caller and its worker maps to a step of the abstract specification or to none.

`VoiceQuotaProofs` proves type correctness for any number of processes, and,
assuming one process (`OneProcess`), `SessionsWithinQuota`,
`ChargedForWhatItLasted`, `OverdraftIsOneSession` and `StartsAreSpaced`. The
strengthening `QuotaInv` says that what the method in hand has read is still so
(`Fresh`): the open row when it is charged, the quota and the cooldown when the
session is stored. That is exactly what a second process breaks
(`voice_two_processes`), so the theorems stop where the code's guarantee does;
with two processes the charges are not claimed either.

`VoiceClientProofs` proves, from `SessionAssumption`, for any number of session
objects, type correctness, `ToldAtMostOnce` and `OverMeansReleased`. The
strengthening says what an object holds at each await (`Sound`), and that an
object whose end was told has nothing left to end it again: no timer, no open
channel, no connection, and, if the page still refers to it, the status ended
(`Quiet`).

`UniversityEventsProofs` proves, from `UniversityEventsAssumption`, type
correctness, `AnsweredIsStored`, `NumberedByVersion`, `OnlyOvertakenIsSkipped`
and `AnnouncedOnce`, for any events, handlers, aborts and retries. The
strengthening says what a transaction knows of the tables at each stage
(`Consistent`), that two of them never hold the same event or aggregate
(`Apart`), that the rows of an aggregate are no newer than its recorded version
(`RowsInv`), and that the cursor stands at a committed row.

`DegreePathProofs` proves, from `DegreePathAssumption`, for every plan of
courses, record, limit and strategy: type correctness, `PlannedCreditsCount`,
`FewAreAllPlanned` and `UnlocksAreExact`. Hours are sums over sets and the
frontier grows candidate by candidate, so the lemmas go by induction over the
subsets of a finite set. The induction theorems of the library take an operator
as a parameter and cannot be used; `SubsetInduction` has a set in its place (the
subsets a statement holds of) and follows from the well-foundedness of strict
inclusion: among the subsets the statement fails of, none is minimal. A
recursive function is unfolded by showing that a function with its equation
exists and that any two agree (`AddsUp`, `Grows`). The argument about the
planner: whatever the cut drops, the frontier holds only combinations that keep
the limits and count in full; each semester then adds exactly its hours to what
is completed, which is the inductive step of `PlannedCreditsCount`. The other
way round, one course more is worth its hours at most (`CompletedPutIn`, because
a group's credits are capped), so a combination that counts in full still does
without any one of its courses (`FullWithout`), and refusing one that does not
count in full loses no larger one. If the combinations of the window that count
in full are no more than `CombinationLimit`, neither are those of any part of
it, the cut never drops one, and the frontier is all of them
(`FrontierIsFull`). With more of them it does depend on ranks and merits, and
nothing is claimed of which ones are kept.

`ServicesProofs` proves type correctness of pilot onboarding,
`GoLiveWasGated` and `DecisionsWereEarned`, for any administrators and varying
facts. The strengthening speaks of transitions under way: what each has read
has held (`Gathered`), and one that is bound for the go-live review started
from a decisive phase (`Approached`). Its second half is about the composition:
every behaviour of `MCServices` is, for each part, a behaviour of that part
(`PartsBehave`), so the theorems about the parts hold of what the run checks;
the composed `TypeOK` is one of them.

Only model-checked: liveness (`EverySubmissionSettles`, `FullIsTemporary`,
`MicrophoneIsReleased`, `EveryNoticeIsSeen`), because fairness and ENABLED are
out of the prover's reach, and `GivingUpIsExplained`, whose proof needs that the
planner's order of combinations has no cycle.

## 6. Plan

In this order; what is done is marked.

1. Outbox, ledger, processor, `TraceDelivery`, proofs. **Done.**
2. `MockRegistration`, `IntentLog` and proofs. **Done.**
3. `AcademicCompute`, `AdmissionControl` and proofs. **Done.**
4. `VoiceQuota` and proofs. **Done.** Later: the change of the day.
5. `VoiceClient` and proofs. **Done.**
6. `PilotOnboarding` and proofs. **Done.** Later: write enablement.
7. `UniversityEvents` and proofs. **Done.** Left: `UniversitySync`, the
   convergence of concurrent and partial synchronisations.
8. `DegreePath` and proofs. **Done.** Left: `resolve_current_intents` and the validation
   status of a mock registration against reference definitions.
9. Left: the RPCs of student diagnostics (start and answer under row locks),
   the two-request writes of student conversations.

No module that is proved about declares a RECURSIVE operator or reaches one:
what recurses there is a recursive function or a fold.

## 7. Not modelled

Everything of section 1 that section 2 does not name, and: the content of the
mapper, artifacts and fingerprints (their equality is what matters), evidence
rows and supersession in the ledger, row-level security and authentication,
and, part by part, what section 2 says is left out.

The mapped lines are a small share of the source, for a reason: of its 65,000
lines most have no state and no order to check. They are user-interface pages,
curricula and question banks written out as code
(`student_intelligence/multi_major_content.py`, `se_diagnostic.py`), prompts and
the orchestration of language-model calls (`advisor/`, `advisor_copilot/`),
adapters that rename fields between two models (`advisor_copilot/adapters.py`),
repositories that build REST queries (`catalog/supabase_repository.py`), and
the wiring of the application (`main.py`). What a model of these could say, the
code says as plainly.
