----------------------------- MODULE VoiceQuota -----------------------------
(***************************************************************************)
(* VoiceSessionManager (voice/session_manager.py): the live voice sessions *)
(* of one student on one day, kept in an SQLite file that the server's     *)
(* worker processes share.                                                 *)
(*                                                                         *)
(* A process runs one method at a time (they are synchronous calls on its  *)
(* event loop, under a lock of its own).  A method is several steps: every *)
(* SELECT is one, outside any transaction, and the statements of one       *)
(* "with conn:" block are one.  A request to start a session is validated, *)
(* waits for the voice provider, and only then registers.                  *)
(*                                                                         *)
(* Time is a clock of coarse ticks.  A session is named by the request     *)
(* that started it; only the first max_duration_seconds of it count.       *)
(***************************************************************************)
EXTENDS Naturals, FiniteSets

CONSTANTS
  Processes,     \* the server's worker processes
  Requests,      \* POST /voice/session of one student
  NoRequest,     \* no session was ever registered; an idle process
  MaxSessions,   \* max_daily_sessions_per_student
  MaxSeconds,    \* max_daily_seconds_per_student, in ticks
  Duration,      \* max_duration_seconds
  Cooldown,      \* min_seconds_between_starts
  Inactivity,    \* inactivity_timeout_seconds
  Slack,         \* the gap a client's report is allowed (10 seconds)
  Horizon        \* bound of the model: the last tick of the clock

ASSUME VoiceAssumption ==
  /\ NoRequest \notin Requests
  /\ MaxSessions \in Nat \ {0} /\ MaxSeconds \in Nat \ {0}
  /\ Duration \in Nat \ {0}
  /\ Cooldown \in Nat /\ Inactivity \in Nat /\ Slack \in Nat
  /\ Horizon \in Nat /\ Cooldown <= Horizon

VARIABLES
  now,         \* time.time()
  active,      \* the student's row of voice_active_sessions
  lastStart,   \* voice_cooldowns.last_start_at
  count,       \* voice_daily_usage.session_count
  seconds,     \* voice_daily_usage.total_seconds
  home,        \* the process that serves a request
  stage,       \* how far a request is
  op,          \* the method a process is in, and its locals
  started,     \* history: when a session was registered (0: never)
  charged      \* history: what was charged for it

database == <<active, lastStart, count, seconds>>
vars == <<now, active, lastStart, count, seconds, home, stage, op, started, charged>>

Clock == 0 .. Horizon
Stages == {"new", "validated", "live", "refused", "failed"}
Methods == {"none", "status", "validate", "register", "end"}
Steps == {"sweep", "expire", "cooldown", "find", "release", "usage", "store", "close"}

Row == [session : Requests \union {NoRequest}, created : Clock,
        touched : Clock, open : BOOLEAN]

Call == [method : Methods, request : Requests \union {NoRequest}, at : Clock,
         report : 0 .. Duration, step : Steps, row : Row]

NoRow == [session |-> NoRequest, created |-> 0, touched |-> 0, open |-> FALSE]

Idle == [method |-> "none", request |-> NoRequest, at |-> 0, report |-> 0,
         step |-> "sweep", row |-> NoRow]

TypeOK ==
  /\ now \in Clock
  /\ active \in Row
  /\ lastStart \in Clock
  /\ count \in Nat
  /\ seconds \in Nat
  /\ home \in [Requests -> Processes]
  /\ stage \in [Requests -> Stages]
  /\ op \in [Processes -> Call]
  /\ started \in [Requests -> Clock]
  /\ charged \in [Requests -> Nat]
  /\ active.open => active.session # NoRequest /\ stage[active.session] = "live"

(* The first start of the day meets no cooldown.                           *)
Init ==
  /\ now = Cooldown
  /\ active = NoRow
  /\ lastStart = 0
  /\ count = 0
  /\ seconds = 0
  /\ home \in [Requests -> Processes]
  /\ stage = [r \in Requests |-> "new"]
  /\ op = [p \in Processes |-> Idle]
  /\ started = [r \in Requests |-> 0]
  /\ charged = [r \in Requests |-> 0]

----------------------------------------------------------------------------
(* Arithmetic on times *)

Least(a, b) == IF a <= b THEN a ELSE b
Elapsed(row, at) == IF at <= row.created THEN 0 ELSE at - row.created

(* What the server measures, up to the hard limit of a session.            *)
Measured(row, at) == Least(Elapsed(row, at), Duration)

(* A client's report (0: none) counts unless it is implausibly low.        *)
Implausible(row, at, report) ==
  /\ 4 * report < 3 * Elapsed(row, at)
  /\ Elapsed(row, at) > report + Slack

Reconciled(row, at, report) ==
  IF report = 0 \/ Implausible(row, at, report)
    THEN Measured(row, at) ELSE Least(report, Measured(row, at))

(* The hard limit is reached or the session is abandoned.                  *)
Overdue(row, at) ==
  /\ row.open
  /\ row.created + Duration <= at \/ row.touched + Inactivity < at

CooldownPassed(at) == lastStart + Cooldown <= at

(* Faulty: one session more than allowed.                                  *)
UsageLeftLate == count <= MaxSessions /\ seconds < MaxSeconds

(* Faulty: only the sessions are counted.                                  *)
SessionsLeft == count < MaxSessions

UsageLeft == count < MaxSessions /\ seconds < MaxSeconds

----------------------------------------------------------------------------
(* Steps of a method *)

Enter(p, method, r, report) ==
  /\ op[p].method = "none"
  /\ op' = [op EXCEPT ![p] = [method |-> method, request |-> r, at |-> now,
                              report |-> report, step |-> "sweep", row |-> NoRow]]

Return(p) == op' = [op EXCEPT ![p] = Idle]

(* The step that follows the sweep every method begins with.               *)
Goto(p, step) == op' = [op EXCEPT ![p].step = step]

Resume(p) ==
  CASE op[p].method = "status" -> Return(p)
    [] op[p].method = "end"    -> Goto(p, "find")
    [] OTHER                   -> Goto(p, "cooldown")

Charge(session, amount) ==
  /\ seconds' = seconds + amount
  /\ charged' = [charged EXCEPT ![session] = @ + amount]

Answer(p, outcome) ==
  /\ stage' = [stage EXCEPT ![op[p].request] = outcome]
  /\ Return(p)

At(p, step) == op[p].method # "none" /\ op[p].step = step

(* _cleanup_expired_locked: the SELECT, then one transaction               *)
Sweep(p) ==
  /\ At(p, "sweep")
  /\ \/ ~Overdue(active, op[p].at) /\ Resume(p)
     \/ /\ Overdue(active, op[p].at)
        /\ op' = [op EXCEPT ![p].step = "expire", ![p].row = active]
  /\ UNCHANGED <<now, database, home, stage, started, charged>>

(* Faulty: the row that was charged stays active.                          *)
ExpireLeavesOpen(p) ==
  /\ At(p, "expire")
  /\ Charge(op[p].row.session, Measured(op[p].row, op[p].at))
  /\ Resume(p)
  /\ UNCHANGED <<now, active, lastStart, count, home, stage, started>>

CloseIfStill(session) ==
  active' = IF active.session = session THEN [active EXCEPT !.open = FALSE] ELSE active

Expire(p) ==
  /\ At(p, "expire")
  /\ Charge(op[p].row.session, Measured(op[p].row, op[p].at))
  /\ CloseIfStill(op[p].row.session)
  /\ Resume(p)
  /\ UNCHANGED <<now, lastStart, count, home, stage, started>>

(* Faulty: who was validated need not look at the cooldown again.          *)
CheckCooldownOnce(p) ==
  /\ At(p, "cooldown")
  /\ \/ /\ op[p].method = "validate" /\ ~CooldownPassed(op[p].at)
        /\ Answer(p, "refused")
     \/ /\ op[p].method = "register" \/ CooldownPassed(op[p].at)
        /\ Goto(p, IF op[p].method = "validate" THEN "find" ELSE "usage")
        /\ UNCHANGED stage
  /\ UNCHANGED <<now, database, home, started, charged>>

(* validate_can_start and register_session *)
CheckCooldown(p) ==
  /\ At(p, "cooldown")
  /\ \/ ~CooldownPassed(op[p].at) /\ Answer(p, "refused")
     \/ /\ CooldownPassed(op[p].at)
        /\ Goto(p, IF op[p].method = "validate" THEN "find" ELSE "usage")
        /\ UNCHANGED stage
  /\ UNCHANGED <<now, database, home, started, charged>>

CheckUsage(p) ==
  /\ At(p, "usage")
  /\ \/ ~UsageLeft /\ Answer(p, "refused")
     \/ UsageLeft /\ op[p].method = "validate" /\ Answer(p, "validated")
     \/ UsageLeft /\ op[p].method = "register" /\ Goto(p, "store") /\ UNCHANGED stage
  /\ UNCHANGED <<now, database, home, started, charged>>

(* The student's active session, if any: validate ends it to make room,    *)
(* end_session ends it if it is the one named.                             *)
Find(p) ==
  /\ At(p, "find")
  /\ op' = [op EXCEPT ![p].row = active,
                      ![p].step = IF op[p].method = "end" THEN "close"
                                  ELSE IF active.open THEN "release" ELSE "usage"]
  /\ UNCHANGED <<now, database, home, stage, started, charged>>

(* validate's UPDATE names the student, not the session it has read.       *)
Release(p) ==
  /\ At(p, "release")
  /\ Charge(op[p].row.session, Measured(op[p].row, op[p].at))
  /\ active' = [active EXCEPT !.open = FALSE]
  /\ Goto(p, "usage")
  /\ UNCHANGED <<now, lastStart, count, home, stage, started>>

(* Faulty: the transaction commits, then the request fails.                *)
StoreUnanswered(p) ==
  LET r == op[p].request IN
  /\ At(p, "store")
  /\ lastStart' = op[p].at
  /\ active' = [session |-> r, created |-> op[p].at, touched |-> op[p].at, open |-> TRUE]
  /\ count' = count + 1
  /\ started' = [started EXCEPT ![r] = op[p].at]
  /\ Return(p)
  /\ UNCHANGED <<now, seconds, home, stage, charged>>

(* register's transaction: whatever row is there is overwritten.           *)
Store(p) ==
  LET r == op[p].request IN
  /\ At(p, "store")
  /\ lastStart' = op[p].at
  /\ active' = [session |-> r, created |-> op[p].at, touched |-> op[p].at, open |-> TRUE]
  /\ count' = count + 1
  /\ started' = [started EXCEPT ![r] = op[p].at]
  /\ Answer(p, "live")
  /\ UNCHANGED <<now, seconds, home, charged>>

Close(p) ==
  LET row == op[p].row
      mine == row.open /\ row.session = op[p].request IN
  /\ At(p, "close")
  /\ IF mine THEN Charge(row.session, Reconciled(row, op[p].at, op[p].report))
             ELSE UNCHANGED <<seconds, charged>>
  /\ CloseIfStill(op[p].request)
  /\ Return(p)
  /\ UNCHANGED <<now, lastStart, count, home, stage, started>>

----------------------------------------------------------------------------
(* What the routes call, and time *)

Validate(r) ==
  /\ stage[r] = "new"
  /\ \A p \in Processes : op[p].request # r
  /\ Enter(home[r], "validate", r, 0)
  /\ UNCHANGED <<now, database, home, stage, started, charged>>

(* The provider answered.                                                  *)
Register(r) ==
  /\ stage[r] = "validated"
  /\ \A p \in Processes : op[p].request # r
  /\ Enter(home[r], "register", r, 0)
  /\ UNCHANGED <<now, database, home, stage, started, charged>>

ProviderFails(r) ==
  /\ stage[r] = "validated"
  /\ \A p \in Processes : op[p].request # r
  /\ stage' = [stage EXCEPT ![r] = "failed"]
  /\ UNCHANGED <<now, database, home, op, started, charged>>

(* The client ends a session that was registered, perhaps not for the      *)
(* first time and perhaps long after; it reports what it likes.            *)
EndSession(p, r) ==
  /\ stage[r] = "live"
  /\ \E report \in 0 .. Duration : Enter(p, "end", r, report)
  /\ UNCHANGED <<now, database, home, stage, started, charged>>

(* get_status and the other readers: only their sweep changes anything.    *)
Status(p) ==
  /\ Enter(p, "status", NoRequest, 0)
  /\ UNCHANGED <<now, database, home, stage, started, charged>>

(* touch_activity: a turn was spoken or a tool delegated.                  *)
Touch(p) ==
  /\ op[p].method = "none"
  /\ active.open
  /\ active' = [active EXCEPT !.touched = now]
  /\ UNCHANGED <<now, lastStart, count, seconds, home, stage, op, started, charged>>

Tick ==
  /\ now < Horizon
  /\ now' = now + 1
  /\ UNCHANGED <<database, home, stage, op, started, charged>>

Method(p) ==
  \/ Sweep(p) \/ Expire(p) \/ CheckCooldown(p) \/ CheckUsage(p)
  \/ Find(p) \/ Release(p) \/ Store(p) \/ Close(p)

Next ==
  \/ \E p \in Processes : Method(p) \/ Status(p) \/ Touch(p)
  \/ \E r \in Requests : Validate(r) \/ Register(r) \/ ProviderFails(r)
  \/ \E p \in Processes, r \in Requests : EndSession(p, r)
  \/ Tick

Spec == Init /\ [][Next]_vars

----------------------------------------------------------------------------
(* Properties *)

(* No student has more sessions a day than allowed, although a session is  *)
(* counted long after it was validated.                                    *)
SessionsWithinQuota == count <= MaxSessions

(* A session is never charged for more than it lasted, whoever of the      *)
(* client, the sweep and the next session's validation ends it, and        *)
(* however often.                                                          *)
ChargedForWhatItLasted ==
  \A r \in Requests :
    charged[r] <= Least(now - started[r], Duration)

(* The minutes may be overdrawn by the last session only.                  *)
OverdraftIsOneSession == seconds < MaxSeconds + Duration

(* Two sessions of a student start at least the cooldown apart, although   *)
(* both may have been validated before either started.                     *)
StartsAreSpaced ==
  \A r, s \in Requests :
    /\ r # s
    /\ stage[r] = "live" /\ stage[s] = "live"
    /\ started[r] <= started[s]
    => started[r] + Cooldown <= started[s]
============================================================================
