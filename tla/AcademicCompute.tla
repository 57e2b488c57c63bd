--------------------------- MODULE AcademicCompute ---------------------------
(***************************************************************************)
(* AcademicComputeLimiter.run (core/academic_compute.py): admission of     *)
(* CPU-heavy calculations to a bounded number of worker threads.           *)
(*                                                                         *)
(* Two kinds of process interleave.  The event loop runs each call of run  *)
(* up to its one await as a single step, later resumes it (with the        *)
(* worker's outcome, the time-out or a cancellation) and runs the worker   *)
(* task's done callback.  The worker thread goes on by itself: nothing can *)
(* stop it but its own next check_budget, so a call may be answered while  *)
(* its thread still calculates and still holds its slot.                   *)
(*                                                                         *)
(* The clock is abstracted to expired[c]: whether call c's cutoff has      *)
(* passed.  cancelled[c] is the Event the call shares with its thread and, *)
(* for a degree path, with the route's disconnect watcher.                 *)
(***************************************************************************)
EXTENDS Naturals, FiniteSets

CONSTANTS Calls,      \* calls of run, from any of the services that share it
          Capacity    \* academic_compute_max_concurrent

ASSUME CapacityAssumption == /\ IsFiniteSet(Calls)
                             /\ Capacity \in Nat \ {0}

VARIABLES slots,      \* permits left in the BoundedSemaphore
          inUse,      \* _in_use
          caller,     \* [Calls -> CallerStates] where the coroutine stands
          worker,     \* [Calls -> WorkerStates] where the worker stands
          outcome,    \* [Calls -> Outcomes] what calculate left in its task
          cancelled,  \* [Calls -> BOOLEAN] the cancellation Event
          expired     \* [Calls -> BOOLEAN] monotonic() >= cutoff

vars == <<slots, inUse, caller, worker, outcome, cancelled, expired>>

Answers == {"busy", "timeout", "cancelled", "value", "error"}
CallerStates == {"new", "awaiting"} \cup Answers

(***************************************************************************)
(* "queued": the task exists, the executor has not started calculate;      *)
(* "exited": calculate is over but the loop has not run finish yet;        *)
(* "done": finish has run.                                                 *)
(***************************************************************************)
WorkerStates == {"none", "queued", "running", "exited", "done"}
Outcomes == {"none", "value", "error", "timeout"}

TypeOK ==
    /\ slots \in 0..Capacity
    /\ inUse \in 0..Capacity
    /\ caller \in [Calls -> CallerStates]
    /\ worker \in [Calls -> WorkerStates]
    /\ outcome \in [Calls -> Outcomes]
    /\ cancelled \in [Calls -> BOOLEAN]
    /\ expired \in [Calls -> BOOLEAN]

Init ==
    /\ slots = Capacity
    /\ inUse = 0
    /\ caller = [c \in Calls |-> "new"]
    /\ worker = [c \in Calls |-> "none"]
    /\ outcome = [c \in Calls |-> "none"]
    /\ cancelled = [c \in Calls |-> FALSE]
    /\ expired = [c \in Calls |-> FALSE]

BudgetSpent(c) == cancelled[c] \/ expired[c]

-----------------------------------------------------------------------------
(***************************************************************************)
(* The event loop: run, up to its first suspension.                        *)
(***************************************************************************)
Answer(c, a) == caller' = [caller EXCEPT ![c] = a]

\* acquire(blocking=False) finds no permit
RunRefused(c) ==
    /\ caller[c] = "new"
    /\ slots = 0
    /\ Answer(c, "busy")
    /\ UNCHANGED <<slots, inUse, worker, outcome, cancelled, expired>>

\* The bug of a clean-up that only the done callback would perform.
RunLateKeepsSlot(c) ==
    /\ caller[c] = "new"
    /\ slots > 0
    /\ BudgetSpent(c)
    /\ Answer(c, "timeout")
    /\ slots' = slots - 1
    /\ inUse' = inUse + 1
    /\ UNCHANGED <<worker, outcome, cancelled, expired>>

\* Admitted with its budget already spent (the client left, or the catalogs
\* took too long): check_budget raises and the finally clause gives the slot
\* back, all before any other coroutine runs.
RunLate(c) ==
    /\ caller[c] = "new"
    /\ slots > 0
    /\ BudgetSpent(c)
    /\ Answer(c, "timeout")
    /\ UNCHANGED <<slots, inUse, worker, outcome, cancelled, expired>>

RunAdmitted(c) ==
    /\ caller[c] = "new"
    /\ slots > 0
    /\ ~BudgetSpent(c)
    /\ slots' = slots - 1
    /\ inUse' = inUse + 1
    /\ worker' = [worker EXCEPT ![c] = "queued"]
    /\ Answer(c, "awaiting")
    /\ UNCHANGED <<outcome, cancelled, expired>>

-----------------------------------------------------------------------------
(***************************************************************************)
(* The worker thread.                                                      *)
(***************************************************************************)
ThreadStart(c) ==
    /\ worker[c] = "queued"
    /\ worker' = [worker EXCEPT ![c] = "running"]
    /\ UNCHANGED <<slots, inUse, caller, outcome, cancelled, expired>>

Exit(c, o) ==
    /\ worker[c] = "running"
    /\ worker' = [worker EXCEPT ![c] = "exited"]
    /\ outcome' = [outcome EXCEPT ![c] = o]
    /\ UNCHANGED <<slots, inUse, caller, cancelled, expired>>

\* check_budget, called from inside the calculation, raises
ThreadStopped(c) == BudgetSpent(c) /\ Exit(c, "timeout")

\* calculate returns, or fails for a reason of its own
ThreadReturns(c) == \E o \in {"value", "error"} : Exit(c, o)

-----------------------------------------------------------------------------
(***************************************************************************)
(* The event loop: the worker task's done callback, and what resumes run.  *)
(***************************************************************************)
\* The bug of a slot that the requester, not the worker, gives back.
FinishOnlyIfAwaited(c) ==
    /\ worker[c] = "exited"
    /\ worker' = [worker EXCEPT ![c] = "done"]
    /\ IF caller[c] = "awaiting"
         THEN inUse' = inUse - 1 /\ slots' = slots + 1
         ELSE UNCHANGED <<inUse, slots>>
    /\ UNCHANGED <<caller, outcome, cancelled, expired>>

Finish(c) ==
    /\ worker[c] = "exited"
    /\ worker' = [worker EXCEPT ![c] = "done"]
    /\ inUse' = inUse - 1
    /\ slots' = slots + 1
    /\ UNCHANGED <<caller, outcome, cancelled, expired>>

\* The bug of a done callback registered after the one that wakes run.
ResumeBeforeFinish(c) ==
    /\ caller[c] = "awaiting"
    /\ worker[c] \in {"exited", "done"}
    /\ Answer(c, outcome[c])
    /\ UNCHANGED <<slots, inUse, worker, outcome, cancelled, expired>>

\* shield(worker) completes: finish was registered first and has run
Resume(c) ==
    /\ caller[c] = "awaiting"
    /\ worker[c] = "done"
    /\ Answer(c, outcome[c])
    /\ UNCHANGED <<slots, inUse, worker, outcome, cancelled, expired>>

\* timeout_at(cutoff) fires; it wins over a worker that is done but whose
\* result run has not been resumed with
TimeOut(c) ==
    /\ caller[c] = "awaiting"
    /\ expired[c]
    /\ Answer(c, "timeout")
    /\ cancelled' = [cancelled EXCEPT ![c] = TRUE]
    /\ UNCHANGED <<slots, inUse, worker, outcome, expired>>

\* The bug of passing a cancellation on without telling the thread.
CancelUnsignalled(c) ==
    /\ caller[c] = "awaiting"
    /\ Answer(c, "cancelled")
    /\ UNCHANGED <<slots, inUse, worker, outcome, cancelled, expired>>

\* The bug of a finally clause that does not ask who owns the slot.
CancelFreesSlot(c) ==
    /\ caller[c] = "awaiting"
    /\ Answer(c, "cancelled")
    /\ cancelled' = [cancelled EXCEPT ![c] = TRUE]
    /\ slots' = slots + 1
    /\ inUse' = inUse - 1
    /\ UNCHANGED <<worker, outcome, expired>>

\* the request's task is cancelled while it awaits
Cancel(c) ==
    /\ caller[c] = "awaiting"
    /\ Answer(c, "cancelled")
    /\ cancelled' = [cancelled EXCEPT ![c] = TRUE]
    /\ UNCHANGED <<slots, inUse, worker, outcome, expired>>

-----------------------------------------------------------------------------
(***************************************************************************)
(* The environment: the route's watcher sets the Event when the client     *)
(* leaves (the request goes on awaiting its worker), and time passes.      *)
(***************************************************************************)
Disconnect(c) ==
    /\ caller[c] \in {"new", "awaiting"}
    /\ ~cancelled[c]
    /\ cancelled' = [cancelled EXCEPT ![c] = TRUE]
    /\ UNCHANGED <<slots, inUse, caller, worker, outcome, expired>>

Expire(c) ==
    /\ ~expired[c]
    /\ expired' = [expired EXCEPT ![c] = TRUE]
    /\ UNCHANGED <<slots, inUse, caller, worker, outcome, cancelled>>

Run(c) == RunRefused(c) \/ RunLate(c) \/ RunAdmitted(c)
Thread(c) == ThreadStart(c) \/ ThreadStopped(c) \/ ThreadReturns(c)
Loop(c) == Finish(c) \/ Resume(c) \/ TimeOut(c) \/ Cancel(c)

Next == \E c \in Calls :
    Run(c) \/ Thread(c) \/ Loop(c) \/ Disconnect(c) \/ Expire(c)

Spec == Init /\ [][Next]_vars

(***************************************************************************)
(* Time passes; the executor starts what is queued and the engine keeps    *)
(* calling check_budget; the loop runs the callbacks it is given.  That a  *)
(* calculation ever returns by itself, that a request is made, or that a   *)
(* client leaves is not assumed.                                           *)
(***************************************************************************)
Fairness == \A c \in Calls :
    /\ WF_vars(Expire(c))
    /\ WF_vars(ThreadStart(c))
    /\ WF_vars(ThreadStopped(c))
    /\ WF_vars(Finish(c))
    /\ WF_vars(Resume(c) \/ TimeOut(c))

FairSpec == Spec /\ Fairness

-----------------------------------------------------------------------------
Holding == {c \in Calls : worker[c] \in {"queued", "running", "exited"}}
Refused == {c \in Calls : caller[c] = "busy"}

(***************************************************************************)
(* The limiter is an admission control: never more than Capacity           *)
(* calculations alive, whether or not anyone still waits for them, and no  *)
(* call refused while a slot is free (no time-out, cancellation or early   *)
(* expiry leaks a slot or gives one back twice).                           *)
(***************************************************************************)
Limiter == INSTANCE AdmissionControl
             WITH holders <- Holding,
                  refused <- Refused

IsAdmissionControl == Limiter!Spec

(***************************************************************************)
(* A call that gave up on its worker has told it so: a thread nobody       *)
(* awaits always finds its budget spent at its next check_budget.          *)
(***************************************************************************)
AbandonedWorkIsTold ==
    \A c \in Calls :
        caller[c] \in Answers /\ worker[c] \in {"queued", "running"}
            => cancelled[c]

(***************************************************************************)
(* A call answered by its worker already holds no slot: a request that     *)
(* calculates twice in a row is never refused because of itself.           *)
(***************************************************************************)
AnsweredHoldsNoSlot ==
    \A c \in Calls : caller[c] \in {"value", "error"} => c \notin Holding

(***************************************************************************)
(* A full limiter does not stay full, although no calculation need ever    *)
(* return by itself and nobody need wait for any of them: the cutoff stops *)
(* the threads and finish gives their slots back.                          *)
(***************************************************************************)
FullIsTemporary == slots = 0 ~> slots > 0
=============================================================================
