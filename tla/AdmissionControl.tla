-------------------------- MODULE AdmissionControl --------------------------
(***************************************************************************)
(* What the academic-compute limiter promises to the rest of the API, with *)
(* no event loop, thread or semaphore in sight: at most Capacity           *)
(* calculations hold a place at a time, a call that finds every place      *)
(* taken is refused at once, and a refusal never happens while a place is  *)
(* free.  AcademicCompute is shown to implement it.                        *)
(***************************************************************************)
EXTENDS Naturals, FiniteSets

CONSTANTS Calls,      \* the calls of AcademicComputeLimiter.run
          Capacity    \* academic_compute_max_concurrent

VARIABLES holders,    \* calls whose calculation holds a place
          refused     \* calls answered "capacity is busy"

vars == <<holders, refused>>

TypeOK == holders \subseteq Calls /\ refused \subseteq Calls

Init == holders = {} /\ refused = {}

Admit(c) == /\ c \notin holders \cup refused
            /\ Cardinality(holders) < Capacity
            /\ holders' = holders \cup {c}
            /\ UNCHANGED refused

Refuse(c) == /\ c \notin holders \cup refused
             /\ Cardinality(holders) = Capacity
             /\ refused' = refused \cup {c}
             /\ UNCHANGED holders

Leave(c) == /\ c \in holders
            /\ holders' = holders \ {c}
            /\ UNCHANGED refused

Next == \E c \in Calls : Admit(c) \/ Refuse(c) \/ Leave(c)

Spec == Init /\ [][Next]_vars
=============================================================================
