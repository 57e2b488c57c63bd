--------------------------- MODULE PilotOnboarding ---------------------------
(***************************************************************************)
(* The lifecycle of a university's pilot (pilot_onboarding/): the phase    *)
(* graph and its gates (state_machine.py), and the service that moves a    *)
(* pilot along it (service.py, transition_pilot).                          *)
(*                                                                         *)
(* A transition is several requests to the database and to the             *)
(* university's system: it reads the pilot, then whatever its gate depends *)
(* on, one source after the other, and then writes the status, whatever    *)
(* the status has become.  A source the gate of the target does not look   *)
(* at is not read here.                                                    *)
(*                                                                         *)
(* What a gate looks at is a set of facts about the pilot; somebody makes  *)
(* each of them true, or untrue again, at any time.                        *)
(***************************************************************************)
EXTENDS Naturals, FiniteSets

CONSTANTS
  Admins,      \* who may ask for a transition
  Varying      \* the facts that change; the others always hold

VARIABLES
  status,      \* university_pilots.status
  facts,       \* what holds of the pilot
  work,        \* the transition each administrator's request is in
  entered,     \* history: the decisive phases the pilot has ever been in
  held         \* history: the facts that ever held

pilotVars == <<status, facts, work, entered, held>>

Halts == {"BLOCKED", "SUSPENDED", "CANCELLED"}

Track == {"DRAFT", "DISCOVERY", "WAITING_FOR_UNIVERSITY_IT",
          "TECHNICAL_REQUIREMENTS_RECEIVED", "SANDBOX_PREPARATION",
          "IDENTITY_CONFIGURATION", "ACADEMIC_MAPPING", "SECURITY_REVIEW",
          "TECHNICAL_VALIDATION", "READ_ONLY_PILOT_READY", "READ_ONLY_PILOT_ACTIVE",
          "READ_ONLY_PILOT_ACCEPTANCE", "ACCEPTED", "WRITE_PILOT_REVIEW",
          "WRITE_ENABLED_PILOT_READY", "GO_LIVE_REVIEW"}

PilotStatuses == Track \union Halts
Decisive == {"ACCEPTED", "WRITE_ENABLED_PILOT_READY"}

(* What a gate reads, in the order the service reads it: the pilot, its    *)
(* requirements, blockers, checks and sign-offs, the scorecard of the      *)
(* university's system, its capabilities, and the sign-offs once more.     *)
Sources == 1 .. 8

FactsOf(source) ==
  CASE source = 1 -> {"intake", "write_mode"}
    [] source = 2 -> {"received", "validated"}
    [] source = 3 -> {"no_sev1", "no_sev2"}
    [] source = 4 -> {"checks_pass"}
    [] source = 5 -> {"technical_signed", "academic_signed"}
    [] source = 6 -> {"mapped", "ready"}
    [] source = 7 -> {"capable"}
    [] source = 8 -> {"platform_signed"}

Facts == UNION {FactsOf(x) : x \in Sources}

Scorecard == 6

NoWork == [target |-> "DRAFT", left |-> {}, active |-> FALSE]

Work == [target : PilotStatuses, left : SUBSET Sources, active : BOOLEAN]

PilotTypeOK ==
  /\ status \in PilotStatuses
  /\ facts \subseteq Facts
  /\ work \in [Admins -> Work]
  /\ entered \subseteq Decisive
  /\ held \subseteq Facts

PilotInit ==
  /\ status = "DRAFT"
  /\ facts = Facts \ Varying
  /\ work = [a \in Admins |-> NoWork]
  /\ entered = {}
  /\ held = facts

----------------------------------------------------------------------------
(* state_machine.py *)

(* One phase on, where there is only one.                                  *)
Following ==
  [DRAFT |-> "DISCOVERY", DISCOVERY |-> "WAITING_FOR_UNIVERSITY_IT",
   WAITING_FOR_UNIVERSITY_IT |-> "TECHNICAL_REQUIREMENTS_RECEIVED",
   TECHNICAL_REQUIREMENTS_RECEIVED |-> "SANDBOX_PREPARATION",
   SANDBOX_PREPARATION |-> "IDENTITY_CONFIGURATION",
   IDENTITY_CONFIGURATION |-> "ACADEMIC_MAPPING",
   ACADEMIC_MAPPING |-> "SECURITY_REVIEW",
   SECURITY_REVIEW |-> "TECHNICAL_VALIDATION",
   TECHNICAL_VALIDATION |-> "READ_ONLY_PILOT_READY",
   READ_ONLY_PILOT_READY |-> "READ_ONLY_PILOT_ACTIVE",
   READ_ONLY_PILOT_ACTIVE |-> "READ_ONLY_PILOT_ACCEPTANCE",
   READ_ONLY_PILOT_ACCEPTANCE |-> "ACCEPTED"]

(* Where a pilot may go on after a halt.                                   *)
Resumable == (Track \ {"DRAFT", "GO_LIVE_REVIEW"})

(* Faulty: a suspended pilot may go on anywhere.                           *)
AllowedAnywhere(s) ==
  CASE s = "CANCELLED"                 -> {}
    [] s = "SUSPENDED"                 -> Track \union {"CANCELLED"}
    [] s = "BLOCKED"                   -> (Resumable \ Decisive) \union {"CANCELLED"}
    [] s = "DRAFT"                     -> {"DISCOVERY", "CANCELLED"}
    [] s = "ACCEPTED"                  -> {"WRITE_PILOT_REVIEW", "GO_LIVE_REVIEW",
                                           "SUSPENDED", "CANCELLED"}
    [] s = "WRITE_PILOT_REVIEW"        -> Decisive \union Halts
    [] s = "WRITE_ENABLED_PILOT_READY" -> {"GO_LIVE_REVIEW", "SUSPENDED", "CANCELLED"}
    [] s = "GO_LIVE_REVIEW"            -> {"ACCEPTED", "SUSPENDED", "CANCELLED"}
    [] OTHER                           -> {Following[s]} \union Halts

Allowed(s) ==
  CASE s = "CANCELLED"                 -> {}
    [] s = "SUSPENDED"                 -> Resumable \union {"CANCELLED"}
    [] s = "BLOCKED"                   -> (Resumable \ Decisive) \union {"CANCELLED"}
    [] s = "DRAFT"                     -> {"DISCOVERY", "CANCELLED"}
    [] s = "ACCEPTED"                  -> {"WRITE_PILOT_REVIEW", "GO_LIVE_REVIEW",
                                           "SUSPENDED", "CANCELLED"}
    [] s = "WRITE_PILOT_REVIEW"        -> Decisive \union Halts
    [] s = "WRITE_ENABLED_PILOT_READY" -> {"GO_LIVE_REVIEW", "SUSPENDED", "CANCELLED"}
    [] s = "GO_LIVE_REVIEW"            -> {"ACCEPTED", "SUSPENDED", "CANCELLED"}
    [] OTHER                           -> {Following[s]} \union Halts

(* The gate of a phase: what it needs, beside the absence of a critical    *)
(* blocker that every phase but a halt needs.                              *)
GateOf(target) ==
  CASE target = "WAITING_FOR_UNIVERSITY_IT"       -> {"intake"}
    [] target = "TECHNICAL_REQUIREMENTS_RECEIVED" -> {"received"}
    [] target = "SECURITY_REVIEW"                 -> {"mapped"}
    [] target = "READ_ONLY_PILOT_READY"           -> {"ready", "validated"}
    [] target = "ACCEPTED" -> {"checks_pass", "no_sev2", "technical_signed",
                               "academic_signed"}
    [] target = "WRITE_ENABLED_PILOT_READY" -> {"write_mode", "capable", "platform_signed"}
    [] OTHER -> {}

Needs(target) == IF target \in Halts THEN {} ELSE GateOf(target) \union {"no_sev1"}

(* A transition to the phase it sees is none, and meets no gate.           *)
NeedsFrom(seen, target) == IF target = seen THEN {} ELSE Needs(target)

----------------------------------------------------------------------------
(* service.py *)

NeededFor(a, source) == Needs(work[a].target) \intersect FactsOf(source)

(* transition_pilot reads the pilot.                                       *)
BeginTransition(a, target) ==
  LET needs == NeedsFrom(status, target) IN
  /\ ~work[a].active
  /\ target \in Allowed(status) \union {status}
  /\ needs \intersect FactsOf(1) \subseteq facts
  /\ work' = [work EXCEPT ![a] =
       [target |-> target, active |-> TRUE,
        left |-> {x \in Sources \ {1} : FactsOf(x) \intersect needs # {}}]]
  /\ UNCHANGED <<status, facts, entered, held>>

NextSource(a) == CHOOSE x \in work[a].left : \A y \in work[a].left : x <= y

(* The next source; a gate that does not hold fails the request.  What the *)
(* scorecard would say counts as good if it cannot be queried.             *)
Read(a) ==
  /\ work[a].left # {}
  /\ LET x == NextSource(a) IN
     \/ /\ NeededFor(a, x) \subseteq facts \/ x = Scorecard
        /\ work' = [work EXCEPT ![a].left = @ \ {x}]
     \/ /\ ~(NeededFor(a, x) \subseteq facts)
        /\ work' = [work EXCEPT ![a] = NoWork]
  /\ UNCHANGED <<status, facts, entered, held>>

(* Faulty: the status is written after the first source that was read.     *)
WriteEarly(a) ==
  /\ work[a].active
  /\ Cardinality(work[a].left) <= 1
  /\ status' = work[a].target
  /\ entered' = entered \union ({work[a].target} \intersect Decisive)
  /\ work' = [work EXCEPT ![a] = NoWork]
  /\ UNCHANGED <<facts, held>>

Write(a) ==
  /\ work[a].active
  /\ work[a].left = {}
  /\ status' = work[a].target
  /\ entered' = entered \union ({work[a].target} \intersect Decisive)
  /\ work' = [work EXCEPT ![a] = NoWork]
  /\ UNCHANGED <<facts, held>>

(* A request fails on its way, or the process stops.                       *)
Abandon(a) ==
  /\ work[a].active
  /\ work' = [work EXCEPT ![a] = NoWork]
  /\ UNCHANGED <<status, facts, entered, held>>

(* The intake is filled in, a requirement updated, a blocker raised or     *)
(* resolved, a check evaluated, a sign-off recorded, the mode changed, ... *)
Change(fact) ==
  /\ facts' = IF fact \in facts THEN facts \ {fact} ELSE facts \union {fact}
  /\ held' = held \union facts'
  /\ UNCHANGED <<status, work, entered>>

PilotNext ==
  \/ \E a \in Admins, target \in PilotStatuses : BeginTransition(a, target)
  \/ \E a \in Admins : Read(a) \/ Write(a) \/ Abandon(a)
  \/ \E fact \in Varying : Change(fact)

PilotSpec == PilotInit /\ [][PilotNext]_pilotVars

----------------------------------------------------------------------------
(* Properties *)

(* No chain of halts, resumptions and concurrent transitions brings a      *)
(* pilot to its go-live review that was never accepted nor ready to write. *)
GoLiveWasGated == status = "GO_LIVE_REVIEW" => entered # {}

(* A pilot that was accepted, or made ready to write, met every condition  *)
(* of the gate at some time, though perhaps never all of them at once.     *)
DecisionsWereEarned == \A p \in entered : Needs(p) \subseteq held
============================================================================
