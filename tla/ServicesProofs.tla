---------------------------- MODULE ServicesProofs ----------------------------
(***************************************************************************)
(* Two parts.  The first is the safety of the pilots' lifecycle for any    *)
(* number of administrators and any facts that vary.  A request under way  *)
(* knows of every source it has read that the gate's conditions held at    *)
(* some time (Gathered); a request for the go-live review began when the   *)
(* pilot was in a decisive phase (Approached).                             *)
(*                                                                         *)
(* The second is about MCServices, which runs four parts as one            *)
(* specification: each part behaves there as it does alone, so that what   *)
(* is proved of a part holds in the composition.                           *)
(***************************************************************************)
EXTENDS MCServices, VoiceClientProofs, UniversityEventsProofs, DegreePathProofs

----------------------------------------------------------------------------
(* Pilot onboarding *)

Gathered(a) ==
  work[a].active /\ work[a].target \in Decisive =>
    \A x \in Sources \ work[a].left : Needs(work[a].target) \intersect FactsOf(x) \subseteq held

Approached(a) ==
  work[a].active /\ work[a].target = "GO_LIVE_REVIEW" => entered # {}

PilotInv ==
  /\ PilotTypeOK
  /\ facts \subseteq held
  /\ status \in Decisive => status \in entered
  /\ GoLiveWasGated
  /\ DecisionsWereEarned
  /\ \A a \in Admins : Gathered(a) /\ Approached(a)

----------------------------------------------------------------------------
(* The graph and the gates *)

(* Only a decisive phase leads to the go-live review.                      *)
LEMMA GoLiveFromDecisive ==
  ASSUME NEW s \in PilotStatuses, "GO_LIVE_REVIEW" \in Allowed(s)
  PROVE  s \in Decisive
  <1>1. s \in DOMAIN Following \/ s \in {"ACCEPTED", "WRITE_PILOT_REVIEW",
          "WRITE_ENABLED_PILOT_READY", "GO_LIVE_REVIEW", "BLOCKED", "SUSPENDED", "CANCELLED"}
    BY DEF PilotStatuses, Track, Halts, Following
  <1>2. CASE s \in DOMAIN Following
    BY <1>2 DEF Allowed, Following, Decisive, Halts, Resumable, Track
  <1>3. CASE s \in {"ACCEPTED", "WRITE_PILOT_REVIEW", "WRITE_ENABLED_PILOT_READY",
                    "GO_LIVE_REVIEW", "BLOCKED", "SUSPENDED", "CANCELLED"}
    BY <1>3 DEF Allowed, Decisive, Halts, Resumable, Track
  <1> QED
    BY <1>1, <1>2, <1>3

(* What a decisive gate looks at; the scorecard is none of it.             *)
LEMMA DecisiveNeeds ==
  ASSUME NEW p \in Decisive
  PROVE  /\ \A f \in Needs(p) : \E x \in Sources \ {Scorecard} : f \in FactsOf(x)
         /\ Needs(p) \intersect FactsOf(Scorecard) = {}
  <1>1. /\ FactsOf(1) = {"intake", "write_mode"} /\ FactsOf(3) = {"no_sev1", "no_sev2"}
        /\ FactsOf(4) = {"checks_pass"} /\ FactsOf(5) = {"technical_signed", "academic_signed"}
        /\ FactsOf(6) = {"mapped", "ready"}
        /\ FactsOf(7) = {"capable"} /\ FactsOf(8) = {"platform_signed"}
    BY DEF FactsOf
  <1>2. /\ 1 \in Sources /\ 3 \in Sources /\ 4 \in Sources /\ 5 \in Sources
        /\ 7 \in Sources /\ 8 \in Sources /\ Scorecard = 6
    BY DEF Sources, Scorecard
  <1>3. CASE p = "ACCEPTED"
    <2>1. Needs(p) = {"checks_pass", "no_sev2", "technical_signed", "academic_signed", "no_sev1"}
      BY <1>3 DEF Needs, GateOf, Halts
    <2> QED
      BY <1>1, <1>2, <2>1
  <1>4. CASE p = "WRITE_ENABLED_PILOT_READY"
    <2>1. Needs(p) = {"write_mode", "capable", "platform_signed", "no_sev1"}
      BY <1>4 DEF Needs, GateOf, Halts
    <2> QED
      BY <1>1, <1>2, <2>1
  <1> QED
    BY <1>3, <1>4 DEF Decisive

----------------------------------------------------------------------------
(* The steps *)

LEMMA BeginStep ==
  ASSUME PilotInv, NEW a \in Admins, NEW target \in PilotStatuses, BeginTransition(a, target)
  PROVE  PilotInv'
  <1> DEFINE needs == NeedsFrom(status, target)
             w == [target |-> target, active |-> TRUE,
                   left |-> {x \in Sources \ {1} : FactsOf(x) \intersect needs # {}}]
  <1>1. /\ target \in Allowed(status) \union {status}
        /\ needs \intersect FactsOf(1) \subseteq facts
        /\ work' = [work EXCEPT ![a] = w]
        /\ UNCHANGED <<status, facts, entered, held>>
    BY DEF BeginTransition
  <1>2. w \in Work
    BY DEF Work
  <1>3. work'[a] = w /\ \A b \in Admins \ {a} : work'[b] = work[b]
    BY <1>1 DEF PilotInv, PilotTypeOK
  <1>4. PilotTypeOK'
    BY <1>1, <1>2 DEF PilotInv, PilotTypeOK
  <1>5. Approached(a)'
    <2>1. ASSUME target = "GO_LIVE_REVIEW" PROVE entered # {}
      BY <1>1, <2>1, GoLiveFromDecisive DEF PilotInv, PilotTypeOK, GoLiveWasGated
    <2> QED
      BY <1>1, <1>3, <2>1 DEF Approached
  <1>6. Gathered(a)'
    <2> SUFFICES ASSUME target \in Decisive, NEW x \in Sources \ w.left
                 PROVE  Needs(target) \intersect FactsOf(x) \subseteq held
      BY <1>1, <1>3 DEF Gathered
    <2>1. CASE target = status
      BY <2>1 DEF PilotInv, DecisionsWereEarned
    <2>2. CASE target # status
      <3>1. needs = Needs(target)
        BY <2>2 DEF NeedsFrom
      <3>2. CASE x = 1
        BY <1>1, <3>1, <3>2 DEF PilotInv
      <3>3. CASE x # 1
        BY <3>1, <3>3
      <3> QED
        BY <3>2, <3>3
    <2> QED
      BY <2>1, <2>2
  <1>7. \A b \in Admins \ {a} : Gathered(b)' /\ Approached(b)'
    BY <1>1, <1>3 DEF PilotInv, Gathered, Approached
  <1> QED
    BY <1>1, <1>4, <1>5, <1>6, <1>7 DEF PilotInv, GoLiveWasGated, DecisionsWereEarned

LEMMA NoWorkStep ==
  ASSUME PilotInv, NEW a \in Admins, work' = [work EXCEPT ![a] = NoWork],
         UNCHANGED <<status, facts, entered, held>>
  PROVE  PilotInv'
  <1>1. NoWork \in Work
    BY DEF NoWork, Work, PilotStatuses, Track
  <1>2. work'[a] = NoWork /\ \A b \in Admins \ {a} : work'[b] = work[b]
    BY DEF PilotInv, PilotTypeOK
  <1>3. PilotTypeOK'
    BY <1>1 DEF PilotInv, PilotTypeOK
  <1>4. \A b \in Admins : Gathered(b)' /\ Approached(b)'
    BY <1>2 DEF PilotInv, Gathered, Approached, NoWork
  <1> QED
    BY <1>3, <1>4 DEF PilotInv, GoLiveWasGated, DecisionsWereEarned

LEMMA PilotReadStep ==
  ASSUME PilotInv, NEW a \in Admins, Read(a)
  PROVE  PilotInv'
  <1> DEFINE x == NextSource(a)
  <1>0. UNCHANGED <<status, facts, entered, held>>
    BY DEF Read
  <1>1. CASE work' = [work EXCEPT ![a] = NoWork]
    BY <1>0, <1>1, NoWorkStep
  <1>2. CASE /\ NeededFor(a, x) \subseteq facts \/ x = Scorecard
             /\ work' = [work EXCEPT ![a].left = @ \ {x}]
    <2> DEFINE w == [work[a] EXCEPT !.left = @ \ {x}]
    <2>1. /\ w \in Work /\ w.target = work[a].target /\ w.active = work[a].active
          /\ w.left = work[a].left \ {x}
      BY DEF PilotInv, PilotTypeOK, Work
    <2>2. work' = [work EXCEPT ![a] = w]
      BY <1>2 DEF PilotInv, PilotTypeOK
    <2> HIDE DEF w, x
    <2>3. work'[a] = w /\ \A b \in Admins \ {a} : work'[b] = work[b]
      BY <2>2 DEF PilotInv, PilotTypeOK
    <2>4. PilotTypeOK'
      BY <1>0, <2>1, <2>2 DEF PilotInv, PilotTypeOK
    <2>5. Approached(a)'
      BY <1>0, <2>1, <2>3 DEF PilotInv, Approached
    <2>6. Gathered(a)'
      <3> SUFFICES ASSUME work[a].active, work[a].target \in Decisive,
                          NEW y \in Sources \ w.left
                   PROVE  Needs(work[a].target) \intersect FactsOf(y) \subseteq held
        BY <1>0, <2>1, <2>3 DEF Gathered
      <3>1. CASE y = x
        BY <1>2, <3>1, DecisiveNeeds DEF PilotInv, NeededFor
      <3>2. CASE y # x
        BY <2>1, <3>2 DEF PilotInv, Gathered
      <3> QED
        BY <3>1, <3>2
    <2>7. \A b \in Admins \ {a} : Gathered(b)' /\ Approached(b)'
      BY <1>0, <2>3 DEF PilotInv, Gathered, Approached
    <2> QED
      BY <1>0, <2>4, <2>5, <2>6, <2>7 DEF PilotInv, GoLiveWasGated, DecisionsWereEarned
  <1> QED
    BY <1>1, <1>2 DEF Read

LEMMA PilotWriteStep ==
  ASSUME PilotInv, NEW a \in Admins, Write(a)
  PROVE  PilotInv'
  <1> DEFINE p == work[a].target
  <1>1. /\ work[a].active /\ work[a].left = {} /\ status' = p
        /\ entered' = entered \union ({p} \intersect Decisive)
        /\ work' = [work EXCEPT ![a] = NoWork]
        /\ UNCHANGED <<facts, held>>
    BY DEF Write
  <1>2. p \in PilotStatuses /\ NoWork \in Work
    BY DEF PilotInv, PilotTypeOK, Work, NoWork, PilotStatuses, Track
  <1>3. work'[a] = NoWork /\ \A b \in Admins \ {a} : work'[b] = work[b]
    BY <1>1 DEF PilotInv, PilotTypeOK
  <1>4. PilotTypeOK'
    BY <1>1, <1>2 DEF PilotInv, PilotTypeOK
  <1>5. p \in Decisive => Needs(p) \subseteq held
    <2> SUFFICES ASSUME p \in Decisive, NEW f \in Needs(p) PROVE f \in held
      OBVIOUS
    <2>1. PICK x \in Sources : f \in FactsOf(x)
      BY DecisiveNeeds
    <2> QED
      BY <1>1, <2>1 DEF PilotInv, Gathered
  <1>6. DecisionsWereEarned'
    BY <1>1, <1>5 DEF PilotInv, DecisionsWereEarned
  <1>7. GoLiveWasGated'
    BY <1>1 DEF PilotInv, GoLiveWasGated, Approached
  <1>8. status' \in Decisive => status' \in entered'
    BY <1>1
  <1>9. \A b \in Admins : Gathered(b)' /\ Approached(b)'
    BY <1>1, <1>3 DEF PilotInv, Gathered, Approached, NoWork
  <1> QED
    BY <1>1, <1>4, <1>6, <1>7, <1>8, <1>9 DEF PilotInv

LEMMA ChangeStep ==
  ASSUME Varying \subseteq Facts, PilotInv, NEW fact \in Varying, Change(fact)
  PROVE  PilotInv'
  <1>1. /\ facts' \subseteq Facts /\ facts' \subseteq held'
        /\ held \subseteq held' /\ held' \subseteq Facts
        /\ UNCHANGED <<status, work, entered>>
    BY DEF Change, PilotInv, PilotTypeOK
  <1>2. PilotTypeOK'
    BY <1>1 DEF PilotInv, PilotTypeOK
  <1>3. DecisionsWereEarned' /\ GoLiveWasGated'
    BY <1>1 DEF PilotInv, DecisionsWereEarned, GoLiveWasGated
  <1>4. \A b \in Admins : Gathered(b)' /\ Approached(b)'
    BY <1>1 DEF PilotInv, Gathered, Approached
  <1> QED
    BY <1>1, <1>2, <1>3, <1>4 DEF PilotInv

----------------------------------------------------------------------------
(* The theorems *)

(* The inductive invariant: what each request under way has found to hold, *)
(* and the phases the pilot has been in.                                   *)
THEOREM PilotInvariance ==
  ASSUME Varying \subseteq Facts
  PROVE  PilotSpec => []PilotInv
  <1>1. PilotInit => PilotInv
    <2> SUFFICES ASSUME PilotInit PROVE PilotInv
      OBVIOUS
    <2>1. NoWork \in Work /\ "DRAFT" \in PilotStatuses /\ ~NoWork.active
      BY DEF NoWork, Work, PilotStatuses, Track
    <2>2. PilotTypeOK
      BY <2>1 DEF PilotInit, PilotTypeOK
    <2>3. \A a \in Admins : Gathered(a) /\ Approached(a)
      BY <2>1 DEF PilotInit, Gathered, Approached
    <2> QED
      BY <2>2, <2>3 DEF PilotInit, PilotInv, GoLiveWasGated, DecisionsWereEarned, Decisive
  <1>2. PilotInv /\ [PilotNext]_pilotVars => PilotInv'
    <2> SUFFICES ASSUME PilotInv, [PilotNext]_pilotVars PROVE PilotInv'
      OBVIOUS
    <2>1. CASE UNCHANGED pilotVars
      BY <2>1 DEF pilotVars, PilotInv, PilotTypeOK, GoLiveWasGated, DecisionsWereEarned, Gathered, Approached
    <2>2. ASSUME NEW a \in Admins, Abandon(a) PROVE PilotInv'
      BY <2>2, NoWorkStep DEF Abandon
    <2>3. CASE PilotNext
      BY <2>2, <2>3, BeginStep, PilotReadStep, PilotWriteStep, ChangeStep DEF PilotNext
    <2> QED
      BY <2>1, <2>3
  <1> QED
    BY <1>1, <1>2, PTL DEF PilotSpec

(* Type correctness, for any number of administrators.                     *)
THEOREM PilotTypeCorrect ==
  ASSUME Varying \subseteq Facts
  PROVE  PilotSpec => []PilotTypeOK
  BY PilotInvariance, PTL DEF PilotInv

(* A pilot in go-live review was accepted, or ready to write, before.      *)
THEOREM GoLiveIsGated ==
  ASSUME Varying \subseteq Facts
  PROVE  PilotSpec => []GoLiveWasGated
  BY PilotInvariance, PTL DEF PilotInv

(* A decisive phase was entered only by a pilot that met every condition   *)
(* of its gate at some time.                                               *)
THEOREM DecisionsAreEarned ==
  ASSUME Varying \subseteq Facts
  PROVE  PilotSpec => []DecisionsWereEarned
  BY PilotInvariance, PTL DEF PilotInv

----------------------------------------------------------------------------
(* The composition *)

(* Every behaviour of the four parts together is, for each part, one of    *)
(* that part alone: a step of another part leaves it as it is.             *)
THEOREM PartsBehave ==
  Spec => VoiceSpec /\ LiveSpec /\ PilotSpec /\ PathSpec
<1>1. Init => VoiceInit /\ LiveInit /\ PilotInit /\ PathInit
  BY DEF Init
<1>2. [Next]_vars => /\ [VoiceNext]_voiceVars /\ [LiveNext]_liveVars
                     /\ [PilotNext]_pilotVars /\ [PathNext]_pathVars
  BY DEF Next, vars
<1> QED
  BY <1>1, <1>2, PTL DEF Spec, VoiceSpec, LiveSpec, PilotSpec, PathSpec

(* Every variable of the four parts keeps its type, for any number of      *)
(* session objects, handlers, events, administrators and courses.          *)
THEOREM ServicesTypeCorrect ==
  ASSUME Varying \subseteq Facts
  PROVE  Spec => []TypeOK
<1>1. Spec => []VoiceTypeOK /\ []LiveTypeOK /\ []PathTypeOK
  BY PartsBehave, VoiceTypeCorrect, LiveTypeCorrect, PathTypeCorrect
<1>2. Spec => []PilotTypeOK
  BY PartsBehave, PilotTypeCorrect
<1> QED
  BY <1>1, <1>2, PTL DEF TypeOK
============================================================================
