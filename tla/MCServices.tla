----------------------------- MODULE MCServices -----------------------------
(* Small instances, for TLC, of four parts that share no state: the voice  *)
(* client, the university's events, pilot onboarding and degree paths.     *)
(* A behaviour is one of a single part; the others stay as they begin.     *)
EXTENDS VoiceClient, UniversityEvents, PilotOnboarding, DegreePath, TLC

CONSTANTS Parts
CONSTANTS e1, e2, e3, g1, g2
CONSTANTS ca, cb, cp, ea, eb, eu, fa, required, elective, free, project

VARIABLE part

\* Two versions of one aggregate, and an event of another.
EventAggregate == e1 :> g1 @@ e2 :> g1 @@ e3 :> g2
EventVersion == e1 :> 1 @@ e2 :> 2 @@ e3 :> 1
EventId == e1 :> 1 @@ e2 :> 2 @@ e3 :> 3
\* e3 comes with the idempotency key of e1.
EventKey == e1 :> 1 @@ e2 :> 2 @@ e3 :> 1

\* ca opens cb; eb and cp need another elective, and cp, a project, two hours.
\* With eu passed, either of ea and eb counts in full, but not both.
CourseGroup == ca :> required @@ cb :> required @@ cp :> project @@
               ea :> elective @@ eb :> elective @@ eu :> elective @@ fa :> free
CourseHours == ca :> 4 @@ cb :> 0 @@ cp :> 6 @@ ea :> 3 @@ eb :> 2 @@ eu :> 2 @@ fa :> 3
GroupHours == required :> 4 @@ elective :> 5 @@ free :> 3 @@ project :> 6
CourseOptions == ca :> {} @@ cb :> {{ca}} @@ cp :> {{cb}, {ea, fa}} @@
                 ea :> {} @@ eb :> {{ea, fa}} @@ eu :> {} @@ fa :> {}
CourseOrder == ca :> 1 @@ cb :> 2 @@ cp :> 3 @@ ea :> 4 @@ eb :> 5 @@ eu :> 6 @@ fa :> 7

vars == <<part, voiceVars, liveVars, pilotVars, pathVars>>

Init ==
  /\ part \in Parts
  /\ VoiceInit /\ LiveInit /\ PilotInit /\ PathInit
  /\ part # "path" => passed = Courses /\ limit = 16 /\ strategy = "FASTEST"
  \* Bound of the instance: what is taken now is one of three sets.
  /\ enrolled \in {{}, {eb}, {ca, eu}}

Next ==
  \/ part = "voice" /\ VoiceNext /\ UNCHANGED <<part, liveVars, pilotVars, pathVars>>
  \/ part = "live" /\ LiveNext /\ UNCHANGED <<part, voiceVars, pilotVars, pathVars>>
  \/ part = "pilot" /\ PilotNext /\ UNCHANGED <<part, voiceVars, liveVars, pathVars>>
  \/ part = "path" /\ PathNext /\ UNCHANGED <<part, voiceVars, liveVars, pilotVars>>

Spec == Init /\ [][Next]_vars

FairSpec == Spec /\ VoiceFairness /\ LiveFairness

TypeOK == VoiceTypeOK /\ LiveTypeOK /\ PilotTypeOK /\ PathTypeOK
============================================================================
