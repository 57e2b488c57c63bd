----------------------------- MODULE VoiceClient -----------------------------
(***************************************************************************)
(* The browser's side of a voice conversation: the page LiveVoiceSession   *)
(* (components/voice/LiveVoiceSession.tsx) and the WebRTCVoiceSession      *)
(* objects it makes (lib/voice/webrtc-voice-session.ts).                   *)
(*                                                                         *)
(* JavaScript runs one callback at a time, so a step is what runs between  *)
(* two awaits, or one event handler.  start() is suspended at one of four  *)
(* awaits while the page, the peer connection, the data channel and the    *)
(* expiry timer go on.  An object the page has dropped lives on as long as *)
(* a promise or a handler refers to it.                                    *)
(***************************************************************************)
EXTENDS Naturals

CONSTANTS
  Sessions,    \* the WebRTCVoiceSession objects the page may make
  NoSession    \* sessionRef.current is null

ASSUME SessionAssumption == NoSession \notin Sessions

VARIABLES
  session,     \* the fields of each object
  registered,  \* has the server made the object's session?
  told,        \* how often endSession was called for it
  open,        \* isOpen: the page is shown
  current,     \* sessionRef.current
  shown,       \* the page's copy of the status
  notice       \* the page shows an error message, with a retry button

voiceVars == <<session, registered, told, open, current, shown, notice>>

VoiceStatuses == {"idle", "requesting_permissions", "connecting", "listening",
             "speaking", "delegating", "error", "ended"}
Talking == {"listening", "speaking", "delegating"}
Over == {"ended", "error"}

(* Where start() is suspended; the last two are its beginning and its end. *)
Awaits == {"microphone", "offer", "create", "answer", "unstarted", "done"}

(* "closed": by the other side, dc still refers to it; "closing": by us,   *)
(* the close event is yet to come.                                         *)
Channels == {"none", "connecting", "open", "closed", "closing"}

Object == [status : VoiceStatuses, await : Awaits, microphone : BOOLEAN,
           peer : BOOLEAN, channel : Channels, timer : BOOLEAN, known : BOOLEAN]

VoiceTypeOK ==
  /\ session \in [Sessions -> Object]
  /\ registered \in [Sessions -> BOOLEAN]
  /\ told \in [Sessions -> Nat]
  /\ open \in BOOLEAN
  /\ current \in Sessions \union {NoSession}
  /\ shown \in VoiceStatuses
  /\ notice \in BOOLEAN

Fresh == [status |-> "idle", await |-> "unstarted", microphone |-> FALSE,
          peer |-> FALSE, channel |-> "none", timer |-> FALSE, known |-> FALSE]

VoiceInit ==
  /\ session = [s \in Sessions |-> Fresh]
  /\ registered = [s \in Sessions |-> FALSE]
  /\ told = [s \in Sessions |-> 0]
  /\ open = FALSE
  /\ current = NoSession
  /\ shown = "idle"
  /\ notice = FALSE

----------------------------------------------------------------------------
(* The methods of an object that run without awaiting *)

(* Faulty: the connection is closed, the microphone forgotten.             *)
CleanedButMicrophone(x) ==
  [x EXCEPT !.peer = FALSE, !.timer = FALSE,
            !.channel = IF @ \in {"connecting", "open"} THEN "closing" ELSE "none"]

Cleaned(x) ==
  [x EXCEPT !.microphone = FALSE, !.peer = FALSE, !.timer = FALSE,
            !.channel = IF @ \in {"connecting", "open"} THEN "closing" ELSE "none"]

(* stop() and handleSessionExpired() do the same to an object.             *)
Stopped(x) == IF x.status = "ended" THEN x ELSE [Cleaned(x) EXCEPT !.status = "ended"]

(* Faulty: stop() does not look whether the session is over already.       *)
TellsAlways(x) == x.known

(* ... and tell the server, if the object knows what to tell.              *)
Tells(x) == x.status # "ended" /\ x.known

StopCurrent ==
  [s \in Sessions |-> IF s = current THEN Stopped(session[s]) ELSE session[s]]

TellOfCurrent ==
  told' = [s \in Sessions |->
             IF s = current /\ Tells(session[s]) THEN told[s] + 1 ELSE told[s]]

(* The object changes and the page follows its status, whether or not the  *)
(* page still refers to the object.                                        *)
Becomes(s, x) ==
  /\ session' = [session EXCEPT ![s] = x]
  /\ shown' = x.status

(* Start's catch: an exception at whatever it awaited.                     *)
Failed(s) ==
  /\ Becomes(s, [Cleaned(session[s]) EXCEPT !.status = "error", !.await = "done"])
  /\ notice' = TRUE

----------------------------------------------------------------------------
(* start(), from one await to the next *)

Begun == [Fresh EXCEPT !.status = "requesting_permissions", !.await = "microphone"]

MicrophoneGranted(s) ==
  /\ session[s].await = "microphone"
  /\ Becomes(s, [session[s] EXCEPT !.status = "connecting", !.await = "offer",
                                   !.microphone = TRUE, !.peer = TRUE,
                                   !.channel = "connecting"])
  /\ UNCHANGED <<registered, told, open, current, notice>>

MicrophoneDenied(s) ==
  /\ session[s].await = "microphone"
  /\ Failed(s)
  /\ UNCHANGED <<registered, told, open, current>>

OfferMade(s) ==
  /\ session[s].await = "offer" /\ session[s].peer
  /\ session' = [session EXCEPT ![s].await = "create"]
  /\ UNCHANGED <<registered, told, open, current, shown, notice>>

(* POST /voice/session reaches the server.                                 *)
ServerRegisters(s) ==
  /\ session[s].await = "create" /\ ~registered[s]
  /\ registered' = [registered EXCEPT ![s] = TRUE]
  /\ UNCHANGED <<session, told, open, current, shown, notice>>

SessionCreated(s) ==
  /\ session[s].await = "create" /\ registered[s]
  /\ session' = [session EXCEPT ![s].await = "answer", ![s].known = TRUE]
  /\ UNCHANGED <<registered, told, open, current, shown, notice>>

(* Refused, or the answer is lost.                                         *)
CreateFails(s) ==
  /\ session[s].await = "create"
  /\ Failed(s)
  /\ UNCHANGED <<registered, told, open, current>>

(* Faulty: no deadline is set.                                             *)
AnswerAppliedNoTimer(s) ==
  /\ session[s].await = "answer" /\ session[s].peer
  /\ session' = [session EXCEPT ![s].await = "done"]
  /\ UNCHANGED <<registered, told, open, current, shown, notice>>

(* The last await; the deadline is set.                                    *)
AnswerApplied(s) ==
  /\ session[s].await = "answer" /\ session[s].peer
  /\ session' = [session EXCEPT ![s].await = "done", ![s].timer = TRUE]
  /\ UNCHANGED <<registered, told, open, current, shown, notice>>

(* A peer connection that is closed, by a stop in the meantime, rejects.   *)
NegotiationFails(s) ==
  /\ session[s].await \in {"offer", "answer"}
  /\ Failed(s)
  /\ UNCHANGED <<registered, told, open, current>>

----------------------------------------------------------------------------
(* Events of the connection *)

ChannelOpens(s) ==
  /\ session[s].channel = "connecting" /\ session[s].await = "done"
  /\ Becomes(s, [session[s] EXCEPT !.channel = "open", !.status = "listening"])
  /\ UNCHANGED <<registered, told, open, current, notice>>

(* dc.onclose; our own dc.close() may be reported late, or never.          *)
ChannelCloses(s) ==
  LET x == [session[s] EXCEPT !.channel = IF @ = "open" THEN "closed" ELSE "none"] IN
  /\ session[s].channel \in {"open", "closing"}
  /\ IF x.status = "ended"
       THEN session' = [session EXCEPT ![s] = x] /\ UNCHANGED shown
       ELSE Becomes(s, [x EXCEPT !.status = "ended"])
  /\ UNCHANGED <<registered, told, open, current, notice>>

(* handleRealtimeEvent, handleDelegatedToolCall and the level monitor      *)
Converse(s) ==
  /\ session[s].channel = "open"
  /\ \E v \in Talking : Becomes(s, [session[s] EXCEPT !.status = v])
  /\ UNCHANGED <<registered, told, open, current, notice>>

(* An "error" event: a message, and the conversation goes on.              *)
EngineError(s) ==
  /\ session[s].channel = "open"
  /\ notice' = TRUE
  /\ UNCHANGED <<session, registered, told, open, current, shown>>

ConnectionLost(s) ==
  /\ session[s].peer /\ session[s].await = "done"
  /\ Becomes(s, [Cleaned(session[s]) EXCEPT !.status = "error"])
  /\ notice' = TRUE
  /\ UNCHANGED <<registered, told, open, current>>

Expire(s) ==
  /\ session[s].timer
  /\ IF session[s].status = "ended"
       THEN /\ session' = [session EXCEPT ![s].timer = FALSE]
            /\ UNCHANGED <<told, shown, notice>>
       ELSE /\ Becomes(s, Stopped(session[s]))
            /\ told' = [told EXCEPT ![s] = IF Tells(session[s]) THEN @ + 1 ELSE @]
            /\ notice' = TRUE
  /\ UNCHANGED <<registered, open, current>>

----------------------------------------------------------------------------
(* The page *)

(* handleStartSession: a new object takes the place of the current one.    *)
Begin(s, objects) ==
  /\ session[s].await = "unstarted"
  /\ session' = [objects EXCEPT ![s] = Begun]
  /\ current' = s
  /\ shown' = "requesting_permissions"
  /\ notice' = FALSE

Open(s) ==
  /\ ~open
  /\ open' = TRUE
  /\ Begin(s, session)
  /\ UNCHANGED <<registered, told>>

(* The button beside the message; nothing is stopped.                      *)
Retry(s) ==
  /\ open /\ notice
  /\ Begin(s, session)
  /\ UNCHANGED <<registered, told, open>>

ChangeThread(s) ==
  /\ open
  /\ Begin(s, StopCurrent)
  /\ TellOfCurrent
  /\ UNCHANGED <<registered, open>>

(* The end button, Escape, or the page is left.                            *)
Close ==
  /\ open
  /\ open' = FALSE
  /\ session' = StopCurrent
  /\ TellOfCurrent
  /\ current' = NoSession
  /\ shown' = "idle"
  /\ UNCHANGED <<registered, notice>>

(* The page counts 900 seconds of talk; start() does not take as long.     *)
TalkedOut ==
  /\ open /\ shown \in Talking
  /\ current # NoSession /\ session[current].await = "done"
  /\ session' = StopCurrent
  /\ TellOfCurrent
  /\ shown' = "ended"
  /\ notice' = TRUE
  /\ UNCHANGED <<registered, open, current>>

----------------------------------------------------------------------------

Starting(s) ==
  \/ MicrophoneGranted(s) \/ MicrophoneDenied(s) \/ OfferMade(s)
  \/ ServerRegisters(s) \/ SessionCreated(s) \/ CreateFails(s)
  \/ AnswerApplied(s) \/ NegotiationFails(s)

Event(s) ==
  \/ ChannelOpens(s) \/ ChannelCloses(s) \/ Converse(s) \/ EngineError(s)
  \/ ConnectionLost(s) \/ Expire(s)

Page(s) == Open(s) \/ Retry(s) \/ ChangeThread(s)

VoiceNext ==
  \/ \E s \in Sessions : Starting(s) \/ Event(s) \/ Page(s)
  \/ Close
  \/ TalkedOut

VoiceSpec == VoiceInit /\ [][VoiceNext]_voiceVars

(* Promises of an open connection and requests settle; timers fire.        *)
VoiceFairness ==
  \A s \in Sessions : WF_voiceVars(Starting(s)) /\ WF_voiceVars(Expire(s))

FairVoiceSpec == VoiceSpec /\ VoiceFairness

----------------------------------------------------------------------------
(* Properties *)

(* The server is told of the end of a session at most once, whoever of     *)
(* stop, the deadline and a failure of start ends it first.                *)
ToldAtMostOnce == \A s \in Sessions : told[s] <= 1

(* An object that is over, but for one whose channel the other side closed,*)
(* holds neither the microphone nor a connection.                          *)
OverMeansReleased ==
  \A s \in Sessions :
    session[s].status \in Over /\ session[s].channel # "closed"
      => ~session[s].microphone /\ ~session[s].peer /\ ~session[s].timer

(* Even a conversation nobody can stop any more - the page dropped it, or  *)
(* replaced it - lets go of the microphone in the end, by its deadline,    *)
(* unless the other side closes its channel.                               *)
MicrophoneIsReleased ==
  \A s \in Sessions :
    session[s].microphone ~> \/ ~session[s].microphone
                             \/ session[s].channel = "closed"

(* A page that is closed does not listen.                                  *)
ClosedPageIsDeaf == ~open => \A s \in Sessions : ~session[s].microphone
============================================================================
