-------------------------- MODULE VoiceClientProofs --------------------------
(***************************************************************************)
(* Safety of the browser's voice sessions for any number of them.          *)
(*                                                                         *)
(* Two facts carry the proof.  What Cleaned leaves cannot be undone by a   *)
(* callback that comes late: the peer is gone, so start() cannot set the   *)
(* deadline any more (ObjectInv).  And whoever told the server of the end  *)
(* of a session leaves nobody who could tell it again: no deadline, and    *)
(* either the page has moved on, or the session is over for good and       *)
(* start() has returned (ToldInv).                                         *)
(***************************************************************************)
EXTENDS VoiceClient, TLAPS

Released(x) == ~x.microphone /\ ~x.peer /\ ~x.timer

(* One object, whatever the page and the server do.                        *)
Sound(x) ==
  /\ x.await \in {"unstarted", "microphone"} => Released(x) /\ x.channel = "none"
  /\ x.known => x.await \in {"answer", "done"}
  /\ x.timer => x.await = "done"
  /\ x.channel = "closing" => Released(x)
  /\ x.status \in Over /\ x.channel # "closed" => Released(x)

ObjectInv == \A s \in Sessions : Sound(session[s])

(* An object whose end was told, and such an object while the page refers  *)
(* to the object now.                                                      *)
Told(x) ==
  /\ x.known /\ ~x.peer /\ ~x.timer
  /\ x.channel \notin {"connecting", "open"}

Quiet(s, x, now) ==
  /\ Told(x)
  /\ now = s => x.status = "ended" /\ x.await = "done"

ToldInv ==
  \A s \in Sessions : told[s] = 0 \/ (told[s] = 1 /\ Quiet(s, session[s], current))

VoiceInv == VoiceTypeOK /\ ObjectInv /\ ToldInv

----------------------------------------------------------------------------
(* The methods of an object *)

LEMMA CleanedObject ==
  ASSUME NEW x \in Object, Sound(x)
  PROVE  /\ Cleaned(x) \in Object
         /\ Released(Cleaned(x))
         /\ Cleaned(x).channel \in {"closing", "none"}
         /\ Cleaned(x).status = x.status
         /\ Cleaned(x).await = x.await
         /\ Cleaned(x).known = x.known
  BY DEF Cleaned, Object, Released, Channels, VoiceStatuses, Awaits, Sound

LEMMA StoppedObject ==
  ASSUME NEW x \in Object, Sound(x)
  PROVE  /\ Stopped(x) \in Object /\ Sound(Stopped(x))
         /\ Stopped(x).status = "ended"
         /\ Stopped(x).await = x.await
         /\ Stopped(x).known = x.known
         /\ Tells(x) => Released(Stopped(x)) /\ Stopped(x).channel \in {"closing", "none"}
         /\ ~Tells(x) /\ x.known => Stopped(x) = x
  <1> DEFINE c == Cleaned(x)
             y == [c EXCEPT !.status = "ended"]
  <1>1. /\ c \in Object /\ Released(c) /\ c.channel \in {"closing", "none"}
        /\ c.await = x.await /\ c.known = x.known
    BY CleanedObject
  <1>2. /\ y \in Object /\ y.status = "ended" /\ Released(y)
        /\ y.channel = c.channel /\ y.await = x.await /\ y.known = x.known
    BY <1>1 DEF Object, VoiceStatuses, Released
  <1> HIDE DEF y
  <1>3. x.await \in {"unstarted", "microphone"} => y.channel = "none"
    BY DEF y, Sound, Cleaned, Object
  <1>4. Sound(y)
    BY <1>1, <1>2, <1>3 DEF Sound, Released
  <1> QED
    BY <1>2, <1>4, <1>1 DEF Stopped, Tells, y

(* An object in whose place x comes keeps the invariants.                  *)
LEMMA Replaced ==
  ASSUME VoiceInv, NEW s \in Sessions, NEW x \in Object, Sound(x),
         session' = [session EXCEPT ![s] = x],
         told[s] # 0 => Quiet(s, x, current),
         UNCHANGED <<told, current>>
  PROVE  session' \in [Sessions -> Object] /\ ObjectInv' /\ ToldInv'
  <1>1. session' \in [Sessions -> Object]
    BY DEF VoiceInv, VoiceTypeOK
  <1>2. session'[s] = x /\ \A t \in Sessions \ {s} : session'[t] = session[t]
    BY DEF VoiceInv, VoiceTypeOK
  <1>3. ObjectInv'
    BY <1>2 DEF VoiceInv, ObjectInv
  <1>4. ToldInv'
    BY <1>2 DEF VoiceInv, ToldInv
  <1> QED
    BY <1>1, <1>3, <1>4

----------------------------------------------------------------------------
(* start() *)

LEMMA FailedStep ==
  ASSUME VoiceInv, NEW s \in Sessions, Failed(s),
         session[s].await \in {"microphone", "offer", "create", "answer"},
         UNCHANGED <<registered, told, open, current>>
  PROVE  VoiceInv'
  <1> DEFINE c == Cleaned(session[s])
             x == [c EXCEPT !.status = "error", !.await = "done"]
  <1>0. session[s] \in Object /\ Sound(session[s])
    BY DEF VoiceInv, VoiceTypeOK, ObjectInv
  <1>1. /\ c \in Object /\ Released(c) /\ c.channel \in {"closing", "none"}
        /\ c.known = session[s].known
    BY <1>0, CleanedObject
  <1>2. /\ x \in Object /\ x.status = "error" /\ x.await = "done" /\ Released(x)
        /\ x.channel = c.channel /\ x.known = session[s].known
    BY <1>1 DEF Object, VoiceStatuses, Awaits, Released
  <1> HIDE DEF x
  <1>3. Sound(x)
    BY <1>1, <1>2 DEF Sound, Released
  <1>4. told[s] # 0 => Quiet(s, x, current)
    BY <1>1, <1>2 DEF VoiceInv, ToldInv, Quiet, Told, Released
  <1>5. session' = [session EXCEPT ![s] = x] /\ shown' = "error" /\ notice' = TRUE
    BY <1>2 DEF Failed, Becomes, x
  <1>6. session' \in [Sessions -> Object] /\ ObjectInv' /\ ToldInv'
    BY <1>2, <1>3, <1>4, <1>5, Replaced
  <1> QED
    BY <1>5, <1>6 DEF VoiceInv, VoiceTypeOK, VoiceStatuses

LEMMA StartingStep ==
  ASSUME VoiceInv, NEW s \in Sessions, Starting(s)
  PROVE  VoiceInv'
  <1>0. session[s] \in Object /\ Sound(session[s])
        /\ (told[s] = 0 \/ (told[s] = 1 /\ Quiet(s, session[s], current)))
    BY DEF VoiceInv, VoiceTypeOK, ObjectInv, ToldInv
  <1>1. CASE MicrophoneGranted(s)
    <2> DEFINE x == [session[s] EXCEPT !.status = "connecting", !.await = "offer",
                       !.microphone = TRUE, !.peer = TRUE, !.channel = "connecting"]
    <2>1. x \in Object /\ Sound(x) /\ told[s] = 0
      BY <1>0, <1>1 DEF MicrophoneGranted, Object, Sound, Quiet, Told, Released, VoiceStatuses,
                        Awaits, Channels, Over
    <2>2. session' = [session EXCEPT ![s] = x] /\ shown' = "connecting"
      BY <1>0, <1>1 DEF MicrophoneGranted, Becomes, Object
    <2> HIDE DEF x
    <2>3. session' \in [Sessions -> Object] /\ ObjectInv' /\ ToldInv'
      BY <1>1, <2>1, <2>2, Replaced DEF MicrophoneGranted
    <2> QED
      BY <1>1, <2>2, <2>3 DEF MicrophoneGranted, VoiceInv, VoiceTypeOK, VoiceStatuses
  <1>2. CASE MicrophoneDenied(s)
    BY <1>2, FailedStep DEF MicrophoneDenied
  <1>3. CASE OfferMade(s)
    <2> DEFINE x == [session[s] EXCEPT !.await = "create"]
    <2>1. x \in Object /\ Sound(x) /\ told[s] = 0
      BY <1>0, <1>3 DEF OfferMade, Object, Sound, Quiet, Told, Released, Awaits
    <2>2. session' = [session EXCEPT ![s] = x]
      BY <1>3 DEF OfferMade, VoiceInv, VoiceTypeOK
    <2> HIDE DEF x
    <2>3. session' \in [Sessions -> Object] /\ ObjectInv' /\ ToldInv'
      BY <1>3, <2>1, <2>2, Replaced DEF OfferMade
    <2> QED
      BY <1>3, <2>3 DEF OfferMade, VoiceInv, VoiceTypeOK
  <1>4. CASE ServerRegisters(s)
    BY <1>4 DEF ServerRegisters, VoiceInv, VoiceTypeOK, ObjectInv, ToldInv
  <1>5. CASE SessionCreated(s)
    <2> DEFINE x == [session[s] EXCEPT !.await = "answer", !.known = TRUE]
    <2>1. x \in Object /\ Sound(x) /\ told[s] = 0
      BY <1>0, <1>5 DEF SessionCreated, Object, Sound, Quiet, Told, Released, Awaits
    <2>2. session' = [session EXCEPT ![s] = x]
      BY <1>5 DEF SessionCreated, VoiceInv, VoiceTypeOK
    <2> HIDE DEF x
    <2>3. session' \in [Sessions -> Object] /\ ObjectInv' /\ ToldInv'
      BY <1>5, <2>1, <2>2, Replaced DEF SessionCreated
    <2> QED
      BY <1>5, <2>3 DEF SessionCreated, VoiceInv, VoiceTypeOK
  <1>6. CASE CreateFails(s)
    BY <1>6, FailedStep DEF CreateFails
  <1>7. CASE AnswerApplied(s)
    <2> DEFINE x == [session[s] EXCEPT !.await = "done", !.timer = TRUE]
    <2>1. x \in Object /\ Sound(x) /\ told[s] = 0
      BY <1>0, <1>7 DEF AnswerApplied, Object, Sound, Quiet, Told, Released, Awaits
    <2>2. session' = [session EXCEPT ![s] = x]
      BY <1>7 DEF AnswerApplied, VoiceInv, VoiceTypeOK
    <2> HIDE DEF x
    <2>3. session' \in [Sessions -> Object] /\ ObjectInv' /\ ToldInv'
      BY <1>7, <2>1, <2>2, Replaced DEF AnswerApplied
    <2> QED
      BY <1>7, <2>3 DEF AnswerApplied, VoiceInv, VoiceTypeOK
  <1>8. CASE NegotiationFails(s)
    BY <1>8, FailedStep DEF NegotiationFails
  <1> QED
    BY <1>1, <1>2, <1>3, <1>4, <1>5, <1>6, <1>7, <1>8 DEF Starting
----------------------------------------------------------------------------
(* Events of the connection *)

LEMMA EventStep ==
  ASSUME VoiceInv, NEW s \in Sessions, Event(s)
  PROVE  VoiceInv'
  <1>0. session[s] \in Object /\ Sound(session[s])
        /\ (told[s] = 0 \/ (told[s] = 1 /\ Quiet(s, session[s], current)))
    BY DEF VoiceInv, VoiceTypeOK, ObjectInv, ToldInv
  <1>1. CASE ChannelOpens(s)
    <2> DEFINE x == [session[s] EXCEPT !.channel = "open", !.status = "listening"]
    <2>1. x \in Object /\ Sound(x) /\ told[s] = 0
      BY <1>0, <1>1 DEF ChannelOpens, Object, Sound, Quiet, Told, Released, VoiceStatuses,
                        Channels, Over
    <2>2. session' = [session EXCEPT ![s] = x] /\ shown' = "listening"
      BY <1>0, <1>1 DEF ChannelOpens, Becomes, Object
    <2> HIDE DEF x
    <2>3. session' \in [Sessions -> Object] /\ ObjectInv' /\ ToldInv'
      BY <1>1, <2>1, <2>2, Replaced DEF ChannelOpens
    <2> QED
      BY <1>1, <2>2, <2>3 DEF ChannelOpens, VoiceInv, VoiceTypeOK, VoiceStatuses
  <1>2. CASE ChannelCloses(s)
    <2> DEFINE x == [session[s] EXCEPT !.channel = IF @ = "open" THEN "closed" ELSE "none"]
               y == [x EXCEPT !.status = "ended"]
    <2>1. /\ x \in Object /\ y \in Object
          /\ x.status = "ended" => Sound(x)
          /\ Sound(y)
      BY <1>0, <1>2 DEF ChannelCloses, Object, Sound, Released, VoiceStatuses, Channels, Over
    <2>2. told[s] # 0 => Quiet(s, x, current) /\ Quiet(s, y, current)
      BY <1>0, <1>2 DEF ChannelCloses, Object, Quiet, Told
    <2>3. \/ x.status = "ended" /\ session' = [session EXCEPT ![s] = x] /\ UNCHANGED shown
          \/ session' = [session EXCEPT ![s] = y] /\ shown' = "ended"
      BY <1>0, <1>2 DEF ChannelCloses, Becomes, Object
    <2>4. UNCHANGED <<registered, told, open, current, notice>>
      BY <1>2 DEF ChannelCloses
    <2> HIDE DEF x, y
    <2>5. session' \in [Sessions -> Object] /\ ObjectInv' /\ ToldInv'
      BY <2>1, <2>2, <2>3, <2>4, Replaced
    <2> QED
      BY <2>3, <2>4, <2>5 DEF VoiceInv, VoiceTypeOK, VoiceStatuses
  <1>3. CASE Converse(s)
    <2>1. PICK v \in Talking : Becomes(s, [session[s] EXCEPT !.status = v])
      BY <1>3 DEF Converse
    <2> DEFINE x == [session[s] EXCEPT !.status = v]
    <2>2. x \in Object /\ Sound(x) /\ told[s] = 0
      BY <1>0, <1>3 DEF Converse, Object, Sound, Quiet, Told, Released, VoiceStatuses, Talking, Over
    <2>3. session' = [session EXCEPT ![s] = x] /\ shown' = v
      BY <1>0, <2>1 DEF Becomes, Object
    <2> HIDE DEF x
    <2>4. session' \in [Sessions -> Object] /\ ObjectInv' /\ ToldInv'
      BY <1>3, <2>2, <2>3, Replaced DEF Converse
    <2> QED
      BY <1>3, <2>3, <2>4 DEF Converse, VoiceInv, VoiceTypeOK, VoiceStatuses, Talking
  <1>4. CASE EngineError(s)
    BY <1>4 DEF EngineError, VoiceInv, VoiceTypeOK, ObjectInv, ToldInv
  <1>5. CASE ConnectionLost(s)
    <2> DEFINE c == Cleaned(session[s])
               x == [c EXCEPT !.status = "error"]
    <2>1. /\ c \in Object /\ Released(c) /\ c.channel \in {"closing", "none"}
          /\ c.await = session[s].await /\ c.known = session[s].known
      BY <1>0, CleanedObject
    <2>2. /\ x \in Object /\ x.status = "error" /\ x.await = "done" /\ Released(x)
          /\ x.channel = c.channel /\ x.known = session[s].known
      BY <1>5, <2>1 DEF ConnectionLost, Object, VoiceStatuses, Released
    <2>3. Sound(x) /\ told[s] = 0
      BY <1>0, <1>5, <2>1, <2>2 DEF ConnectionLost, Sound, Released, Quiet, Told
    <2>4. session' = [session EXCEPT ![s] = x] /\ shown' = "error" /\ notice' = TRUE
      BY <1>5, <2>2 DEF ConnectionLost, Becomes
    <2>5. UNCHANGED <<registered, told, open, current>>
      BY <1>5 DEF ConnectionLost
    <2> HIDE DEF x
    <2>6. session' \in [Sessions -> Object] /\ ObjectInv' /\ ToldInv'
      BY <2>2, <2>3, <2>4, <2>5, Replaced
    <2> QED
      BY <2>4, <2>5, <2>6 DEF VoiceInv, VoiceTypeOK, VoiceStatuses
  <1>6. CASE Expire(s)
    <2>1. session[s].await = "done" /\ told[s] = 0
      BY <1>0, <1>6 DEF Expire, Sound, Quiet, Told
    <2>2. CASE session[s].status = "ended"
      <3> DEFINE x == [session[s] EXCEPT !.timer = FALSE]
      <3>1. x \in Object /\ Sound(x)
        BY <1>0, <2>2 DEF Object, Sound, Released
      <3>2. /\ session' = [session EXCEPT ![s] = x]
            /\ UNCHANGED <<told, shown, notice, registered, open, current>>
        BY <1>6, <2>2 DEF Expire, VoiceInv, VoiceTypeOK
      <3> HIDE DEF x
      <3>3. session' \in [Sessions -> Object] /\ ObjectInv' /\ ToldInv'
        BY <2>1, <3>1, <3>2, Replaced
      <3> QED
        BY <3>2, <3>3 DEF VoiceInv, VoiceTypeOK
    <2>3. CASE session[s].status # "ended"
      <3> DEFINE x == Stopped(session[s])
      <3>1. /\ x \in Object /\ Sound(x) /\ x.status = "ended" /\ x.await = "done"
            /\ x.known = session[s].known
            /\ Tells(session[s]) =>
                 session[s].known /\ Released(x) /\ x.channel \in {"closing", "none"}
        BY <1>0, <2>1, StoppedObject DEF Tells
      <3>2. /\ session' = [session EXCEPT ![s] = x] /\ shown' = x.status /\ notice' = TRUE
            /\ told' = [told EXCEPT ![s] = IF Tells(session[s]) THEN @ + 1 ELSE @]
            /\ UNCHANGED <<registered, open, current>>
        BY <1>6, <2>3 DEF Expire, Becomes
      <3> HIDE DEF x
      <3>3. session'[s] = x /\ \A t \in Sessions \ {s} : session'[t] = session[t]
                                                     /\ told'[t] = told[t]
        BY <3>2 DEF VoiceInv, VoiceTypeOK
      <3>4. session' \in [Sessions -> Object] /\ told' \in [Sessions -> Nat]
        BY <3>1, <3>2 DEF VoiceInv, VoiceTypeOK
      <3>5. ObjectInv'
        BY <3>1, <3>3 DEF VoiceInv, ObjectInv
      <3>6. told'[s] = 0 \/ (told'[s] = 1 /\ Tells(session[s]))
        BY <2>1, <3>2 DEF VoiceInv, VoiceTypeOK
      <3>7. ToldInv'
        BY <3>1, <3>2, <3>3, <3>6 DEF VoiceInv, ToldInv, Quiet, Told, Released
      <3> QED
        BY <3>1, <3>2, <3>4, <3>5, <3>7 DEF VoiceInv, VoiceTypeOK, VoiceStatuses
    <2> QED
      BY <2>2, <2>3
  <1> QED
    BY <1>1, <1>2, <1>3, <1>4, <1>5, <1>6 DEF Event

----------------------------------------------------------------------------
(* The page *)

LEMMA FreshObject ==
  Begun \in Object /\ Sound(Begun) /\ Fresh \in Object /\ Sound(Fresh)
  BY DEF Begun, Fresh, Object, Sound, Released, VoiceStatuses, Awaits, Channels, Over

(* The end of the current session is told, and it is stopped.  Nothing is  *)
(* said yet of what the page refers to afterwards.                         *)
LEMMA StopCurrentStep ==
  ASSUME VoiceInv, TellOfCurrent, NEW s \in Sessions
  PROVE  /\ told' \in [Sessions -> Nat]
         /\ StopCurrent[s] \in Object /\ Sound(StopCurrent[s])
         /\ told'[s] = 0 \/ (told'[s] = 1 /\ Told(StopCurrent[s]))
         /\ told'[s] = 1 /\ s # current => told[s] = 1 /\ StopCurrent[s] = session[s]
         /\ StopCurrent[s].await = session[s].await
         /\ told'[s] = 1 /\ s = current => StopCurrent[s].status = "ended"
  <1>0. session[s] \in Object /\ Sound(session[s])
        /\ (told[s] = 0 \/ (told[s] = 1 /\ Quiet(s, session[s], current)))
    BY DEF VoiceInv, VoiceTypeOK, ObjectInv, ToldInv
  <1>1. told' \in [Sessions -> Nat]
    BY DEF VoiceInv, VoiceTypeOK, TellOfCurrent
  <1>2. CASE s # current
    BY <1>0, <1>1, <1>2 DEF StopCurrent, TellOfCurrent, Quiet, Told
  <1>3. CASE s = current
    <2> DEFINE x == Stopped(session[s])
    <2>1. StopCurrent[s] = x
      BY <1>3 DEF StopCurrent
    <2>2. told'[s] = IF Tells(session[s]) THEN told[s] + 1 ELSE told[s]
      BY <1>3 DEF TellOfCurrent
    <2>3. /\ x \in Object /\ Sound(x) /\ x.status = "ended"
          /\ x.await = session[s].await /\ x.known = session[s].known
          /\ Tells(session[s]) => Released(x) /\ x.channel \in {"closing", "none"}
          /\ ~Tells(session[s]) /\ session[s].known => x = session[s]
      BY <1>0, StoppedObject
    <2>4. Tells(session[s]) => told[s] = 0 /\ session[s].known
      BY <1>0, <1>3 DEF Tells, Quiet, Told
    <2>5. told'[s] = 0 \/ (told'[s] = 1 /\ Told(x))
      <3>1. CASE Tells(session[s])
        BY <2>2, <2>3, <2>4, <3>1 DEF Quiet, Told, Released
      <3>2. CASE ~Tells(session[s])
        BY <1>0, <2>2, <2>3, <3>2 DEF Quiet, Told
      <3> QED
        BY <3>1, <3>2
    <2> HIDE DEF x
    <2> QED
      BY <1>1, <1>3, <2>1, <2>3, <2>5
  <1> QED
    BY <1>2, <1>3

LEMMA PageStep ==
  ASSUME VoiceInv, NEW s \in Sessions, Page(s)
  PROVE  VoiceInv'
  <1>0. \A t \in Sessions : told[t] = 1 => session[t].await # "unstarted"
    BY DEF VoiceInv, ObjectInv, ToldInv, Sound, Quiet, Told
  <1>1. CASE Open(s) \/ Retry(s)
    <2>1. /\ session[s].await = "unstarted" /\ session' = [session EXCEPT ![s] = Begun]
          /\ current' = s /\ shown' = "requesting_permissions" /\ notice' = FALSE
          /\ open' \in {open, TRUE} /\ UNCHANGED <<registered, told>>
      BY <1>1 DEF Open, Retry, Begin
    <2>2. session'[s] = Begun /\ \A t \in Sessions \ {s} : session'[t] = session[t]
      BY <2>1 DEF VoiceInv, VoiceTypeOK
    <2>3. ObjectInv'
      BY <2>2, FreshObject DEF VoiceInv, ObjectInv
    <2>4. ToldInv'
      BY <1>0, <2>1, <2>2 DEF VoiceInv, ToldInv, Quiet, Told
    <2> QED
      BY <2>1, <2>3, <2>4, FreshObject DEF VoiceInv, VoiceTypeOK, VoiceStatuses
  <1>2. CASE ChangeThread(s)
    <2>1. /\ session[s].await = "unstarted" /\ session' = [StopCurrent EXCEPT ![s] = Begun]
          /\ current' = s /\ shown' = "requesting_permissions" /\ notice' = FALSE
          /\ TellOfCurrent /\ UNCHANGED <<registered, open>>
      BY <1>2 DEF ChangeThread, Begin
    <2>2. /\ session'[s] = Begun
          /\ \A t \in Sessions \ {s} : session'[t] = StopCurrent[t]
          /\ session' \in [Sessions -> Object]
      BY <2>1, StopCurrentStep, FreshObject DEF StopCurrent
    <2>3. ObjectInv'
      BY <2>1, <2>2, FreshObject, StopCurrentStep DEF ObjectInv
    <2>4. told' \in [Sessions -> Nat]
      BY <2>1, StopCurrentStep
    <2>5. ASSUME NEW t \in Sessions
          PROVE  told'[t] = 0 \/ (told'[t] = 1 /\ Quiet(t, session'[t], current'))
      <3>1. /\ told'[t] = 0 \/ (told'[t] = 1 /\ Told(StopCurrent[t]))
            /\ StopCurrent[t].await = session[t].await
            /\ StopCurrent[t] \in Object /\ Sound(StopCurrent[t])
        BY <2>1, StopCurrentStep
      <3>2. told'[t] = 1 => t # s
        BY <2>1, <3>1 DEF Quiet, Told, Sound
      <3> QED
        BY <2>1, <2>2, <3>1, <3>2 DEF Quiet, Told
    <2> QED
      BY <2>1, <2>2, <2>3, <2>4, <2>5 DEF VoiceInv, VoiceTypeOK, ToldInv, VoiceStatuses
  <1> QED
    BY <1>1, <1>2 DEF Page

LEMMA CloseStep ==
  ASSUME VoiceInv, Close
  PROVE  VoiceInv'
  <1>1. /\ session' = StopCurrent /\ TellOfCurrent /\ current' = NoSession
        /\ open' = FALSE /\ shown' = "idle" /\ UNCHANGED <<registered, notice>>
    BY DEF Close
  <1>2. /\ session' \in [Sessions -> Object] /\ ObjectInv'
        /\ \A t \in Sessions : told'[t] = 0 \/ (told'[t] = 1 /\ Told(session'[t]))
    BY <1>1, StopCurrentStep DEF StopCurrent, ObjectInv
  <1>3. told' \in [Sessions -> Nat]
    BY <1>1 DEF TellOfCurrent, VoiceInv, VoiceTypeOK
  <1>4. ToldInv'
    BY <1>1, <1>2, SessionAssumption DEF ToldInv, Quiet, Told
  <1> QED
    BY <1>1, <1>2, <1>3, <1>4 DEF VoiceInv, VoiceTypeOK, VoiceStatuses

LEMMA TalkedOutStep ==
  ASSUME VoiceInv, TalkedOut
  PROVE  VoiceInv'
  <1>1. /\ session' = StopCurrent /\ TellOfCurrent /\ session[current].await = "done"
        /\ shown' = "ended" /\ notice' = TRUE /\ UNCHANGED <<registered, open, current>>
    BY DEF TalkedOut
  <1>2. session' \in [Sessions -> Object] /\ ObjectInv'
    BY <1>1, StopCurrentStep DEF StopCurrent, ObjectInv
  <1>3. told' \in [Sessions -> Nat]
    BY <1>1 DEF TellOfCurrent, VoiceInv, VoiceTypeOK
  <1>4. ASSUME NEW t \in Sessions
        PROVE  told'[t] = 0 \/ (told'[t] = 1 /\ Quiet(t, session'[t], current'))
    BY <1>1, StopCurrentStep DEF Quiet, Told
  <1> QED
    BY <1>1, <1>2, <1>3, <1>4 DEF VoiceInv, VoiceTypeOK, ToldInv, VoiceStatuses

----------------------------------------------------------------------------
(* The theorems *)

(* The inductive invariant: a session that is over, or was told of, cannot *)
(* be brought back by a promise or an event that comes late.               *)
THEOREM VoiceInvariance ==
  VoiceSpec => []VoiceInv
  <1>1. VoiceInit => VoiceInv
    <2> SUFFICES ASSUME VoiceInit PROVE VoiceInv
      OBVIOUS
    <2>1. VoiceTypeOK /\ ObjectInv
      BY FreshObject DEF VoiceInit, VoiceTypeOK, ObjectInv, VoiceStatuses
    <2>2. ASSUME NEW s \in Sessions PROVE told[s] = 0
      BY DEF VoiceInit
    <2> QED
      BY <2>1, <2>2 DEF VoiceInv, ToldInv
  <1>2. VoiceInv /\ [VoiceNext]_voiceVars => VoiceInv'
    <2> SUFFICES ASSUME VoiceInv, [VoiceNext]_voiceVars PROVE VoiceInv'
      OBVIOUS
    <2>1. CASE UNCHANGED voiceVars
      BY <2>1 DEF voiceVars, VoiceInv, VoiceTypeOK, ObjectInv, ToldInv
    <2>2. CASE VoiceNext
      BY <2>2, StartingStep, EventStep, PageStep, CloseStep, TalkedOutStep DEF VoiceNext
    <2> QED
      BY <2>1, <2>2
  <1> QED
    BY <1>1, <1>2, PTL DEF VoiceSpec

(* Type correctness, for any number of sessions.                           *)
THEOREM VoiceTypeCorrect ==
  VoiceSpec => []VoiceTypeOK
  BY VoiceInvariance, PTL DEF VoiceInv

(* The server is told of the end of a session at most once, in whatever    *)
(* order stop(), the deadline, failures and retries come.                  *)
THEOREM EndIsToldOnce ==
  VoiceSpec => []ToldAtMostOnce
  <1>1. VoiceInv => ToldAtMostOnce
    <2> SUFFICES ASSUME VoiceInv, NEW s \in Sessions PROVE told[s] <= 1
      BY DEF ToldAtMostOnce
    <2>1. told[s] = 0 \/ told[s] = 1
      BY DEF VoiceInv, ToldInv
    <2> QED
      BY <2>1
  <1> QED
    BY <1>1, VoiceInvariance, PTL

(* A session that is over holds nothing, but for one whose channel the     *)
(* other side closed.                                                      *)
THEOREM OverIsReleased ==
  VoiceSpec => []OverMeansReleased
  <1>1. VoiceInv => OverMeansReleased
    BY DEF VoiceInv, ObjectInv, Sound, Released, OverMeansReleased
  <1> QED
    BY <1>1, VoiceInvariance, PTL
============================================================================
