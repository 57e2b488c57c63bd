----------------------------- MODULE IntentLog -----------------------------
(***************************************************************************)
(* What a student is promised about the registration intent of one plan    *)
(* and period, whatever happens between the browsers and the database: a   *)
(* command takes effect at most once, as the revision right after the one  *)
(* it was decided on and not after the period; one that was refused never  *)
(* takes effect; one that was accepted is in effect, if need be by an      *)
(* equal command that came first.  MockRegistration is shown to implement  *)
(* it.                                                                     *)
(***************************************************************************)
EXTENDS Naturals, Sequences

CONSTANTS Requests,   \* each carries one command
          Courses,    \* non-empty course lists
          NoCourses   \* the course list of a withdrawal

VARIABLES revisions,  \* the commands that took effect, in order
          command,    \* what each request asks for, and what it was answered
          open        \* the period has not ended

vars == <<revisions, command, open>>

NoCommand == [op |-> "none", courses |-> NoCourses, on |-> 0, reply |-> "none"]

(* The commands a student can give who looks at revision n.                *)
CommandsOn(n) ==
  [op : {"submit"}, courses : Courses, on : {n}, reply : {"none"}]
    \union IF n > 0 /\ revisions[n].op = "submit"
             THEN [op : {"withdraw"}, courses : {NoCourses}, on : {n}, reply : {"none"}]
             ELSE {}

Init ==
  /\ revisions = <<>>
  /\ command = [r \in Requests |-> NoCommand]
  /\ open = TRUE

Issue(r) ==
  /\ command[r] = NoCommand
  /\ \E n \in 0 .. Len(revisions) : \E c \in CommandsOn(n) :
       command' = [command EXCEPT ![r] = c]
  /\ UNCHANGED <<revisions, open>>

InEffect(r) == \E i \in 1 .. Len(revisions) : revisions[i].by = r

TakeEffect(r) ==
  /\ command[r].op # "none" /\ command[r].reply \in {"none", "unknown"}
  /\ open /\ ~InEffect(r)
  /\ command[r].on = Len(revisions)
  /\ revisions' = Append(revisions, [by |-> r, op |-> command[r].op,
                                     courses |-> command[r].courses])
  /\ UNCHANGED <<command, open>>

Reply(r, answer) ==
  /\ command[r].op # "none" /\ command[r].reply = "none"
  /\ command' = [command EXCEPT ![r].reply = answer]
  /\ UNCHANGED <<revisions, open>>

Accept(r) ==
  /\ Reply(r, "accepted")
  /\ command[r].on < Len(revisions)
  /\ revisions[command[r].on + 1].op = command[r].op
  /\ revisions[command[r].on + 1].courses = command[r].courses

Refuse(r) == Reply(r, "refused") /\ ~InEffect(r)

(* Answered 503: the student does not know, and it may yet take effect.    *)
LeaveOpen(r) == Reply(r, "unknown")

Close == open /\ open' = FALSE /\ UNCHANGED <<revisions, command>>

Next ==
  \/ \E r \in Requests : Issue(r) \/ TakeEffect(r) \/ Accept(r) \/ Refuse(r) \/ LeaveOpen(r)
  \/ Close

Spec == Init /\ [][Next]_vars
=============================================================================
