---------------------------- MODULE ExamSession ----------------------------
(***************************************************************************)
(* The exam sessions of one student, over several exams, and the timers    *)
(* that close them (packages/application/src/exam/session.ts).             *)
(*                                                                         *)
(* Entering takes three steps: the request fixes its time and looks at the *)
(* exam; under the student's advisory lock it looks at sessions and gate;  *)
(* under the exam's row lock it writes.  An instructor's release reads and *)
(* writes without the student's lock.  Every other operation holds the     *)
(* locks it needs from its first read on, and is one step.  The unique     *)
(* index on active sessions is not modelled: it only backs the lock up.    *)
(***************************************************************************)
EXTENDS LifecycleTimers

CONSTANTS
  Requests,  \* bound: entries in flight
  LateEntry  \* may an entry be written after the exam's end?

ASSUME EntryAssumption == LateEntry \in BOOLEAN

VARIABLES
  part,       \* Participation.status
  session,    \* ActiveExamSession
  entry,      \* startSessionWithGate requests
  releasing   \* releases that have read an active session

vars == <<timerVars, part, session, entry, releasing>>
sessionVars == <<part, session, entry, releasing>>

NoSession == [state |-> "none", reason |-> "null"]
ActiveSession == [state |-> "active", reason |-> "null"]
Closed(reason) == [state |-> "ended", reason |-> reason]

NoEntry == [pc |-> "idle", exam |-> AnExam, wasActive |-> FALSE]

(* Every variable stays in its type. *)
TypeOK ==
  /\ TimerTypeOK
  /\ part \in [Exams -> {"none", "registered", "active", "submitted"}]
  /\ session \in [Exams -> {NoSession, ActiveSession} \cup
       {Closed(reason) : reason \in {"null", "submitted", "time_up", "released_by_instructor"}}]
  /\ entry \in [Requests -> [pc : {"idle", "arrived", "locked"}, exam : Exams,
                             wasActive : BOOLEAN]]
  /\ releasing \subseteq Exams

Init ==
  /\ TimerInit
  /\ part = [x \in Exams |-> "none"]
  /\ session = [x \in Exams |-> NoSession]
  /\ entry = [r \in Requests |-> NoEntry]
  /\ releasing = {}

Active(x) == session[x].state = "active"

\* Mutant: entries do not take the student's lock.
NobodyLocks == TRUE

(* pg_advisory_xact_lock(exam-session:user). *)
LockFree == \A r \in Requests : entry[r].pc # "locked"

-----------------------------------------------------------------------------
(* Entering: startSessionWithGate, openSessionInTx. *)

Arrive(r, x) ==
  /\ entry[r].pc = "idle"
  /\ Started(x) /\ ~Ended(x)
  /\ \A y \in Exams \ {x} : ~Active(y)
  /\ entry' = [entry EXCEPT ![r] = [pc |-> "arrived", exam |-> x, wasActive |-> FALSE]]
  /\ UNCHANGED <<timerVars, part, session, releasing>>

\* Mutant: only the session tells whether the exam was handed in.
SessionSaysHandedIn(x) == session[x].reason = "submitted"

HandedIn(x) == session[x].reason = "submitted" \/ part[x] = "submitted"

(* The gate compares the schedule with the time of the request again: as an  *)
(* exam that has started can only be extended, the answer is the same.       *)
Admitted(x) == ~HandedIn(x) /\ \A y \in Exams \ {x} : ~Active(y)

Lock(r) ==
  /\ entry[r].pc = "arrived"
  /\ LockFree
  /\ entry' = IF Admitted(entry[r].exam)
              THEN [entry EXCEPT ![r].pc = "locked", ![r].wasActive = Active(entry[r].exam)]
              ELSE [entry EXCEPT ![r] = NoEntry]
  /\ UNCHANGED <<timerVars, part, session, releasing>>

Entered(x) == IF part[x] \in {"none", "registered"} THEN "active" ELSE part[x]

Enter(r) ==
  LET x == entry[r].exam IN
  /\ entry[r].pc = "locked"
  /\ LateEntry \/ ~Ended(x)
  /\ part' = [part EXCEPT ![x] = Entered(x)]
  /\ session' = IF entry[r].wasActive THEN session ELSE [session EXCEPT ![x] = ActiveSession]
  /\ entry' = [entry EXCEPT ![r] = NoEntry]
  /\ UNCHANGED <<timerVars, releasing>>

(* The network is refused, the course is archived, or the request dies. *)
EntryFails(r) ==
  /\ entry[r].pc # "idle"
  /\ entry' = [entry EXCEPT ![r] = NoEntry]
  /\ UNCHANGED <<timerVars, part, session, releasing>>

-----------------------------------------------------------------------------
(* Leaving. *)

(* endSession with reason submitted, also after the time is up. *)
HandIn(x) ==
  /\ LockFree
  /\ session[x] \notin {NoSession, Closed("null"), Closed("submitted")}
  /\ part' = IF part[x] = "active" THEN [part EXCEPT ![x] = "submitted"] ELSE part
  /\ session' = [session EXCEPT ![x] = Closed("submitted")]
  /\ UNCHANGED <<timerVars, entry, releasing>>

ReleaseReads(x) ==
  /\ Active(x)
  /\ releasing' = releasing \cup {x}
  /\ UNCHANGED <<timerVars, part, session, entry>>

(* releaseSessionAsInstructor writes whatever the session is by now. *)
ReleaseWrites(x) ==
  /\ x \in releasing
  /\ session' = [session EXCEPT ![x] = Closed("released_by_instructor")]
  /\ releasing' = releasing \ {x}
  /\ UNCHANGED <<timerVars, part, entry>>

(* resetStudentIpBinding: a student who never entered gets a closed session. *)
ResetIpBinding(x) ==
  /\ LockFree
  /\ part' = IF part[x] = "none" THEN [part EXCEPT ![x] = "registered"] ELSE part
  /\ session' = IF session[x] = NoSession
                THEN [session EXCEPT ![x] = Closed("null")] ELSE session
  /\ UNCHANGED <<timerVars, entry, releasing>>

-----------------------------------------------------------------------------
(* autoCloseForExam, the activity of the timer. *)

\* Mutant: a timer closes whatever the schedule has become.
AnySchedule(x) == TRUE

IsCurrent(x) ==
  run[x].revision = sched[x].revision /\ run[x].window = sched[x].window /\ Ended(x)

AutoClose(x) ==
  /\ Fires(x)
  /\ session' = IF IsCurrent(x) /\ Active(x)
                THEN [session EXCEPT ![x] = Closed("time_up")] ELSE session
  /\ UNCHANGED <<part, entry, releasing>>

\* Mutant: an exam that has ended needs no timer.
ListedUntilEnd(x) == ~Ended(x)

(* listNeedingTimers. *)
Listed(x) == ~Ended(x) \/ Active(x)

-----------------------------------------------------------------------------
TimerStep ==
  \/ \E x \in Exams : \/ \E w \in Windows : Reschedule(x, w)
                      \/ \E p \in Recs : Listed(x) /\ Ensure(p, x)
                      \/ RunFails(x)
  \/ \E p \in Recs : RecStep(p) \/ RecFails(p)
  \/ Tick

Next ==
  \/ TimerStep /\ UNCHANGED sessionVars
  \/ \E r \in Requests : \/ \E x \in Exams : Arrive(r, x)
                         \/ Lock(r) \/ Enter(r) \/ EntryFails(r)
  \/ \E x \in Exams : \/ HandIn(x) \/ ReleaseReads(x) \/ ReleaseWrites(x)
                      \/ ResetIpBinding(x) \/ AutoClose(x)

Spec == Init /\ [][Next]_vars

(* Time passes, reconciliations go on, the 5-minute reconciler gets to every *)
(* exam it lists, and the timer of a run fires.                              *)
Fairness ==
  /\ WF_vars(Tick /\ UNCHANGED sessionVars)
  /\ \A p \in Recs : WF_vars(RecStep(p) /\ UNCHANGED sessionVars)
  /\ \A x \in Exams :
       /\ SF_vars(\E p \in Recs : Listed(x) /\ Ensure(p, x) /\ UNCHANGED sessionVars)
       /\ WF_vars(AutoClose(x))

FairSpec == Spec /\ Fairness

-----------------------------------------------------------------------------
(* Properties. *)

(* A student has one active session at most, whatever requests race for it   *)
(* (docs/decisions/assessments.md: at most one un-ended session per user).   *)
OneActiveSession == \A x, y \in Exams : Active(x) /\ Active(y) => x = y

(* Whoever has an active session takes part and has not handed in: a hand-in *)
(* is final though a release that read the session before may overwrite its  *)
(* reason, and a binding that was reset does not hide a later hand-in.       *)
ActiveMeansTakingPart == \A x \in Exams : Active(x) => part[x] = "active"

(* The time is up for nobody before the end the schedule has by then: a      *)
(* timer of an earlier schedule closes nothing.                              *)
NotClosedEarly ==
  [][\A x \in Exams : Active(x) /\ session'[x] = Closed("time_up") => Ended(x)]_vars

(* A session that is active when its exam ends is closed                     *)
(* (docs/features/exams.md:109), though the replacement of a timer may be    *)
(* lost and timers may fail.  Reconciliations are assumed to stop failing.   *)
Fault ==
  \/ \E p \in Recs : RecFails(p) /\ ~RecStep(p)
  \/ \E x \in Exams : RunFails(x)

EndedIsClosed ==
  <>[][~Fault]_vars => \A x \in Exams : Active(x) /\ Ended(x) ~> ~Active(x)
=============================================================================
