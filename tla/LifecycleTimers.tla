-------------------------- MODULE LifecycleTimers --------------------------
(***************************************************************************)
(* The Temporal timers that follow a schedule kept in PostgreSQL: one      *)
(* workflow per exam (contests and assignments work alike), reconciled by  *)
(* schedule revision and timer fingerprint (reconcileLifecycleWorkflow,    *)
(* decideLifecycleReconciliation).                                         *)
(*                                                                         *)
(* A fingerprint is the window it is made of.  A reconciliation describes  *)
(* the run, decides, terminates or starts, and describes again; several of *)
(* them, each with the schedule it read, work on one workflow.  The module *)
(* gives the steps; ExamSession composes them with the sessions.           *)
(***************************************************************************)
EXTENDS Naturals

CONSTANTS
  Exams,
  Windows,      \* [starts, ends]
  First,        \* the window each exam is published with
  MaxTime,      \* bound: clock
  MaxRevision,  \* bound: schedule changes of an exam, and its publication
  Recs,         \* bound: reconciliations at a time
  MaxRounds,    \* MAX_LIFECYCLE_RECONCILIATION_ATTEMPTS (8 in the code)
  Reconciled,   \* bound: exams with a workflow
  Reverts       \* may a schedule return to a window it had before?

ASSUME TimerAssumption ==
  /\ Exams # {}
  /\ MaxTime \in Nat /\ MaxRevision \in Nat \ {0} /\ MaxRounds \in Nat \ {0}
  /\ Reverts \in BOOLEAN
  /\ Windows \subseteq [starts : Nat, ends : Nat] /\ First \in [Exams -> Windows]
  /\ Reconciled \subseteq Exams

VARIABLES
  clock,
  sched,  \* Exam: startsAt, endsAt and scheduleRevision
  past,   \* history: windows an exam has had
  run,    \* the latest run of each exam's workflow
  rec     \* reconciliations

timerVars == <<clock, sched, past, run, rec>>

Revisions == 0 .. MaxRevision
NoRun(x) == [status |-> "none", revision |-> 0, window |-> First[x]]

TimerTypeOK ==
  /\ clock \in 0 .. MaxTime
  /\ sched \in [Exams -> [window : Windows, revision : Revisions]]
  /\ past \in [Exams -> SUBSET Windows]
  /\ run \in [Exams -> [status : {"none", "running", "completed", "failed", "terminated"},
                        revision : Revisions, window : Windows]]
  /\ rec \in [Recs -> [pc : {"idle", "describe", "terminate", "start"}, exam : Exams,
                       revision : Revisions, window : Windows, seen : Revisions,
                       rounds : 0 .. MaxRounds]]

AnExam == CHOOSE x \in Exams : TRUE
IdleRec == [pc |-> "idle", exam |-> AnExam, revision |-> 0, window |-> First[AnExam],
            seen |-> 0, rounds |-> 0]

(* Published, and not yet given a workflow. *)
TimerInit ==
  /\ clock = 0
  /\ sched = [x \in Exams |-> [window |-> First[x], revision |-> 1]]
  /\ past = [x \in Exams |-> {First[x]}]
  /\ run = [x \in Exams |-> NoRun(x)]
  /\ rec = [p \in Recs |-> IdleRec]

Started(x) == clock >= sched[x].window.starts
Ended(x) == clock >= sched[x].window.ends

-----------------------------------------------------------------------------
(* The schedule: updateExamRecord. *)

(* Before the start anything may change, after it endsAt may only grow, and  *)
(* after the end nothing.                                                    *)
MayBecome(x, w) ==
  /\ w # sched[x].window /\ w.starts < w.ends
  /\ Started(x) => /\ ~Ended(x)
                   /\ w.starts = sched[x].window.starts
                   /\ w.ends > sched[x].window.ends

Reconciling(x, s) ==
  [pc |-> "describe", exam |-> x, revision |-> s.revision, window |-> s.window,
   seen |-> 0, rounds |-> MaxRounds]

(* The trigger counts the revision; the caller replaces the workflow after   *)
(* the commit, unless it dies or Temporal does not answer.                   *)
Reschedule(x, w) ==
  LET s == [window |-> w, revision |-> sched[x].revision + 1] IN
  /\ sched[x].revision < MaxRevision
  /\ MayBecome(x, w)
  /\ Reverts \/ w \notin past[x]
  /\ sched' = [sched EXCEPT ![x] = s]
  /\ past' = [past EXCEPT ![x] = @ \cup {w}]
  /\ \/ rec' = rec
     \/ \E p \in Recs : rec[p].pc = "idle" /\ rec' = [rec EXCEPT ![p] = Reconciling(x, s)]
  /\ UNCHANGED <<clock, run>>

(* One exam of a page of the 5-minute reconciler, or publishExam. *)
Ensure(p, x) ==
  /\ x \in Reconciled
  /\ rec[p].pc = "idle"
  /\ rec' = [rec EXCEPT ![p] = Reconciling(x, sched[x])]
  /\ UNCHANGED <<clock, sched, past, run>>

-----------------------------------------------------------------------------
(* One round of the loop in reconcileLifecycleWorkflow. *)

\* Mutant: an observed run that is newer is not spared.
KeptIfSatisfied(p, seen) ==
  seen.window = rec[p].window /\ seen.status \in {"running", "completed"}

(* decideLifecycleReconciliation: keep. *)
Kept(p, seen) ==
  /\ seen.status # "none"
  /\ \/ seen.revision > rec[p].revision
     \/ seen.window = rec[p].window /\ seen.status \in {"running", "completed"}

Describe(p) ==
  LET seen == run[rec[p].exam] IN
  /\ rec[p].pc = "describe"
  /\ rec' = [rec EXCEPT ![p] =
       IF Kept(p, seen) THEN IdleRec
       ELSE IF seen.status = "running"
       THEN [@ EXCEPT !.pc = "terminate", !.seen = seen.revision]
       ELSE [@ EXCEPT !.pc = "start"]]
  /\ UNCHANGED <<clock, sched, past, run>>

(* Eight rounds, and it throws: reconciliations for different schedules may  *)
(* terminate and start each other's runs.                                    *)
NextRound(p) ==
  LET left == rec[p].rounds - 1
  IN [rec EXCEPT ![p] = IF left = 0 THEN IdleRec
        ELSE [rec[p] EXCEPT !.pc = "describe", !.seen = 0, !.rounds = left]]

(* A run is terminated by its runId.  A schedule revision has one window, so *)
(* a second run of the revision that was seen would be terminated next.      *)
SeenRun(p) ==
  run[rec[p].exam].status = "running" /\ run[rec[p].exam].revision = rec[p].seen

Terminate(p) ==
  /\ rec[p].pc = "terminate"
  /\ run' = IF SeenRun(p) THEN [run EXCEPT ![rec[p].exam].status = "terminated"] ELSE run
  /\ rec' = NextRound(p)
  /\ UNCHANGED <<clock, sched, past>>

(* USE_EXISTING, ALLOW_DUPLICATE. *)
StartRun(p) ==
  /\ rec[p].pc = "start"
  /\ run' = IF run[rec[p].exam].status = "running" THEN run
            ELSE [run EXCEPT ![rec[p].exam] =
                    [status |-> "running", revision |-> rec[p].revision,
                     window |-> rec[p].window]]
  /\ rec' = NextRound(p)
  /\ UNCHANGED <<clock, sched, past>>

(* Its process dies, or Temporal does not answer. *)
RecFails(p) ==
  /\ rec[p].pc # "idle"
  /\ rec' = [rec EXCEPT ![p] = IdleRec]
  /\ UNCHANGED <<clock, sched, past, run>>

-----------------------------------------------------------------------------
(* The workflow. *)

Due(x) == run[x].status = "running" /\ clock >= run[x].window.ends

Fires(x) ==
  /\ Due(x)
  /\ run' = [run EXCEPT ![x].status = "completed"]
  /\ UNCHANGED <<clock, sched, past, rec>>

RunFails(x) ==
  /\ run[x].status = "running"
  /\ run' = [run EXCEPT ![x].status = "failed"]
  /\ UNCHANGED <<clock, sched, past, rec>>

Tick ==
  /\ clock < MaxTime
  /\ clock' = clock + 1
  /\ UNCHANGED <<sched, past, run, rec>>

RecStep(p) == Describe(p) \/ Terminate(p) \/ StartRun(p)

-----------------------------------------------------------------------------
(* Properties. *)

(* A workflow for the schedule as it is now is never terminated, however old *)
(* the schedules are that other reconciliations have read                    *)
(* (docs/operations/RELIABILITY.md:154).                                     *)
CurrentTimerSurvives ==
  [][\A x \in Exams : run[x].status = "running" /\ run[x].revision = sched[x].revision
                        => run'[x].status # "terminated"]_timerVars
=============================================================================
