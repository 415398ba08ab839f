---------------------------- MODULE DispatchGate ----------------------------
(***************************************************************************)
(* The gate that orders the executions of one student                      *)
(* (executeJudgeExecutionDispatch), its callers, and the sweeper that      *)
(* looks for executions which nobody dispatched.                           *)
(*                                                                         *)
(* Executions are numbered by createdAt, and become visible in any order:  *)
(* the timestamp is taken before the transaction commits.  A gate run is a *)
(* process of its own: it reads the execution, then looks for one that     *)
(* goes first, then starts the workflow, and every row may change in       *)
(* between.  due lists the unfinished executions by nextAttemptAt, which   *)
(* is how the sweeper reads them, the first SweepLimit at a time.          *)
(***************************************************************************)
EXTENDS Naturals, Sequences, FiniteSets

CONSTANTS
  N,           \* bound: executions of the student
  Gates,       \* bound: gate runs in flight
  MaxEpochs,   \* bound: recovery epochs of one execution
  SweepLimit   \* rows of one reconciliation (100 in the code)

ASSUME GateAssumption ==
  N \in Nat /\ MaxEpochs \in Nat /\ SweepLimit \in Nat \ {0}

VARIABLES
  exec,  \* the JudgeExecution rows
  wf,    \* the workflow of each execution's current epoch
  row,   \* the outbox row of that workflow
  due,   \* unfinished executions by nextAttemptAt
  gate,  \* gate runs
  wake,  \* the class of which the next execution is woken now
  missed \* history: the older executions that were not there yet when the
         \* gate run that started an execution looked for them

vars == <<exec, wf, row, due, gate, wake, missed>>

Execs == 1 .. N
Classes == {"foreground", "background"}

(* missed is history here too: what this run could not see. *)
Idle == [pc |-> "idle", exec |-> 0, epoch |-> 0, class |-> "background", outbox |-> FALSE,
         missed |-> {}]
GateRun(e, epoch, outbox) ==
  [pc |-> "read", exec |-> e, epoch |-> epoch, class |-> "background", outbox |-> outbox,
   missed |-> {}]

(* Every variable stays in its type. *)
TypeOK ==
  /\ exec \in [Execs -> [state : {"absent", "open", "ended"}, class : Classes,
                         rejudge : BOOLEAN, epoch : 0 .. MaxEpochs]]
  /\ wf \in [Execs -> {"none", "running", "closed"}]
  /\ row \in [Execs -> {"none", "pending", "leased", "ended"}]
  /\ due \in Seq(Execs)
  /\ gate \in [Gates -> [pc : {"idle", "read", "check", "start"}, exec : 0 .. N,
                         epoch : 0 .. MaxEpochs, class : Classes, outbox : BOOLEAN,
                         missed : SUBSET Execs]]
  /\ wake \in Classes \cup {"none"}
  /\ missed \in [Execs -> SUBSET Execs]

Init ==
  /\ exec = [e \in Execs |-> [state |-> "absent", class |-> "foreground",
                              rejudge |-> FALSE, epoch |-> 0]]
  /\ wf = [e \in Execs |-> "none"]
  /\ row = [e \in Execs |-> "none"]
  /\ due = <<>>
  /\ gate = [g \in Gates |-> Idle]
  /\ wake = "none"
  /\ missed = [e \in Execs |-> {}]

Open(e) == exec[e].state = "open"

(* Nothing tells apart what an ended execution was, *)
Ended(e) == [exec[e] EXCEPT !.state = "ended", !.class = "background", !.rejudge = FALSE]

(* and it is not compared with others any more. *)
Forget(e) == [x \in Execs |-> IF x = e THEN {} ELSE missed[x] \ {e}]

-----------------------------------------------------------------------------
(* The order of nextAttemptAt. *)

Position(s, e) == CHOOSE i \in 1 .. Len(s) : s[i] = e

Without(s, e) ==
  IF \E i \in 1 .. Len(s) : s[i] = e
  THEN SubSeq(s, 1, Position(s, e) - 1) \o SubSeq(s, Position(s, e) + 1, Len(s))
  ELSE s

Later(s, e) == Append(Without(s, e), e)

(* A new row is due now: behind everything but rows that were put off. *)
PutOff(e) == wf[e] # "none" \/ exec[e].epoch > 0
InsertNow(s, e, i) == SubSeq(s, 1, i) \o <<e>> \o SubSeq(s, i + 1, Len(s))
NowPosition(s, i) == \A j \in i + 1 .. Len(s) : PutOff(s[j])

-----------------------------------------------------------------------------
(* Acceptance and the end of executions. *)

(* A direct gate run is attempted at once and may get nowhere. *)
DirectGate(e) ==
  \/ gate' = gate
  \/ \E g \in Gates :
       gate[g].pc = "idle" /\ gate' = [gate EXCEPT ![g] = GateRun(e, exec[e].epoch, FALSE)]

(* A submission is foreground, a rejudge background; a rejudge supersedes    *)
(* the unfinished execution of its submission.  Servers differ in their      *)
(* clocks: e may have an earlier createdAt than what is there, and than old. *)
Accept(e, rejudge, old) ==
  /\ exec[e].state = "absent"
  /\ old # e => rejudge /\ Open(old)
  /\ exec' = [exec EXCEPT
       ![old] = Ended(old),
       ![e] = [state |-> "open", epoch |-> 0, rejudge |-> rejudge,
               class |-> IF rejudge THEN "background" ELSE "foreground"]]
  /\ \E i \in 0 .. Len(Without(due, old)) :
       /\ NowPosition(Without(due, old), i)
       /\ due' = InsertNow(Without(due, old), e, i)
  /\ row' = [row EXCEPT ![e] = "pending"]
  /\ \/ gate' = gate
     \/ \E g \in Gates :
          /\ ~rejudge /\ gate[g].pc = "idle"
          /\ gate' = [gate EXCEPT ![g] = GateRun(e, 0, FALSE)]
  /\ missed' = IF old # e THEN Forget(old) ELSE missed
  /\ UNCHANGED <<wf, wake>>

(* The workflow finishes (finishJudgeExecution) and goes on to wake others. *)
Finish(e) ==
  /\ Open(e)
  /\ wf[e] = "running"
  /\ exec' = [exec EXCEPT ![e] = Ended(e)]
  /\ wf' = [wf EXCEPT ![e] = "closed"]
  /\ due' = Without(due, e)
  /\ wake' = "foreground"
  /\ missed' = Forget(e)
  /\ UNCHANGED <<row, gate>>

(* cancelRejudge. *)
Cancel(e) ==
  /\ Open(e)
  /\ exec[e].rejudge
  /\ exec' = [exec EXCEPT ![e] = Ended(e)]
  /\ due' = Without(due, e)
  /\ wake' = "foreground"
  /\ missed' = Forget(e)
  /\ UNCHANGED <<wf, row, gate>>

(* setJudgeExecutionState of a running execution that must wait: it goes     *)
(* behind the student's other work and its next attempt is put off.          *)
Demote(e) ==
  /\ Open(e)
  /\ wf[e] = "running"
  /\ exec' = [exec EXCEPT ![e].class = "background"]
  /\ due' = Later(due, e)
  /\ UNCHANGED <<wf, row, gate, wake, missed>>

(* A workflow is cancelled, terminated or fails without having finished. *)
WorkflowDies(e) ==
  /\ Open(e)
  /\ wf[e] = "running"
  /\ exec[e].epoch < MaxEpochs
  /\ wf' = [wf EXCEPT ![e] = "closed"]
  /\ UNCHANGED <<exec, row, due, gate, wake, missed>>

-----------------------------------------------------------------------------
(* Waking the next executions: dispatchNextJudgeExecutions. *)

\* Mutant: a row that exists already is left alone.
EnqueueIfMissing(e) == row

(* enqueueJudgeDispatch: a row that has ended is reactivated, one that is    *)
(* pending or leased is left alone.                                          *)
Enqueued(e) == IF row[e] = "ended" THEN [row EXCEPT ![e] = "pending"] ELSE row

MayHoldLease(e) == wf[e] # "none" \/ exec[e].epoch > 0

(* The oldest unfinished execution of the class that holds no lease. *)
NextOf(class, e) ==
  /\ Open(e) /\ exec[e].class = class
  /\ \A x \in 1 .. e - 1 : Open(x) /\ exec[x].class = class => MayHoldLease(x)

Following(class) == IF class = "foreground" THEN "background" ELSE "none"

WakeNext ==
  /\ wake # "none"
  /\ wake' = Following(wake)
  /\ \/ \E x \in Execs : NextOf(wake, x) /\ row' = Enqueued(x) /\ DirectGate(x)
     \/ UNCHANGED <<row, gate>>  \* nobody, or every one of them holds a lease
  /\ UNCHANGED <<exec, wf, due, missed>>

(* The process that was waking the others dies. *)
WakeLost ==
  /\ wake # "none"
  /\ wake' = "none"
  /\ UNCHANGED <<exec, wf, row, due, gate, missed>>

-----------------------------------------------------------------------------
(* The gate: executeJudgeExecutionDispatch. *)

ClaimRow(g, e) ==
  /\ gate[g].pc = "idle"
  /\ row[e] = "pending"
  /\ row' = [row EXCEPT ![e] = "leased"]
  /\ gate' = [gate EXCEPT ![g] = GateRun(e, exec[e].epoch, TRUE)]
  /\ UNCHANGED <<exec, wf, due, wake, missed>>

Current(g) == exec[gate[g].exec].epoch = gate[g].epoch

(* The handler returns: its row has succeeded, whether or not it started     *)
(* anything.                                                                 *)
EndGate(g) ==
  /\ gate' = [gate EXCEPT ![g] = Idle]
  /\ row' = IF gate[g].outbox /\ Current(g) /\ row[gate[g].exec] = "leased"
            THEN [row EXCEPT ![gate[g].exec] = "ended"] ELSE row

ReadRun(g) ==
  /\ gate[g].pc = "read"
  /\ IF Open(gate[g].exec) /\ Current(g)
     THEN /\ gate' = [gate EXCEPT ![g].pc = "check", ![g].class = exec[gate[g].exec].class]
          /\ row' = row
     ELSE EndGate(g)
  /\ UNCHANGED <<exec, wf, due, wake, missed>>

\* Mutants: work of the own class does not block; only what was started blocks.
BlockedByForeground(e, class) ==
  \E x \in Execs \ {e} : Open(x) /\ class = "background" /\ exec[x].class = "foreground"
BlockedByStarted(e, class) ==
  \E x \in Execs \ {e} : Open(x) /\ exec[x].class = class /\ wf[x] # "none"

(* Another unfinished execution of the student goes first. *)
Blocked(e, class) ==
  \E x \in Execs \ {e} :
    /\ Open(x)
    /\ \/ class = "background" /\ exec[x].class = "foreground"
       \/ exec[x].class = class /\ x < e

NotThereYet(e) == {x \in 1 .. e - 1 : exec[x].state = "absent"}

(* A run that may go on needs the class no more. *)
CheckBlocker(g) ==
  /\ gate[g].pc = "check"
  /\ IF Blocked(gate[g].exec, gate[g].class)
     THEN EndGate(g)
     ELSE /\ gate' = [gate EXCEPT ![g].pc = "start", ![g].class = "background",
                                  ![g].missed = NotThereYet(gate[g].exec)]
          /\ row' = row
  /\ UNCHANGED <<exec, wf, due, wake, missed>>

(* REJECT_DUPLICATE: a workflowId is started once. *)
StartWorkflow(g) ==
  /\ gate[g].pc = "start"
  /\ wf' = IF Current(g) /\ wf[gate[g].exec] = "none"
           THEN [wf EXCEPT ![gate[g].exec] = "running"] ELSE wf
  /\ missed' = IF wf' = wf THEN missed
               ELSE [missed EXCEPT ![gate[g].exec] = gate[g].missed]
  /\ EndGate(g)
  /\ UNCHANGED <<exec, due, wake>>

(* The run throws or dies: the row is retried, stays leased or is buried. *)
GateFails(g) ==
  /\ gate[g].pc # "idle"
  /\ gate' = [gate EXCEPT ![g] = Idle]
  /\ row' \in {row} \cup
       {[row EXCEPT ![gate[g].exec] = s] : s \in
          IF gate[g].outbox /\ Current(g) /\ row[gate[g].exec] = "leased"
          THEN {"pending", "ended"} ELSE {}}
  /\ UNCHANGED <<exec, wf, due, wake, missed>>

(* The lease of a row whose handler died. *)
LeaseExpires(e) ==
  /\ row[e] = "leased"
  /\ \A g \in Gates : ~(gate[g].pc # "idle" /\ gate[g].outbox /\ gate[g].exec = e
                          /\ gate[g].epoch = exec[e].epoch)
  /\ row' = [row EXCEPT ![e] = "pending"]
  /\ UNCHANGED <<exec, wf, due, gate, wake, missed>>

-----------------------------------------------------------------------------
(* The sweeper: reconcileJudgeExecutions. *)

Candidate(e) == Open(e) /\ \E i \in 1 .. Len(due) : i <= SweepLimit /\ due[i] = e

(* No workflow: dispatch again.  nextAttemptAt stays as it is. *)
SweepMissing(e) ==
  /\ Candidate(e) /\ wf[e] = "none" /\ row[e] = "ended"
  /\ row' = Enqueued(e)
  /\ UNCHANGED <<exec, wf, due, gate, wake, missed>>

(* A healthy workflow: look again in a minute. *)
SweepRunning(e) ==
  /\ Candidate(e) /\ wf[e] = "running"
  /\ due' = Later(due, e)
  /\ UNCHANGED <<exec, wf, row, gate, wake, missed>>

(* A closed workflow: a new epoch, in the background. *)
SweepClosed(e) ==
  /\ Candidate(e) /\ wf[e] = "closed"
  /\ exec[e].epoch < MaxEpochs
  /\ exec' = [exec EXCEPT ![e].epoch = @ + 1, ![e].class = "background"]
  /\ wf' = [wf EXCEPT ![e] = "none"]
  /\ row' = [row EXCEPT ![e] = "pending"]
  /\ due' = Later(due, e)
  /\ UNCHANGED <<gate, wake, missed>>

Sweep(e) == SweepMissing(e) \/ SweepRunning(e) \/ SweepClosed(e)

-----------------------------------------------------------------------------
GateStep(g) == ReadRun(g) \/ CheckBlocker(g) \/ StartWorkflow(g)

\* A step that is a failure, and not also what happens without one.
Fault == \/ \E g \in Gates : GateFails(g) /\ ~GateStep(g)
         \/ WakeLost /\ ~WakeNext

Next ==
  \/ \E e, old \in Execs : \E rejudge \in BOOLEAN : Accept(e, rejudge, old)
  \/ \E e \in Execs : \/ Finish(e) \/ Cancel(e) \/ Demote(e) \/ WorkflowDies(e)
                      \/ LeaseExpires(e) \/ Sweep(e)
                      \/ \E g \in Gates : ClaimRow(g, e)
  \/ \E g \in Gates : GateStep(g) \/ GateFails(g)
  \/ WakeNext \/ WakeLost

Spec == Init /\ [][Next]_vars

(* The outbox runs every row that is pending, strongly since handlers may    *)
(* all be busy for a while; leases expire; the sweeper runs every minute; a  *)
(* workflow that runs finishes or dies.                                      *)
Fairness ==
  /\ \A g \in Gates : WF_vars(GateStep(g))
  /\ WF_vars(WakeNext)
  /\ \A e \in Execs :
       /\ SF_vars(\E g \in Gates : ClaimRow(g, e))
       /\ WF_vars(LeaseExpires(e))
       /\ WF_vars(SweepMissing(e)) /\ WF_vars(SweepClosed(e)) /\ WF_vars(SweepRunning(e))
       /\ WF_vars(Finish(e))

FairSpec == Spec /\ Fairness

-----------------------------------------------------------------------------
(* Properties. *)

Dispatched(e) == Open(e) /\ wf[e] = "running"

(* Of the submissions of a student that were not put back, at most one is    *)
(* dispatched, and of the rejudges at most one, through every interleaving   *)
(* of gate runs that read before and start after others.  The one exception  *)
(* is an acceptance that commits late: an older execution is dispatched      *)
(* beside a younger one only if it became visible after the gate run that    *)
(* started the younger one had looked.                                       *)
OneAtATime ==
  \A e \in Execs : \A x \in 1 .. e - 1 :
    /\ Dispatched(e) /\ Dispatched(x)
    /\ \/ exec[e].class = "foreground" /\ exec[x].class = "foreground"
       \/ exec[e].rejudge /\ exec[x].rejudge
    => x \in missed[e]

(* The submissions of a student are started in the order of acceptance, and  *)
(* so are the rejudges: one overtakes an older one that still waits to be    *)
(* started only if that one became visible too late for its gate run to see. *)
InAcceptanceOrder ==
  [][\A e \in Execs : wf[e] = "none" /\ wf'[e] = "running" =>
       \A x \in 1 .. e - 1 :
         /\ Open(x) /\ wf[x] = "none" /\ exec[x].epoch = 0
         /\ exec[x].rejudge = exec[e].rejudge
         => x \in missed'[e]]_vars

(* Every accepted execution ends (docs/operations/RELIABILITY.md:146: the    *)
(* sweeper redispatches missing work and recovers closed workflows), though  *)
(* a gate run that finds a blocker counts as done, wake-ups may be lost and  *)
(* workflows may die.  Gate runs are assumed to stop failing.                *)
AcceptedIsJudged ==
  <>[][~Fault]_vars => \A e \in Execs : Open(e) ~> exec[e].state = "ended"
=============================================================================
