--------------------------- MODULE JudgeExecution ---------------------------
(***************************************************************************)
(* Durable judging of one submission: the Submission and JudgeExecution    *)
(* rows, the workflow of each execution (durableJudgeWorkflow), the        *)
(* activities it runs and the sweeper that recovers it.                    *)
(*                                                                         *)
(* An execution is numbered by its generation.  A workflowId is the pair   *)
(* (execution, recovery epoch).  Row-locked transactions are atomic; an    *)
(* activity is a task of its own, so that it outlives the workflow that    *)
(* stopped waiting for it.  Sleeps and delays are left out: every step     *)
(* may take any time.  A stage result is one of NumStages checkpoints, a   *)
(* verdict is named by the execution that produced it.                     *)
(***************************************************************************)
EXTENDS Naturals, FiniteSets

CONSTANTS
  MaxExecs,    \* bound: executions (generations) of the submission
  MaxEpochs,   \* bound: recovery epochs of one execution
  NumStages,   \* stages of the pinned problem
  Tokens,      \* lease tokens (randomUUID; fresh = referred to by nobody)
  Tasks,       \* bound: activities in flight
  LateClaims,  \* may an executeJudgeStage that timed out before its claim run on?
  LateCommits  \* may a completePinnedJudge that timed out run on?

NoToken == "none"
NoTask == "none"

ASSUME ParameterAssumption ==
  /\ MaxExecs \in Nat \ {0} /\ MaxEpochs \in Nat /\ NumStages \in Nat \ {0}
  /\ NoToken \notin Tokens /\ NoTask \notin Tasks
  /\ LateClaims \in BOOLEAN /\ LateCommits \in BOOLEAN

VARIABLES
  sub,        \* the Submission row
  exec,       \* the JudgeExecution rows
  wf,         \* the workflow of each execution's current epoch
  task,       \* activities
  live,       \* lease tokens that have sandbox resources
  outbox,     \* executions with a pending dispatch row
  committed,  \* history: executions whose verdict was committed
  scored      \* history: executions whose score effects were applied

vars == <<sub, exec, wf, task, live, outbox, committed, scored>>

Execs == 1 .. MaxExecs
Terminal == {"completed", "cancelled"}
Unfinished == {"queued", "waiting_capacity", "running", "recovering", "blocked", "finalizing"}
Run(e, p) == [exec |-> e, epoch |-> p]
NoRun == Run(0, 0)

SubmissionRow ==
  [gen : 0 .. MaxExecs, active : [exec : 0 .. MaxExecs, epoch : 0 .. MaxEpochs],
   status : {"pending_upload", "queued", "running", "system_error", "verdict"},
   score : 0 .. MaxExecs, detail : 0 .. MaxExecs]

ExecutionRow ==
  [state : {"absent"} \cup Unfinished \cup Terminal, epoch : 0 .. MaxEpochs,
   stages : 0 .. NumStages, lease : Tokens \cup {NoToken}, fresh : BOOLEAN,
   guarded : BOOLEAN,  \* the outbox has a write guard for the verdict of this epoch
   rejudge : BOOLEAN,
   oldStatus : {"pending_upload", "queued", "running", "system_error", "verdict"},
   oldScore : 0 .. MaxExecs]

WorkflowState ==
  [pc : {"none", "status", "reconcile", "reconciling", "blocked", "queue", "await",
         "publish", "completing", "effects", "settle", "finish", "recover", "closed"},
   idx : 0 .. NumStages, tok : Tokens \cup {NoToken}, ended : BOOLEAN, fin : BOOLEAN,
   more : BOOLEAN, published : BOOLEAN,
   task : Tasks \cup {NoTask}, cleaner : Tasks \cup {NoTask}]

Task ==
  [kind : {"free", "stage", "cleanup", "complete"}, run : [exec : 0 .. MaxExecs, epoch : 0 .. MaxEpochs],
   pc : {"unstarted", "claimed", "executing", "save", "catch", "cleaning", "releasing",
         "preflight", "guard", "commit", "done", "lost"},
   index : 0 .. NumStages, token : Tokens \cup {NoToken}, defer : BOOLEAN,
   out : {"none", "obsolete", "cleanup", "saved", "finished", "ok", "null", "failed"}]

(* Every variable stays in its type. *)
TypeOK ==
  /\ sub \in SubmissionRow
  /\ exec \in [Execs -> ExecutionRow]
  /\ wf \in [Execs -> WorkflowState]
  /\ task \in [Tasks -> Task]
  /\ live \subseteq Tokens
  /\ outbox \subseteq Execs
  /\ committed \subseteq Execs
  /\ scored \subseteq Execs

NewExecution == [state |-> "absent", epoch |-> 0, stages |-> 0, lease |-> NoToken,
                 fresh |-> FALSE, guarded |-> FALSE, rejudge |-> FALSE, oldStatus |-> "queued", oldScore |-> 0]
NoWorkflow == [pc |-> "none", idx |-> 0, tok |-> NoToken, ended |-> FALSE, fin |-> FALSE,
               more |-> FALSE, published |-> FALSE, task |-> NoTask, cleaner |-> NoTask]
FreeTask == [kind |-> "free", run |-> NoRun, pc |-> "done", index |-> 0, token |-> NoToken,
             defer |-> FALSE, out |-> "none"]

Init ==
  /\ sub = [gen |-> 0, active |-> NoRun, status |-> "pending_upload", score |-> 0, detail |-> 0]
  /\ exec = [e \in Execs |-> NewExecution]
  /\ wf = [e \in Execs |-> NoWorkflow]
  /\ task = [t \in Tasks |-> FreeTask]
  /\ live = {}
  /\ outbox = {}
  /\ committed = {}
  /\ scored = {}

-----------------------------------------------------------------------------
(* Acceptance, rejudge and its cancellation. *)

\* Mutant: forgets the executions that are waiting to be retried.
SupersededIfLive(row) ==
  IF row.state \in {"queued", "running"} THEN [row EXCEPT !.state = "cancelled"] ELSE row

Superseded(row) ==
  IF row.state \in Unfinished THEN [row EXCEPT !.state = "cancelled"] ELSE row

(* A new generation supersedes the unfinished ones; it is refused while one  *)
(* is finalizing.  A rejudge leaves the visible status alone.                *)
CreateJudgeExecution(rejudge) ==
  LET e == sub.gen + 1
  IN /\ e \in Execs
     /\ \A i \in Execs : exec[i].state # "finalizing"
     /\ exec' = [i \in Execs |->
          IF i = e
          THEN [NewExecution EXCEPT !.state = "queued", !.rejudge = rejudge,
                                    !.oldStatus = sub.status, !.oldScore = sub.score]
          ELSE Superseded(exec[i])]
     /\ sub' = [sub EXCEPT !.gen = e, !.active = Run(e, 0),
                           !.status = IF rejudge THEN @ ELSE "queued"]
     /\ outbox' = outbox \cup {e}
     /\ UNCHANGED <<wf, task, live, committed, scored>>

Accept == sub.gen = 0 /\ CreateJudgeExecution(FALSE)

Rejudge ==
  /\ sub.gen > 0
  /\ sub.status \notin {"pending_upload", "queued", "running"}
  /\ CreateJudgeExecution(TRUE)

Owned(e) == sub.gen = e /\ sub.active = Run(e, exec[e].epoch)

\* Mutant: a committed result may be cancelled too.
NeverCommittedFinalizing(e) == FALSE

CommittedFinalizing(e) ==
  exec[e].state = "finalizing" /\ sub.active = NoRun /\ sub.gen = e

CancelRejudge(e) ==
  /\ exec[e].rejudge
  /\ exec[e].state \in Unfinished
  /\ ~CommittedFinalizing(e)
  /\ exec' = [exec EXCEPT ![e].state = "cancelled"]
  /\ sub' = IF Owned(e)
            THEN [sub EXCEPT !.active = NoRun, !.status = exec[e].oldStatus,
                             !.score = exec[e].oldScore]
            ELSE sub
  /\ UNCHANGED <<wf, task, live, outbox, committed, scored>>

-----------------------------------------------------------------------------
(* Dispatch and recovery. *)

(* The outbox handler, with or without the per-student gate letting it       *)
(* through, and the direct attempts of kickJudgeExecution and                *)
(* dispatchNextJudgeExecutions.  REJECT_DUPLICATE: a workflowId starts once. *)
Dispatch(e, gate) ==
  /\ e \in outbox \/ (e = sub.gen /\ gate)
  /\ outbox' = outbox \ {e}
  /\ wf' = IF gate /\ exec[e].state \in Unfinished /\ wf[e].pc = "none"
           THEN [wf EXCEPT ![e].pc = "status"] ELSE wf
  /\ UNCHANGED <<sub, exec, task, live, committed, scored>>

(* The sweeper finds no workflow: enqueueJudgeDispatch. *)
Redispatch(e) ==
  /\ exec[e].state \in Unfinished
  /\ wf[e].pc = "none"
  /\ outbox' = outbox \cup {e}
  /\ UNCHANGED <<sub, exec, wf, task, live, committed, scored>>

(* The sweeper terminates a workflow past its progress deadline; what its    *)
(* activities answer from now on is read by nobody.                          *)
TerminateStalled(e) ==
  /\ exec[e].state \in Unfinished
  /\ exec[e].epoch < MaxEpochs
  /\ wf[e].pc \notin {"none", "closed"}
  /\ wf' = [wf EXCEPT ![e] = [NoWorkflow EXCEPT !.pc = "closed"]]
  /\ task' = [t \in Tasks |-> IF /\ t \in {wf[e].task, wf[e].cleaner}
                                 /\ task[t].pc \in {"done", "lost"}
                              THEN FreeTask ELSE task[t]]
  /\ UNCHANGED <<sub, exec, live, outbox, committed, scored>>

(* A new workflowId names a new verdict object, which nobody has guarded. *)
NextEpochRow(row) ==
  [row EXCEPT !.epoch = @ + 1, !.guarded = FALSE,
              !.state = IF @ = "finalizing" THEN "finalizing" ELSE "recovering"]

\* Mutants: the submission keeps naming the old workflow; finalizing executions
\* are taken for finished.
NewEpochKeepingOwner(e) ==
  /\ exec[e].state \in Unfinished
  /\ wf[e].pc = "closed"
  /\ exec[e].epoch < MaxEpochs
  /\ exec' = [exec EXCEPT ![e] = NextEpochRow(@)]
  /\ wf' = [wf EXCEPT ![e] = NoWorkflow]
  /\ outbox' = outbox \cup {e}
  /\ UNCHANGED <<sub, task, live, committed, scored>>
NewEpochUnlessFinalizing(e) ==
  /\ exec[e].state \in Unfinished \ {"finalizing"}
  /\ wf[e].pc = "closed"
  /\ exec[e].epoch < MaxEpochs
  /\ exec' = [exec EXCEPT ![e] = NextEpochRow(@)]
  /\ sub' = IF Owned(e) THEN [sub EXCEPT !.active = Run(e, NextEpochRow(exec[e]).epoch)] ELSE sub
  /\ wf' = [wf EXCEPT ![e] = NoWorkflow]
  /\ outbox' = outbox \cup {e}
  /\ UNCHANGED <<task, live, committed, scored>>

(* The sweeper finds the workflow closed: a new epoch takes over.  The lease *)
(* of the old one stays on the row.                                          *)
NewEpoch(e) ==
  /\ exec[e].state \in Unfinished
  /\ wf[e].pc = "closed"
  /\ exec[e].epoch < MaxEpochs
  /\ exec' = [exec EXCEPT ![e] = NextEpochRow(@)]
  /\ sub' = IF Owned(e) THEN [sub EXCEPT !.active = Run(e, NextEpochRow(exec[e]).epoch)] ELSE sub
  /\ wf' = [wf EXCEPT ![e] = NoWorkflow]
  /\ outbox' = outbox \cup {e}
  /\ UNCHANGED <<task, live, committed, scored>>

(* The executor confirms a removal only when the run is not active in its    *)
(* own process and the worker Pod that owns the lease is this one or is gone. *)
Removable(tok) == \A t \in Tasks : ~(task[t].pc = "executing" /\ task[t].token = tok)

\* Mutant: looks for completed executions only.
CleanupCompleted(e) ==
  /\ exec[e].state = "completed"
  /\ exec[e].lease # NoToken
  /\ ~exec[e].fresh
  /\ Removable(exec[e].lease)
  /\ live' = live \ {exec[e].lease}
  /\ exec' = [exec EXCEPT ![e].lease = NoToken]
  /\ UNCHANGED <<sub, wf, task, outbox, committed, scored>>

(* judgeCleanupWorkflow of a finished execution whose lease has run out. *)
CleanupTerminal(e) ==
  /\ exec[e].state \in Terminal
  /\ exec[e].lease # NoToken
  /\ ~exec[e].fresh
  /\ Removable(exec[e].lease)
  /\ live' = live \ {exec[e].lease}
  /\ exec' = [exec EXCEPT ![e].lease = NoToken]
  /\ UNCHANGED <<sub, wf, task, outbox, committed, scored>>

-----------------------------------------------------------------------------
(* Row updates shared by the workflow and the activities. *)

\* Mutant: finalizing can be left.
NextStateNotSticky(e, s) == s

(* setJudgeExecutionState: fenced by the workflowId, finalizing is sticky. *)
NextState(e, s) == IF exec[e].state = "finalizing" THEN "finalizing" ELSE s

SubmissionStatusFor(s) ==
  CASE s \in {"blocked", "recovering"} -> "system_error"
    [] s = "running" -> "running"
    [] OTHER -> "queued"

Settable(run) == exec[run.exec].epoch = run.epoch /\ exec[run.exec].state \in Unfinished

\* Mutant: the progress of a rejudge overwrites the visible status.
SetStateShowingRejudge(run, s) ==
  LET e == run.exec
  IN /\ exec' = IF Settable(run) THEN [exec EXCEPT ![e].state = NextState(e, s)] ELSE exec
     /\ sub' = IF Settable(run) /\ NextState(e, s) # "finalizing" /\ sub.gen = e /\ sub.active = run
               THEN [sub EXCEPT !.status = SubmissionStatusFor(NextState(e, s))] ELSE sub

SetState(run, s) ==
  LET e == run.exec
  IN /\ exec' = IF Settable(run) THEN [exec EXCEPT ![e].state = NextState(e, s)] ELSE exec
     /\ sub' = IF /\ Settable(run)
                  /\ ~exec[e].rejudge
                  /\ NextState(e, s) # "finalizing"
                  /\ sub.gen = e /\ sub.active = run
               THEN [sub EXCEPT !.status = SubmissionStatusFor(NextState(e, s))] ELSE sub

(* releaseJudgeStage *)
Released(run, tok) ==
  IF exec[run.exec].epoch = run.epoch /\ exec[run.exec].lease = tok
  THEN [exec EXCEPT ![run.exec] = [@ EXCEPT !.lease = NoToken, !.fresh = FALSE]]
  ELSE exec

-----------------------------------------------------------------------------
(* durableJudgeWorkflow.  The epoch of wf[e] is that of the row: a new epoch *)
(* starts only when the workflow of the old one is closed.                   *)

This(e) == Run(e, exec[e].epoch)

Loop(e) == [NoWorkflow EXCEPT !.pc = "status", !.published = wf[e].published]
Closed == [NoWorkflow EXCEPT !.pc = "closed"]

(* Where the iteration goes once no lease is held. *)
Unleased(w) ==
  [w EXCEPT !.tok = NoToken, !.ended = FALSE,
            !.pc = CASE w.ended -> "closed"
                     [] ~w.ended /\ ~w.fin -> "queue"
                     [] OTHER -> IF w.published THEN "settle" ELSE "publish"]

ReadStatus(e) ==
  /\ wf[e].pc = "status"
  /\ LET w == [wf[e] EXCEPT !.fin = (exec[e].state = "finalizing"),
                            !.ended = (exec[e].state \in Terminal),
                            !.idx = exec[e].stages, !.tok = exec[e].lease]
     IN wf' = [wf EXCEPT ![e] = IF w.tok = NoToken THEN Unleased(w)
                                ELSE [w EXCEPT !.pc = "reconcile"]]
  /\ UNCHANGED <<sub, exec, task, live, outbox, committed, scored>>

(* reconcileJudgeStage reads the row ... *)
ReconcileCheck(e) ==
  /\ wf[e].pc = "reconcile"
  /\ wf' = [wf EXCEPT ![e] = IF exec[e].lease # wf[e].tok THEN Unleased(@)
                             ELSE [@ EXCEPT !.pc = IF exec[e].fresh THEN "blocked"
                                                   ELSE "reconciling"]]
  /\ UNCHANGED <<sub, exec, task, live, outbox, committed, scored>>

(* ... and lets the executor remove what the token still has. *)
ReconcileStage(e, safe) ==
  /\ wf[e].pc = "reconciling"
  /\ IF safe
     THEN /\ Removable(wf[e].tok)
          /\ live' = live \ {wf[e].tok}
          /\ exec' = Released(This(e), wf[e].tok)
          /\ wf' = [wf EXCEPT ![e] = Unleased(@)]
     ELSE /\ wf' = [wf EXCEPT ![e].pc = "blocked"]
          /\ UNCHANGED <<exec, live>>
  /\ UNCHANGED <<sub, task, outbox, committed, scored>>

SetBlocked(e) ==
  /\ wf[e].pc = "blocked"
  /\ SetState(This(e), "blocked")
  /\ wf' = [wf EXCEPT ![e] = Loop(e)]
  /\ UNCHANGED <<task, live, outbox, committed, scored>>

StageTask(e, idx) == [FreeTask EXCEPT !.kind = "stage", !.run = This(e), !.pc = "unstarted",
                                      !.index = idx]
CleanupTask(e, tok) == [FreeTask EXCEPT !.kind = "cleanup", !.run = This(e), !.pc = "cleaning",
                                        !.token = tok]
CompleteTask(e) == [FreeTask EXCEPT !.kind = "complete", !.run = This(e), !.pc = "preflight"]

(* Marks the execution queued and schedules executeJudgeStage. *)
QueueStage(e, t) ==
  /\ wf[e].pc = "queue"
  /\ task[t].kind = "free"
  /\ SetState(This(e), "queued")
  /\ task' = [task EXCEPT ![t] = StageTask(e, wf[e].idx)]
  /\ wf' = [wf EXCEPT ![e] = [@ EXCEPT !.pc = "await", !.task = t, !.idx = 0]]
  /\ UNCHANGED <<live, outbox, committed, scored>>

(* The stage activity answered.  With resources left to remove, the slot     *)
(* goes on as the deferred cleanup while the workflow publishes.             *)
StageAnswered(e) ==
  LET t == wf[e].task
      deferred == task[t].defer /\ task[t].out \in {"saved", "finished"}
  IN /\ wf[e].pc = "await"
     /\ task[t].pc = "done"
     /\ task' = [task EXCEPT ![t] = IF deferred THEN CleanupTask(e, task[t].token) ELSE FreeTask]
     /\ wf' = [wf EXCEPT ![e] =
          CASE task[t].out = "obsolete" -> Closed
            [] task[t].out = "cleanup" -> Loop(e)
            [] task[t].out = "saved" ->
                 IF deferred THEN [@ EXCEPT !.pc = "settle", !.more = TRUE, !.task = NoTask,
                                            !.cleaner = t]
                 ELSE Loop(e)
            [] task[t].out = "finished" ->
                 [@ EXCEPT !.pc = IF wf[e].published THEN "settle" ELSE "publish",
                           !.fin = TRUE, !.task = NoTask,
                           !.cleaner = IF deferred THEN t ELSE NoTask]
            [] OTHER -> [@ EXCEPT !.pc = "recover", !.task = NoTask]]
     /\ UNCHANGED <<sub, exec, live, outbox, committed, scored>>

(* A heartbeat timeout.  Before the first heartbeat it just queues again.    *)
StageTimedOut(e) ==
  LET t == wf[e].task
      unstarted == task[t].pc = "unstarted"
  IN /\ wf[e].pc = "await"
     /\ task[t].pc # "done"
     /\ wf' = [wf EXCEPT ![e] = IF unstarted THEN Loop(e)
                                ELSE [@ EXCEPT !.pc = "recover", !.task = NoTask]]
     /\ task' = IF task[t].pc = "lost" \/ (unstarted /\ ~LateClaims)
                THEN [task EXCEPT ![t] = FreeTask] ELSE task
     /\ UNCHANGED <<sub, exec, live, outbox, committed, scored>>

StartComplete(e, t) ==
  /\ wf[e].pc = "publish"
  /\ task[t].kind = "free"
  /\ task' = [task EXCEPT ![t] = CompleteTask(e)]
  /\ wf' = [wf EXCEPT ![e] = [@ EXCEPT !.pc = "completing", !.task = t]]
  /\ UNCHANGED <<sub, exec, live, outbox, committed, scored>>

AfterPublish(w) == [w EXCEPT !.pc = "settle", !.task = NoTask, !.published = (w.cleaner # NoTask)]

CompleteAnswered(e) ==
  LET t == wf[e].task
  IN /\ wf[e].pc = "completing"
     /\ task[t].pc = "done"
     /\ task' = [task EXCEPT ![t] = FreeTask]
     /\ wf' = [wf EXCEPT ![e] =
          CASE task[t].out = "ok" -> [@ EXCEPT !.pc = "effects", !.task = NoTask]
            [] task[t].out = "null" -> AfterPublish(@)
            [] OTHER -> [@ EXCEPT !.pc = "recover", !.task = NoTask]]
     /\ UNCHANGED <<sub, exec, live, outbox, committed, scored>>

CompleteTimedOut(e) ==
  LET t == wf[e].task
  IN /\ wf[e].pc = "completing"
     /\ task[t].pc # "done"
     /\ wf' = [wf EXCEPT ![e] = [@ EXCEPT !.pc = "recover", !.task = NoTask]]
     /\ task' = IF task[t].pc = "lost" \/ ~LateCommits
                THEN [task EXCEPT ![t] = FreeTask] ELSE task
     /\ UNCHANGED <<sub, exec, live, outbox, committed, scored>>

(* updateContestScores / updateExamScores and publishVerdict. *)
ApplyEffects(e) ==
  /\ wf[e].pc = "effects"
  /\ scored' = scored \cup {e}
  /\ wf' = [wf EXCEPT ![e] = AfterPublish(@)]
  /\ UNCHANGED <<sub, exec, task, live, outbox, committed>>

(* await cleanup: nothing to wait for, removed, or failed. *)
AwaitCleanup(e) ==
  LET c == wf[e].cleaner
      failed == c # NoTask /\ task[c].out # "ok"
  IN /\ wf[e].pc = "settle"
     /\ c # NoTask => task[c].pc \in {"done", "lost"}
     /\ task' = IF c = NoTask THEN task ELSE [task EXCEPT ![c] = FreeTask]
     /\ wf' = [wf EXCEPT ![e] =
          IF failed THEN [@ EXCEPT !.pc = "recover", !.cleaner = NoTask]
          ELSE IF wf[e].more THEN Loop(e)
          ELSE [@ EXCEPT !.pc = "finish", !.cleaner = NoTask]]
     /\ UNCHANGED <<sub, exec, live, outbox, committed, scored>>

(* finishJudgeExecution; its answer may be lost. *)
FinishJudgeExecution(e, answered) ==
  /\ wf[e].pc = "finish"
  /\ exec' = IF exec[e].state = "cancelled" THEN exec
             ELSE [exec EXCEPT ![e] = [@ EXCEPT !.state = "completed", !.lease = NoToken,
                                                !.fresh = FALSE]]
  /\ wf' = [wf EXCEPT ![e] = IF answered THEN Closed ELSE [@ EXCEPT !.pc = "recover"]]
  /\ UNCHANGED <<sub, task, live, outbox, committed, scored>>

(* A journal or effect activity fails after its retries. *)
ActivityFails(e) ==
  /\ wf[e].pc \in {"status", "reconcile", "reconciling", "blocked", "queue", "publish",
                   "effects", "finish"}
  /\ wf' = [wf EXCEPT ![e] = [@ EXCEPT !.pc = "recover", !.tok = NoToken, !.ended = FALSE,
                                       !.idx = 0]]
  /\ UNCHANGED <<sub, exec, task, live, outbox, committed, scored>>

RecoveryStates(fin) ==
  IF fin THEN {"finalizing"} ELSE {"waiting_capacity", "blocked", "recovering"}

(* The catch block: waits for the cleanup, records the state (which may fail *)
(* too) and sleeps.                                                          *)
Recover(e, recorded) ==
  LET c == wf[e].cleaner
  IN /\ wf[e].pc = "recover"
     /\ c # NoTask => task[c].pc \in {"done", "lost"}
     /\ task' = IF c = NoTask THEN task ELSE [task EXCEPT ![c] = FreeTask]
     /\ IF recorded
        THEN \E s \in RecoveryStates(wf[e].fin) : SetState(This(e), s)
        ELSE UNCHANGED <<sub, exec>>
     /\ wf' = [wf EXCEPT ![e] = Loop(e)]
     /\ UNCHANGED <<live, outbox, committed, scored>>

-----------------------------------------------------------------------------
(* Activities. *)

Awaited(t) == \E e \in Execs : wf[e].task = t \/ wf[e].cleaner = t

(* The answer of an activity: the token is part of it when a cleanup is left *)
(* to do.  An activity nobody waits for just ends.                           *)
Ended(t, out) ==
  CASE ~Awaited(t) -> FreeTask
    [] Awaited(t) /\ task[t].defer /\ out \in {"saved", "finished"} ->
         [task[t] EXCEPT !.pc = "done", !.index = 0, !.out = out]
    [] OTHER -> [FreeTask EXCEPT !.kind = task[t].kind, !.out = out]

FreshToken(tok) ==
  /\ tok \notin live
  /\ \A e \in Execs : exec[e].lease # tok /\ wf[e].tok # tok
  /\ \A t \in Tasks : task[t].token # tok

(* executeJudgeStage: claimJudgeLease. *)
ClaimJudgeLease(t) ==
  LET e == task[t].run.exec
      obsolete == exec[e].epoch # task[t].run.epoch \/ exec[e].state \in Terminal
  IN /\ task[t].kind = "stage" /\ task[t].pc = "unstarted"
     /\ \/ /\ obsolete \/ exec[e].lease # NoToken
           /\ task' = [task EXCEPT ![t] = Ended(t, IF obsolete THEN "obsolete" ELSE "cleanup")]
           /\ UNCHANGED <<sub, exec>>
        \/ /\ ~obsolete /\ exec[e].lease = NoToken
           /\ \E tok \in Tokens :
                /\ FreshToken(tok)
                /\ exec' = [exec EXCEPT ![e] = [@ EXCEPT !.state = "running", !.lease = tok,
                                                         !.fresh = TRUE]]
                /\ task' = [task EXCEPT ![t] = [@ EXCEPT !.pc = "claimed", !.token = tok]]
           /\ sub' = IF ~exec[e].rejudge /\ Owned(e) THEN [sub EXCEPT !.status = "running"] ELSE sub
     /\ UNCHANGED <<wf, live, outbox, committed, scored>>

(* All stages are saved already. *)
PastLastStage(t) ==
  /\ task[t].kind = "stage" /\ task[t].pc = "claimed" /\ task[t].index >= NumStages
  /\ SetState(task[t].run, "finalizing")
  /\ task' = [task EXCEPT ![t] = [@ EXCEPT !.pc = "releasing", !.out = "finished"]]
  /\ UNCHANGED <<wf, live, outbox, committed, scored>>

StartSandbox(t) ==
  /\ task[t].kind = "stage" /\ task[t].pc = "claimed" /\ task[t].index < NumStages
  /\ live' = live \cup {task[t].token}
  /\ task' = [task EXCEPT ![t].pc = "executing"]
  /\ UNCHANGED <<sub, exec, wf, outbox, committed, scored>>

(* The sandbox ran; its resources are removed now or left to a cleanup. *)
SandboxRan(t, defer) ==
  /\ task[t].pc = "executing"
  /\ live' = IF defer THEN live ELSE live \ {task[t].token}
  /\ task' = [task EXCEPT ![t] = [@ EXCEPT !.pc = "save", !.defer = defer]]
  /\ UNCHANGED <<sub, exec, wf, outbox, committed, scored>>

(* It failed.  confirmed: a system error verdict, whose resources were       *)
(* removed, or an error that says nothing is left behind.  Otherwise the     *)
(* lease stays on the row.                                                   *)
StageFails(t, confirmed) ==
  /\ task[t].kind = "stage" /\ task[t].pc \in {"claimed", "executing"}
  /\ IF confirmed
     THEN /\ live' = live \ {task[t].token}
          /\ task' = [task EXCEPT ![t] = [@ EXCEPT !.pc = "releasing", !.out = "failed"]]
     ELSE /\ task' = [task EXCEPT ![t] = Ended(t, "failed")]
          /\ UNCHANGED live
  /\ UNCHANGED <<sub, exec, wf, outbox, committed, scored>>

HoldsLease(t) ==
  LET e == task[t].run.exec
  IN /\ exec[e].epoch = task[t].run.epoch
     /\ exec[e].lease = task[t].token
     /\ exec[e].state # "cancelled"

NextCheckpoint(t) == task[t].index = exec[task[t].run.exec].stages

\* Mutant: the lease is given up with the result, also before a deferred cleanup.
CheckpointedUnleased(row, final, defer) ==
  [row EXCEPT !.stages = @ + 1, !.state = IF final THEN "finalizing" ELSE "queued",
              !.lease = NoToken, !.fresh = FALSE]

Checkpointed(row, final, defer) ==
  [row EXCEPT !.stages = @ + 1, !.state = IF final THEN "finalizing" ELSE "queued",
              !.lease = IF defer THEN @ ELSE NoToken, !.fresh = defer /\ @]

Final(t, compiled) == ~compiled \/ task[t].index + 1 >= NumStages

(* saveJudgeStage; compiled = FALSE is a compilation error, which is final. *)
SaveJudgeStage(t, compiled) ==
  LET e == task[t].run.exec
      terminal == Final(t, compiled)
  IN /\ task[t].pc = "save"
     /\ IF HoldsLease(t) /\ NextCheckpoint(t)
        THEN /\ exec' = [exec EXCEPT ![e] = Checkpointed(@, terminal, task[t].defer)]
             /\ task' = [task EXCEPT ![t] = Ended(t, IF terminal THEN "finished" ELSE "saved")]
        ELSE /\ task' = [task EXCEPT ![t].pc = "catch"]
             /\ UNCHANGED exec
     /\ UNCHANGED <<sub, wf, live, outbox, committed, scored>>

(* The catch block removes what a deferred cleanup would have removed. *)
CatchCleanup(t, ok) ==
  /\ task[t].pc = "catch"
  /\ ~ok => task[t].defer
  /\ IF ok
     THEN /\ live' = live \ {task[t].token}
          /\ task' = [task EXCEPT ![t] = [@ EXCEPT !.pc = "releasing", !.out = "failed"]]
     ELSE /\ task' = [task EXCEPT ![t] = Ended(t, "failed")]
          /\ UNCHANGED live
  /\ UNCHANGED <<sub, exec, wf, outbox, committed, scored>>

(* cleanupJudgeStage *)
CleanupStage(t, ok) ==
  /\ task[t].pc = "cleaning"
  /\ IF ok
     THEN /\ live' = live \ {task[t].token}
          /\ task' = [task EXCEPT ![t] = [@ EXCEPT !.pc = "releasing", !.out = "ok"]]
     ELSE /\ task' = [task EXCEPT ![t] = Ended(t, "failed")]
          /\ UNCHANGED live
  /\ UNCHANGED <<sub, exec, wf, outbox, committed, scored>>

ReleaseJudgeStage(t) ==
  /\ task[t].pc = "releasing"
  /\ exec' = Released(task[t].run, task[t].token)
  /\ task' = [task EXCEPT ![t] = Ended(t, task[t].out)]
  /\ UNCHANGED <<sub, wf, live, outbox, committed, scored>>

HeartbeatJudgeStage(t) ==
  /\ task[t].pc \in {"claimed", "executing", "save", "catch", "cleaning"}
  /\ HoldsLease(t)
  /\ exec' = [exec EXCEPT ![task[t].run.exec].fresh = TRUE]
  /\ UNCHANGED <<sub, wf, task, live, outbox, committed, scored>>

StillOwner(t) ==
  LET e == task[t].run.exec
  IN exec[e].epoch = task[t].run.epoch /\ exec[e].state # "cancelled" /\ sub.gen = e

\* Mutant: does not recognize its own commit.
CompletePreflightForgetful(t) ==
  /\ task[t].pc = "preflight"
  /\ task' = [task EXCEPT ![t] = IF StillOwner(t) THEN [@ EXCEPT !.pc = "guard"]
                                 ELSE Ended(t, "null")]
  /\ UNCHANGED <<sub, exec, wf, live, outbox, committed, scored>>

(* completePinnedJudge / completeJudgeExecution: whose result is it? *)
CompletePreflight(t) ==
  /\ task[t].pc = "preflight"
  /\ task' = [task EXCEPT ![t] =
       CASE ~StillOwner(t) -> Ended(t, "null")
         [] StillOwner(t) /\ sub.active = NoRun /\ sub.detail = task[t].run.exec -> Ended(t, "ok")
         [] OTHER -> [@ EXCEPT !.pc = "guard"]]
  /\ UNCHANGED <<sub, exec, wf, live, outbox, committed, scored>>

(* completeJudge reads the submission again and enqueues the write guard of  *)
(* the verdict object.  The object is named after the workflowId, and        *)
(* enqueueMany refuses a row that exists with another availableAt: a second  *)
(* attempt of the same epoch throws.                                         *)
GuardVerdict(t) ==
  LET e == task[t].run.exec
      mine == sub.active = task[t].run
  IN /\ task[t].pc = "guard"
     /\ IF mine /\ ~exec[e].guarded
        THEN /\ exec' = [exec EXCEPT ![e].guarded = TRUE]
             /\ task' = [task EXCEPT ![t].pc = "commit"]
        ELSE /\ task' = [task EXCEPT ![t] = Ended(t, IF mine THEN "failed" ELSE "null")]
             /\ UNCHANGED exec
     /\ UNCHANGED <<sub, wf, live, outbox, committed, scored>>

(* The transaction of completeJudge, after the verdict object was stored. *)
CompleteJudge(t) ==
  LET e == task[t].run.exec
  IN /\ task[t].pc = "commit"
     /\ IF sub.active = task[t].run
        THEN /\ sub' = [sub EXCEPT !.active = NoRun, !.status = "verdict", !.score = e, !.detail = e]
             /\ committed' = committed \cup {e}
             /\ task' = [task EXCEPT ![t] = Ended(t, "ok")]
        ELSE /\ task' = [task EXCEPT ![t] = Ended(t, "null")]
             /\ UNCHANGED <<sub, committed>>
     /\ UNCHANGED <<exec, wf, live, outbox, scored>>

-----------------------------------------------------------------------------
(* Environment: storage and worker failures, time. *)

StorageFails(t) ==
  /\ task[t].pc \in {"save", "preflight", "guard", "commit"}
  /\ task' = [task EXCEPT ![t] = IF @.pc = "save" THEN [@ EXCEPT !.pc = "catch"]
                                 ELSE Ended(t, "failed")]
  /\ UNCHANGED <<sub, exec, wf, live, outbox, committed, scored>>

WorkerCrash(t) ==
  /\ task[t].kind # "free" /\ task[t].pc \notin {"done", "lost"}
  /\ task' = [task EXCEPT ![t] = IF Awaited(t)
                                 THEN [FreeTask EXCEPT !.kind = task[t].kind, !.pc = "lost"]
                                 ELSE FreeTask]
  /\ UNCHANGED <<sub, exec, wf, live, outbox, committed, scored>>

(* Job deadlines and TTLs remove what no row and no activity refers to. *)
ResourcesExpire(tok) ==
  /\ tok \in live
  /\ \A e \in Execs : exec[e].lease # tok
  /\ \A t \in Tasks : task[t].token # tok
  /\ live' = live \ {tok}
  /\ UNCHANGED <<sub, exec, wf, task, outbox, committed, scored>>

LeaseLapses(e) ==
  /\ exec[e].fresh
  /\ exec' = [exec EXCEPT ![e].fresh = FALSE]
  /\ UNCHANGED <<sub, wf, task, live, outbox, committed, scored>>

-----------------------------------------------------------------------------
WorkflowStep(e) ==
  \/ ReadStatus(e) \/ ReconcileCheck(e) \/ ReconcileStage(e, TRUE) \/ SetBlocked(e)
  \/ StageAnswered(e) \/ CompleteAnswered(e) \/ ApplyEffects(e) \/ AwaitCleanup(e)
  \/ FinishJudgeExecution(e, TRUE) \/ Recover(e, TRUE)
  \/ \E t \in Tasks : QueueStage(e, t) \/ StartComplete(e, t)

WorkflowFault(e) ==
  \/ StageTimedOut(e) \/ CompleteTimedOut(e) \/ ActivityFails(e) \/ ReconcileStage(e, FALSE)
  \/ FinishJudgeExecution(e, FALSE) \/ Recover(e, FALSE)

TaskStep(t) ==
  \/ ClaimJudgeLease(t) \/ PastLastStage(t) \/ StartSandbox(t) \/ ReleaseJudgeStage(t)
  \/ CompletePreflight(t) \/ GuardVerdict(t) \/ CompleteJudge(t) \/ CatchCleanup(t, TRUE) \/ CleanupStage(t, TRUE)
  \/ \E b \in BOOLEAN : SandboxRan(t, b) \/ SaveJudgeStage(t, b)

TaskFault(t) ==
  \/ WorkerCrash(t) \/ StorageFails(t) \/ CatchCleanup(t, FALSE) \/ CleanupStage(t, FALSE)
  \/ StageFails(t, TRUE) \/ StageFails(t, FALSE)

Next ==
  \/ Accept \/ Rejudge
  \/ \E e \in Execs : \/ CancelRejudge(e) \/ Dispatch(e, TRUE) \/ Dispatch(e, FALSE)
                      \/ Redispatch(e) \/ TerminateStalled(e) \/ NewEpoch(e)
                      \/ CleanupTerminal(e) \/ LeaseLapses(e)
                      \/ WorkflowStep(e) \/ WorkflowFault(e)
  \/ \E t \in Tasks : TaskStep(t) \/ HeartbeatJudgeStage(t) \/ TaskFault(t)
  \/ \E tok \in Tokens : ResourcesExpire(tok)

Spec == Init /\ [][Next]_vars

(* Temporal runs every workflow and activity on, and gives up an activity    *)
(* whose worker died; the sweeper and the outbox are run again and again,    *)
(* and let an execution through the gate; a lease that no activity renews    *)
(* lapses.  Nothing is assumed of failures.                                  *)
LostAnswer(e) == (StageTimedOut(e) \/ CompleteTimedOut(e)) /\ task[wf[e].task].pc = "lost"

Fairness ==
  /\ \A e \in Execs :
       /\ WF_vars(WorkflowStep(e) \/ LostAnswer(e))
       /\ SF_vars(ReconcileStage(e, TRUE))
       /\ SF_vars(\E t \in Tasks : QueueStage(e, t))
       /\ SF_vars(\E t \in Tasks : StartComplete(e, t))
       /\ SF_vars(Dispatch(e, TRUE)) /\ WF_vars(Redispatch(e))
       /\ WF_vars(NewEpoch(e)) /\ WF_vars(CleanupTerminal(e)) /\ WF_vars(LeaseLapses(e))
  /\ \A t \in Tasks : WF_vars(TaskStep(t))
  /\ \A tok \in Tokens : WF_vars(ResourcesExpire(tok))

FairSpec == Spec /\ Fairness

(* Of the above, what the cleanup of left leases needs: activities end, well *)
(* or not, leases lapse and the sweeper looks for them.                      *)
CleanupFairness ==
  /\ \A e \in Execs : WF_vars(CleanupTerminal(e)) /\ WF_vars(LeaseLapses(e))
  /\ \A t \in Tasks : WF_vars(TaskStep(t) \/ TaskFault(t))

CleanupSpec == Spec /\ CleanupFairness

-----------------------------------------------------------------------------
(* Properties. *)

(* Generations are fenced: only the newest execution is ever unfinished, and *)
(* until its verdict is committed it is the one the submission row names,    *)
(* whatever epochs, rejudges, cancellations and late activities came between. *)
(* Otherwise its verdict would be dropped and the submission judged forever. *)
OpenExecutionOwnsSubmission ==
  \A e \in Execs : exec[e].state \in Unfinished =>
    /\ sub.gen = e
    /\ sub.active = Run(e, exec[e].epoch) \/ (sub.active = NoRun /\ e \in committed)

(* No execution is completed without its verdict: a workflow that is told    *)
(* "nothing to publish" by completePinnedJudge completes only an execution   *)
(* whose verdict somebody else, a replaced workflow or a late activity, has  *)
(* committed.                                                                *)
CompletedHasVerdict ==
  \A e \in Execs : exec[e].state = "completed" => e \in committed

(* The execution stays finalizing until its score and notification effects   *)
(* succeed (docs/operations/RELIABILITY.md:145), whatever epochs and retries *)
(* came between the commit and the effects.                                  *)
CompletedIsScored ==
  \A e \in Execs : exec[e].state = "completed" => e \in scored

(* The previous result stays visible until the new one commits: status,      *)
(* score and detail of the submission come from one committed execution, and *)
(* an uncommitted rejudge has changed none of them, nor has its cancellation. *)
ResultStaysVisible ==
  /\ sub.status = "verdict" => sub.score = sub.detail /\ sub.score \in committed
  /\ sub.score = sub.detail
  /\ \A e \in Execs : exec[e].rejudge /\ sub.gen = e /\ e \notin committed =>
       sub.status = exec[e].oldStatus /\ sub.score = exec[e].oldScore

(* A verdict is committed from a finalizing execution only, that is, once    *)
(* its last stage, or a compilation error, was checkpointed.                 *)
VerdictFromFinalizing ==
  [][\A e \in committed' \ committed : exec[e].state = "finalizing" /\ exec[e].stages > 0]_vars

(* A lease leaves the row only when the sandbox resources of its token are   *)
(* gone: by then no cleanup can reach them any more.                         *)
LeaseOutlivesSandbox ==
  [][\A e \in Execs : exec[e].lease # NoToken /\ exec'[e].lease # exec[e].lease =>
       exec[e].lease \notin live']_vars

(* The promise of judging is kept: JudgePromise is implemented. *)
PhaseOf(e) ==
  CASE exec[e].state = "absent" -> "absent"
    [] exec[e].state = "completed" -> "finalized"
    [] exec[e].state = "cancelled" -> "void"
    [] OTHER -> IF e \in committed THEN "committed" ELSE "open"

Promise == INSTANCE JudgePromise WITH phase <- [e \in Execs |-> PhaseOf(e)], shown <- sub.detail

KeepsPromise == Promise!Spec

(* A submission shown as system_error is one that is being retried:          *)
(* infrastructure failures retry durably and never become a final verdict    *)
(* (docs/decisions/judge.md:106).                                            *)
SystemErrorIsRetried ==
  sub.status = "system_error" => \E e \in Execs : exec[e].state \in Unfinished

(* A step that is a failure, and not also what happens without one. *)
Fault ==
  \/ \E e \in Execs : \/ WorkflowFault(e) /\ ~LostAnswer(e) /\ ~WorkflowStep(e)
                      \/ TerminateStalled(e) \/ Dispatch(e, FALSE)
  \/ \E t \in Tasks : TaskFault(t) /\ ~TaskStep(t)

(* Infrastructure failures retry durably (docs/decisions/judge.md:106), and  *)
(* a failure while finalizing is followed by another attempt                 *)
(* (docs/architecture/JUDGE_PIPELINE.md:102): once failures stop, every      *)
(* accepted execution ends.                                                  *)
ExecutionEnds ==
  <>[][~Fault]_vars =>
    \A e \in Execs : exec[e].state \in Unfinished ~> exec[e].state \in Terminal

(* The verdict of the running epoch was guarded by an attempt that is gone   *)
(* and did not commit.                                                       *)
LeftGuard(e) ==
  /\ exec[e].guarded
  /\ e \notin committed
  /\ \A t \in Tasks : ~(task[t].pc = "commit" /\ task[t].run = This(e))

(* What the code achieves: once failures stop, every accepted execution ends, *)
(* unless a failure fell between the write guard of its verdict and the       *)
(* commit, and the sweeper never replaces the workflow that retries since.    *)
ExecutionEndsOrLeftGuard ==
  <>[][~Fault]_vars =>
    \A e \in Execs : \/ exec[e].state \in Unfinished ~> exec[e].state \in Terminal
                     \/ <>[]LeftGuard(e)

(* A lease left on a superseded or cancelled execution, whose activity may   *)
(* be running, dead or paused, is released in the end, failures or not.      *)
LeftLeaseIsReleased ==
  \A e \in Execs : exec[e].state \in Terminal ~> exec[e].lease = NoToken
=============================================================================
