------------------------ MODULE JudgeExecutionProofs ------------------------
(***************************************************************************)
(* Durable judging for any number of executions, recovery epochs, stages,  *)
(* leases and activities, in four parts, each with an invariant of its own *)
(* that the next one rests on:                                             *)
(*   IInv       types, and the ownership of the submission by its newest   *)
(*              execution;                                                 *)
(*   JInv       who waits for whom, whose verdict is shown and what is     *)
(*              settled: no completion without a verdict, and the previous *)
(*              result stays visible;                                      *)
(*   FinalInv   what finalizing means: a verdict is committed from a       *)
(*              finalizing execution, and JudgePromise is implemented;     *)
(*   ScoredInv  no completion before the effects were applied.             *)
(* FinalInv needs ~LateClaims and ScoredInv ~LateCommits, the two things   *)
(* an activity that was given up may do in the code.                       *)
(***************************************************************************)
EXTENDS JudgeExecution, TLAPS

(* An activity that has not answered. *)
Busy(t) == task[t].pc \notin {"done", "lost"}

(* Activities and workflows belong to executions that exist. *)
ActivitiesHaveRows ==
  /\ \A t \in Tasks : Busy(t) => /\ task[t].run.exec \in Execs
                                 /\ exec[task[t].run.exec].state # "absent"
  /\ \A e \in Execs : wf[e].pc # "none" => exec[e].state # "absent"

(* A stage that runs has a lease and is not past the last one. *)
StagesHaveLeases ==
  \A t \in Tasks :
    /\ task[t].pc \in {"claimed", "executing", "save"} => task[t].token \in Tokens
    /\ task[t].pc \in {"executing", "save"} => task[t].index < NumStages

(* Nothing can write to a completed execution: it has no lease. *)
CompletedIsFenced == \A e \in Execs : exec[e].state = "completed" => exec[e].lease = NoToken

FenceInv ==
  /\ OpenExecutionOwnsSubmission
  /\ ActivitiesHaveRows
  /\ StagesHaveLeases
  /\ CompletedIsFenced

IInv == TypeOK /\ FenceInv

-----------------------------------------------------------------------------
(* Types of the rows, workflows and activities that the actions build. *)

LEMMA Zero == /\ 0 \in 0 .. MaxExecs /\ 0 \in 0 .. MaxEpochs /\ 0 \in 0 .. NumStages
              /\ Execs \subseteq 0 .. MaxExecs
BY ParameterAssumption DEF Execs

LEMMA RunType ==
  ASSUME NEW e \in 0 .. MaxExecs, NEW p \in 0 .. MaxEpochs
  PROVE  Run(e, p) \in [exec : 0 .. MaxExecs, epoch : 0 .. MaxEpochs]
BY DEF Run

LEMMA NewRowsType ==
  /\ NewExecution \in ExecutionRow
  /\ NoWorkflow \in WorkflowState
  /\ FreeTask \in Task
  /\ NoRun \in [exec : 0 .. MaxExecs, epoch : 0 .. MaxEpochs]
BY Zero DEF NewExecution, ExecutionRow, NoWorkflow, WorkflowState, FreeTask, Task, NoRun, Run,
   Unfinished, Terminal

LEMMA InitType == Init => TypeOK
BY Zero, NewRowsType DEF Init, TypeOK, SubmissionRow

LEMMA WorkflowTypes ==
  ASSUME TypeOK, NEW e \in Execs
  PROVE  Loop(e) \in WorkflowState /\ Closed \in WorkflowState
BY Zenon, NewRowsType DEF TypeOK, Loop, Closed, WorkflowState

LEMMA UnleasedType ==
  ASSUME NEW w \in WorkflowState
  PROVE  Unleased(w) \in WorkflowState
BY Zenon DEF Unleased, WorkflowState

LEMMA AfterPublishType ==
  ASSUME NEW w \in WorkflowState
  PROVE  AfterPublish(w) \in WorkflowState
BY Zenon DEF AfterPublish, WorkflowState

LEMMA EndedType ==
  ASSUME TypeOK, NEW t \in Tasks,
         NEW out \in {"none", "obsolete", "cleanup", "saved", "finished", "ok", "null", "failed"}
  PROVE  Ended(t, out) \in Task /\ Ended(t, out).pc = "done"
BY ZenonT(60), Zero, NewRowsType DEF TypeOK, Ended, FreeTask, Task

LEMMA StartedTypes ==
  ASSUME TypeOK, NEW e \in Execs
  PROVE  /\ This(e) \in [exec : 0 .. MaxExecs, epoch : 0 .. MaxEpochs]
         /\ \A i \in 0 .. NumStages : StageTask(e, i) \in Task
         /\ \A k \in Tokens \cup {NoToken} : CleanupTask(e, k) \in Task
         /\ CompleteTask(e) \in Task
<1>1. This(e) \in [exec : 0 .. MaxExecs, epoch : 0 .. MaxEpochs]
  BY Zenon, Zero, RunType DEF This, TypeOK, ExecutionRow
<1> QED BY ZenonT(60), <1>1, NewRowsType DEF StageTask, CleanupTask, CompleteTask, Task

LEMMA StateRow ==
  ASSUME NEW row \in ExecutionRow, NEW s \in Unfinished \cup Terminal
  PROVE  LET r == [row EXCEPT !.state = s]
         IN r \in ExecutionRow /\ r.state = s /\ r.epoch = row.epoch /\ r.lease = row.lease
BY DEF ExecutionRow

LEMMA StatusRow ==
  ASSUME TypeOK, NEW s \in {"pending_upload", "queued", "running", "system_error", "verdict"}
  PROVE  LET r == [sub EXCEPT !.status = s]
         IN r \in SubmissionRow /\ r.gen = sub.gen /\ r.active = sub.active
BY DEF TypeOK, SubmissionRow

LEMMA ReleasedRow ==
  ASSUME NEW row \in ExecutionRow
  PROVE  LET r == [row EXCEPT !.lease = NoToken, !.fresh = FALSE]
         IN r \in ExecutionRow /\ r.state = row.state /\ r.epoch = row.epoch /\ r.lease = NoToken
BY Zenon DEF ExecutionRow

LEMMA SetStateRows ==
  ASSUME TypeOK, NEW run \in [exec : 0 .. MaxExecs, epoch : 0 .. MaxEpochs],
         NEW s \in Unfinished, SetState(run, s)
  PROVE  /\ sub' \in SubmissionRow /\ sub'.gen = sub.gen /\ sub'.active = sub.active
         /\ exec' \in [Execs -> ExecutionRow]
         /\ \A e \in Execs : /\ exec'[e].epoch = exec[e].epoch /\ exec'[e].lease = exec[e].lease
                             /\ \/ exec'[e].state = exec[e].state
                                \/ exec[e].state \in Unfinished /\ exec'[e].state \in Unfinished
<1> DEFINE x == NextState(run.exec, s)
           row == [exec[run.exec] EXCEPT !.state = x]
           new == [sub EXCEPT !.status = SubmissionStatusFor(x)]
<1>1. x \in Unfinished
  BY DEF NextState, Unfinished
<1>2. SubmissionStatusFor(x) \in {"pending_upload", "queued", "running", "system_error", "verdict"}
  BY DEF SubmissionStatusFor
<1>3. new \in SubmissionRow /\ new.gen = sub.gen /\ new.active = sub.active
  BY <1>2, StatusRow
<1>4. run.exec \in Execs => /\ row \in ExecutionRow /\ row.state = x
                            /\ row.epoch = exec[run.exec].epoch
                            /\ row.lease = exec[run.exec].lease
  BY <1>1, StateRow DEF TypeOK
<1>5. /\ exec' = exec \/ (Settable(run) /\ exec' = [exec EXCEPT ![run.exec] = row])
      /\ sub' \in {sub, new}
  BY DEF SetState
<1>6. Settable(run) => exec[run.exec].state \in Unfinished
  BY DEF Settable
<1> HIDE DEF x, row, new
<1> QED BY <1>1, <1>3, <1>4, <1>5, <1>6 DEF TypeOK

LEMMA ReleasedRows ==
  ASSUME TypeOK, NEW run, NEW k
  PROVE  /\ Released(run, k) \in [Execs -> ExecutionRow]
         /\ \A e \in Execs : /\ Released(run, k)[e].state = exec[e].state
                             /\ Released(run, k)[e].epoch = exec[e].epoch
                             /\ Released(run, k)[e].lease \in {exec[e].lease, NoToken}
<1> DEFINE row == [exec[run.exec] EXCEPT !.lease = NoToken, !.fresh = FALSE]
<1>1. Released(run, k) \in {exec, [exec EXCEPT ![run.exec] = row]}
  BY DEF Released
<1>2. run.exec \in Execs => /\ row \in ExecutionRow
                            /\ row.state = exec[run.exec].state
                            /\ row.epoch = exec[run.exec].epoch
                            /\ row.lease = NoToken
  BY Zenon, ReleasedRow DEF TypeOK
<1> HIDE DEF row
<1> QED BY <1>1, <1>2 DEF TypeOK

-----------------------------------------------------------------------------
(* What FenceInv asks of a step, by what the step leaves alone.              *)

(* The rows keep their owner, and no execution is opened or forgotten.       *)
RowsKept ==
  /\ sub'.gen = sub.gen /\ sub'.active = sub.active
  /\ committed \subseteq committed'
  /\ \A e \in Execs :
       /\ exec'[e].epoch = exec[e].epoch
       /\ exec'[e].state \in Unfinished => exec[e].state \in Unfinished
       /\ exec[e].state # "absent" => exec'[e].state # "absent"
       /\ exec'[e].state = "completed" =>
            (exec[e].state = "completed" /\ exec'[e].lease \in {exec[e].lease, NoToken})
            \/ exec'[e].lease = NoToken

(* An activity is as it was, has started, has answered, or only moved on. *)
TaskKept(t) ==
  \/ task'[t] = task[t]
  \/ /\ task'[t].pc \in {"unstarted", "cleaning", "preflight"}
     /\ task'[t].run.exec \in Execs /\ exec[task'[t].run.exec].state # "absent"
  \/ task'[t].pc \in {"done", "lost"}
  \/ /\ Busy(t) /\ task'[t].run = task[t].run
     /\ task'[t].token = task[t].token /\ task'[t].index = task[t].index
     /\ task'[t].pc \in {"claimed", "executing", "save"} =>
          /\ task[t].pc \in {"claimed", "executing", "save"}
          /\ task'[t].pc \in {"executing", "save"} =>
               task[t].pc \in {"executing", "save"} \/ task[t].index < NumStages

WorkflowsKept == \A e \in Execs : wf'[e].pc # "none" => wf[e].pc # "none"

LEMMA RowsKeptOwner ==
  ASSUME IInv, RowsKept
  PROVE  OpenExecutionOwnsSubmission' /\ CompletedIsFenced'
BY DEF IInv, FenceInv, RowsKept, OpenExecutionOwnsSubmission, CompletedIsFenced, Run

LEMMA KeptFence ==
  ASSUME IInv, RowsKept, WorkflowsKept, \A t \in Tasks : TaskKept(t)
  PROVE  FenceInv'
<1>1. OpenExecutionOwnsSubmission' /\ CompletedIsFenced'
  BY RowsKeptOwner
<1>2. ActivitiesHaveRows'
  BY DEF IInv, FenceInv, RowsKept, WorkflowsKept, TaskKept, ActivitiesHaveRows, Busy
<1>3. StagesHaveLeases'
  BY DEF IInv, FenceInv, TaskKept, StagesHaveLeases, Busy
<1> QED BY <1>1, <1>2, <1>3 DEF FenceInv

-----------------------------------------------------------------------------
(* Acceptance, rejudge and its cancellation. *)

LEMMA SupersededRow ==
  ASSUME NEW row \in ExecutionRow
  PROVE  /\ Superseded(row) \in ExecutionRow
         /\ Superseded(row).state \notin Unfinished
         /\ Superseded(row).lease = row.lease
         /\ row.state # "absent" => Superseded(row).state # "absent"
         /\ Superseded(row).state = "completed" => row.state = "completed"
<1> DEFINE r == [row EXCEPT !.state = "cancelled"]
<1>1. r \in ExecutionRow /\ r.state = "cancelled" /\ r.lease = row.lease
  BY DEF ExecutionRow, Terminal
<1>2. Superseded(row) = IF row.state \in Unfinished THEN r ELSE row
  BY DEF Superseded
<1> HIDE DEF r
<1> QED BY <1>1, <1>2 DEF Unfinished

LEMMA CreateStep ==
  ASSUME IInv, NEW rejudge \in BOOLEAN, CreateJudgeExecution(rejudge)
  PROVE  IInv'
<1> DEFINE n == sub.gen + 1
           new == [NewExecution EXCEPT !.state = "queued", !.rejudge = rejudge,
                                       !.oldStatus = sub.status, !.oldScore = sub.score]
           row == [sub EXCEPT !.gen = n, !.active = Run(n, 0),
                              !.status = IF rejudge THEN @ ELSE "queued"]
<1>1. /\ n \in Execs
      /\ exec' = [i \in Execs |-> IF i = n THEN new ELSE Superseded(exec[i])]
      /\ sub' = row
      /\ outbox' = outbox \cup {n}
      /\ UNCHANGED <<wf, task, live, committed, scored>>
  BY DEF CreateJudgeExecution
<1>2. sub.status \in {"pending_upload", "queued", "running", "system_error", "verdict"}
      /\ sub.score \in 0 .. MaxExecs
  BY DEF IInv, TypeOK, SubmissionRow
<1>3. /\ new \in ExecutionRow /\ new.state = "queued" /\ new.epoch = 0 /\ new.lease = NoToken
  BY Zenon, <1>2, Zero, NewRowsType DEF NewExecution, ExecutionRow, Unfinished
<1>4. n \in 0 .. MaxExecs /\ Run(n, 0) \in [exec : 0 .. MaxExecs, epoch : 0 .. MaxEpochs]
  BY <1>1, Zero, RunType
<1> HIDE DEF n
<1>5. row \in SubmissionRow /\ row.gen = n /\ row.active = Run(n, 0)
  BY Zenon, <1>4 DEF IInv, TypeOK, SubmissionRow
<1>6. ASSUME NEW i \in Execs
      PROVE  /\ Superseded(exec[i]) \in ExecutionRow
             /\ Superseded(exec[i]).state \notin Unfinished
             /\ Superseded(exec[i]).lease = exec[i].lease
             /\ exec[i].state # "absent" => Superseded(exec[i]).state # "absent"
             /\ Superseded(exec[i]).state = "completed" => exec[i].state = "completed"
  BY SupersededRow DEF IInv, TypeOK
<1> HIDE DEF new, row
<1>7. TypeOK'
  BY <1>1, <1>3, <1>5, <1>6 DEF IInv, TypeOK
<1>8. OpenExecutionOwnsSubmission' /\ CompletedIsFenced'
  BY <1>1, <1>3, <1>5, <1>6
  DEF IInv, FenceInv, OpenExecutionOwnsSubmission, CompletedIsFenced
<1>9. ActivitiesHaveRows' /\ StagesHaveLeases'
  BY <1>1, <1>3, <1>6 DEF IInv, FenceInv, ActivitiesHaveRows, StagesHaveLeases, Busy
<1> QED BY <1>7, <1>8, <1>9 DEF IInv, FenceInv

LEMMA CancelRejudgeStep ==
  ASSUME IInv, NEW e \in Execs, CancelRejudge(e)
  PROVE  IInv'
<1> DEFINE row == [exec[e] EXCEPT !.state = "cancelled"]
           old == [sub EXCEPT !.active = NoRun, !.status = exec[e].oldStatus,
                              !.score = exec[e].oldScore]
<1>1. /\ exec[e].state \in Unfinished
      /\ exec' = [exec EXCEPT ![e] = row]
      /\ sub' \in {sub, old}
      /\ UNCHANGED <<wf, task, live, outbox, committed, scored>>
  BY DEF CancelRejudge
<1>2. row \in ExecutionRow /\ row.state = "cancelled"
  BY StateRow DEF IInv, TypeOK, Terminal
<1>3. old \in SubmissionRow
  BY Zenon, NewRowsType DEF IInv, TypeOK, SubmissionRow, ExecutionRow
<1>4. sub.gen = e
  BY <1>1 DEF IInv, FenceInv, OpenExecutionOwnsSubmission
<1> HIDE DEF row, old
<1>5. TypeOK'
  BY <1>1, <1>2, <1>3 DEF IInv, TypeOK
<1>6. \A i \in Execs : exec'[i].state \notin Unfinished
  BY <1>1, <1>2, <1>4 DEF IInv, TypeOK, FenceInv, OpenExecutionOwnsSubmission, Unfinished
<1>7. FenceInv'
  BY <1>1, <1>2, <1>6 DEF IInv, TypeOK, FenceInv, OpenExecutionOwnsSubmission, ActivitiesHaveRows,
     StagesHaveLeases, CompletedIsFenced, Busy
<1> QED BY <1>5, <1>7 DEF IInv

-----------------------------------------------------------------------------
(* Dispatch and recovery. *)

LEMMA DispatchStep ==
  ASSUME IInv, NEW e \in Execs, NEW gate \in BOOLEAN, Dispatch(e, gate)
  PROVE  IInv'
<1>1. /\ wf' = wf \/ (exec[e].state \in Unfinished /\ wf' = [wf EXCEPT ![e].pc = "status"])
      /\ outbox' = outbox \ {e}
      /\ UNCHANGED <<sub, exec, task, live, committed, scored>>
  BY DEF Dispatch
<1>2. TypeOK'
  BY <1>1 DEF IInv, TypeOK, WorkflowState
<1>3. \A i \in Execs : wf'[i].pc # "none" => wf[i].pc # "none" \/ exec[i].state # "absent"
  BY <1>1 DEF IInv, TypeOK, WorkflowState, Unfinished
<1>4. FenceInv'
  BY <1>1, <1>3 DEF IInv, FenceInv, OpenExecutionOwnsSubmission, ActivitiesHaveRows,
     StagesHaveLeases, CompletedIsFenced, Busy
<1> QED BY <1>2, <1>4 DEF IInv

LEMMA RedispatchStep ==
  ASSUME IInv, NEW e \in Execs, Redispatch(e)
  PROVE  IInv'
BY DEF IInv, TypeOK, Redispatch, FenceInv, OpenExecutionOwnsSubmission, ActivitiesHaveRows,
   StagesHaveLeases, CompletedIsFenced, Busy

LEMMA TerminateStalledStep ==
  ASSUME IInv, NEW e \in Execs, TerminateStalled(e)
  PROVE  IInv'
<1> DEFINE closed == [NoWorkflow EXCEPT !.pc = "closed"]
<1>1. /\ exec[e].state \in Unfinished
      /\ wf[e].pc # "none"
      /\ wf' = [wf EXCEPT ![e] = closed]
      /\ task' = [t \in Tasks |-> task'[t]]
      /\ \A t \in Tasks : task'[t] \in {task[t], FreeTask}
      /\ UNCHANGED <<sub, exec, live, outbox, committed, scored>>
  BY DEF TerminateStalled
<1>2. closed \in WorkflowState
  BY NewRowsType DEF WorkflowState
<1> HIDE DEF closed
<1>3. TypeOK'
  BY <1>1, <1>2, NewRowsType DEF IInv, TypeOK
<1>4. FreeTask.pc = "done"
  BY DEF FreeTask
<1>5. RowsKept /\ WorkflowsKept /\ \A t \in Tasks : TaskKept(t)
  BY <1>1, <1>4 DEF IInv, TypeOK, RowsKept, WorkflowsKept, TaskKept
<1> QED BY <1>3, <1>5, KeptFence DEF IInv

LEMMA NextEpochType ==
  ASSUME NEW row \in ExecutionRow, row.epoch < MaxEpochs, row.state \in Unfinished
  PROVE  LET r == NextEpochRow(row)
         IN r \in ExecutionRow /\ r.state \in Unfinished /\ r.lease = row.lease
<1>1. row.epoch + 1 \in 0 .. MaxEpochs
  BY ParameterAssumption DEF ExecutionRow
<1> QED BY Zenon, <1>1 DEF NextEpochRow, ExecutionRow, Unfinished

LEMMA NewEpochStep ==
  ASSUME IInv, NEW e \in Execs, NewEpoch(e)
  PROVE  IInv'
<1> DEFINE row == NextEpochRow(exec[e])
           owner == [sub EXCEPT !.active = Run(e, row.epoch)]
<1>1. /\ exec[e].state \in Unfinished /\ exec[e].epoch < MaxEpochs
      /\ exec' = [exec EXCEPT ![e] = row]
      /\ sub' = IF Owned(e) THEN owner ELSE sub
      /\ wf' = [wf EXCEPT ![e] = NoWorkflow]
      /\ outbox' = outbox \cup {e}
      /\ UNCHANGED <<task, live, committed, scored>>
  BY DEF NewEpoch
<1>2. row \in ExecutionRow /\ row.state \in Unfinished /\ row.lease = exec[e].lease
  BY <1>1, NextEpochType DEF IInv, TypeOK
<1>3. Run(e, row.epoch) \in [exec : 0 .. MaxExecs, epoch : 0 .. MaxEpochs]
  BY Zenon, <1>2, Zero, RunType DEF ExecutionRow
<1>4. owner \in SubmissionRow /\ owner.gen = sub.gen /\ owner.active = Run(e, row.epoch)
  BY <1>3 DEF IInv, TypeOK, SubmissionRow
<1> HIDE DEF row, owner
<1>5. TypeOK'
  BY <1>1, <1>2, <1>4, NewRowsType DEF IInv, TypeOK
<1>6. OpenExecutionOwnsSubmission' /\ CompletedIsFenced'
  BY <1>1, <1>2, <1>4
  DEF IInv, TypeOK, FenceInv, OpenExecutionOwnsSubmission, CompletedIsFenced, Owned, Unfinished
<1>7. NoWorkflow.pc = "none"
  BY DEF NoWorkflow
<1>8. ActivitiesHaveRows' /\ StagesHaveLeases'
  BY <1>1, <1>2, <1>7
  DEF IInv, TypeOK, FenceInv, ActivitiesHaveRows, StagesHaveLeases, Busy, Unfinished
<1> QED BY <1>5, <1>6, <1>8 DEF IInv, FenceInv

LEMMA CleanupTerminalStep ==
  ASSUME IInv, NEW e \in Execs, CleanupTerminal(e)
  PROVE  IInv'
<1> DEFINE row == [exec[e] EXCEPT !.lease = NoToken]
<1>1. /\ exec' = [exec EXCEPT ![e] = row]
      /\ live' \subseteq live
      /\ UNCHANGED <<sub, wf, task, outbox, committed, scored>>
  BY DEF CleanupTerminal
<1>2. /\ row \in ExecutionRow
      /\ row.state = exec[e].state /\ row.epoch = exec[e].epoch /\ row.lease = NoToken
  BY DEF IInv, TypeOK, ExecutionRow
<1> HIDE DEF row
<1>3. /\ exec' \in [Execs -> ExecutionRow]
      /\ \A i \in Execs : /\ exec'[i].state = exec[i].state /\ exec'[i].epoch = exec[i].epoch
                          /\ exec'[i].lease \in {exec[i].lease, NoToken}
  BY <1>1, <1>2 DEF IInv, TypeOK
<1>4. TypeOK'
  BY <1>1, <1>3 DEF IInv, TypeOK
<1>5. RowsKept /\ WorkflowsKept /\ \A t \in Tasks : TaskKept(t)
  BY <1>1, <1>3 DEF RowsKept, WorkflowsKept, TaskKept
<1> QED BY <1>4, <1>5, KeptFence DEF IInv

LEMMA LeaseLapsesStep ==
  ASSUME IInv, NEW e \in Execs, LeaseLapses(e)
  PROVE  IInv'
<1> DEFINE row == [exec[e] EXCEPT !.fresh = FALSE]
<1>1. /\ exec' = [exec EXCEPT ![e] = row]
      /\ UNCHANGED <<sub, wf, task, live, outbox, committed, scored>>
  BY DEF LeaseLapses
<1>2. /\ row \in ExecutionRow
      /\ row.state = exec[e].state /\ row.epoch = exec[e].epoch /\ row.lease = exec[e].lease
  BY ZenonT(60) DEF IInv, TypeOK, ExecutionRow
<1> HIDE DEF row
<1>3. /\ exec' \in [Execs -> ExecutionRow]
      /\ \A i \in Execs : /\ exec'[i].state = exec[i].state /\ exec'[i].epoch = exec[i].epoch
                          /\ exec'[i].lease = exec[i].lease
  BY <1>1, <1>2 DEF IInv, TypeOK
<1>4. TypeOK'
  BY <1>1, <1>3 DEF IInv, TypeOK
<1>5. RowsKept /\ WorkflowsKept /\ \A t \in Tasks : TaskKept(t)
  BY <1>1, <1>3 DEF RowsKept, WorkflowsKept, TaskKept
<1> QED BY <1>4, <1>5, KeptFence DEF IInv

-----------------------------------------------------------------------------
(* The workflow.  Its steps keep the rows, or write their state only.        *)

LEMMA RowsUnchanged ==
  ASSUME IInv, UNCHANGED <<sub, exec>>, committed \subseteq committed'
  PROVE  RowsKept
BY DEF IInv, RowsKept

LEMMA WorkflowMoves ==
  ASSUME IInv, NEW e \in Execs, wf[e].pc # "none", NEW w \in WorkflowState,
         wf' = [wf EXCEPT ![e] = w]
  PROVE  wf' \in [Execs -> WorkflowState] /\ WorkflowsKept
BY DEF IInv, TypeOK, WorkflowsKept

LEMMA TaskEnds ==
  ASSUME IInv, NEW t, NEW x \in Task, x.pc \in {"done", "lost"},
         task' = [task EXCEPT ![t] = x]
  PROVE  task' \in [Tasks -> Task] /\ \A u \in Tasks : TaskKept(u)
BY Zenon DEF IInv, TypeOK, TaskKept

LEMMA TaskStarts ==
  ASSUME IInv, NEW e \in Execs, wf[e].pc # "none", NEW t, NEW x \in Task,
         x.pc \in {"unstarted", "cleaning", "preflight"}, x.run = This(e),
         task' = [task EXCEPT ![t] = x]
  PROVE  task' \in [Tasks -> Task] /\ \A u \in Tasks : TaskKept(u)
<1>1. x.run.exec = e /\ exec[e].state # "absent"
  BY DEF This, Run, IInv, FenceInv, ActivitiesHaveRows
<1> QED BY Zenon, <1>1 DEF IInv, TypeOK, TaskKept

LEMMA NoTaskChanges ==
  ASSUME IInv, NEW t, t \notin Tasks, NEW x, task' = [task EXCEPT ![t] = x]
  PROVE  task' \in [Tasks -> Task] /\ \A u \in Tasks : TaskKept(u)
BY Zenon DEF IInv, TypeOK, TaskKept

LEMMA TasksUnchanged ==
  ASSUME IInv, UNCHANGED task
  PROVE  task' \in [Tasks -> Task] /\ \A u \in Tasks : TaskKept(u)
BY DEF IInv, TypeOK, TaskKept

LEMMA StateSetKeeps ==
  ASSUME IInv, NEW e \in Execs, NEW s \in Unfinished, SetState(This(e), s), UNCHANGED committed
  PROVE  sub' \in SubmissionRow /\ exec' \in [Execs -> ExecutionRow] /\ RowsKept
<1>1. This(e) \in [exec : 0 .. MaxExecs, epoch : 0 .. MaxEpochs]
  BY StartedTypes DEF IInv
<1> QED BY <1>1, SetStateRows DEF IInv, RowsKept, Unfinished

LEMMA FreeTaskType == FreeTask \in Task /\ FreeTask.pc = "done"
BY NewRowsType DEF FreeTask

(* The general step of a workflow: IInv is kept whenever the types are, and  *)
(* rows and activities are kept in the above sense.                          *)
LEMMA WorkflowStepKeeps ==
  ASSUME IInv, wf' \in [Execs -> WorkflowState], WorkflowsKept,
         task' \in [Tasks -> Task], \A u \in Tasks : TaskKept(u),
         sub' \in SubmissionRow, exec' \in [Execs -> ExecutionRow], RowsKept,
         live' \subseteq Tokens, outbox' \subseteq Execs, committed' \subseteq Execs,
         scored' \subseteq Execs
  PROVE  IInv'
BY KeptFence DEF IInv, TypeOK

LEMMA ReadStatusStep ==
  ASSUME IInv, NEW e \in Execs, ReadStatus(e)
  PROVE  IInv'
<1> DEFINE w == [wf[e] EXCEPT !.fin = (exec[e].state = "finalizing"),
                              !.ended = (exec[e].state \in Terminal),
                              !.idx = exec[e].stages, !.tok = exec[e].lease]
           next == IF w.tok = NoToken THEN Unleased(w) ELSE [w EXCEPT !.pc = "reconcile"]
<1>1. /\ wf[e].pc = "status"
      /\ wf' = [wf EXCEPT ![e] = next]
      /\ UNCHANGED <<sub, exec, task, live, outbox, committed, scored>>
  BY DEF ReadStatus
<1>2. w \in WorkflowState
  <2> DEFINE fin == exec[e].state = "finalizing"
             ended == exec[e].state \in Terminal
  <2>1. fin \in BOOLEAN /\ ended \in BOOLEAN
    OBVIOUS
  <2>2. exec[e].stages \in 0 .. NumStages /\ exec[e].lease \in Tokens \cup {NoToken}
    BY DEF IInv, TypeOK, ExecutionRow
  <2> HIDE DEF fin, ended
  <2>3. [wf[e] EXCEPT !.fin = fin, !.ended = ended, !.idx = exec[e].stages, !.tok = exec[e].lease]
          \in WorkflowState
    BY ZenonT(60), <2>1, <2>2 DEF IInv, TypeOK, WorkflowState
  <2> QED BY <2>3 DEF fin, ended
<1> HIDE DEF w
<1>3. next \in WorkflowState
  BY <1>2, UnleasedType DEF WorkflowState
<1> HIDE DEF next
<1>4. wf' \in [Execs -> WorkflowState] /\ WorkflowsKept
  BY Zenon, <1>1, <1>3, WorkflowMoves
<1> QED BY <1>1, <1>4, RowsUnchanged, TasksUnchanged, WorkflowStepKeeps DEF IInv, TypeOK

LEMMA ReconcileCheckStep ==
  ASSUME IInv, NEW e \in Execs, ReconcileCheck(e)
  PROVE  IInv'
<1> DEFINE next == IF exec[e].lease # wf[e].tok THEN Unleased(wf[e])
                   ELSE [wf[e] EXCEPT !.pc = IF exec[e].fresh THEN "blocked" ELSE "reconciling"]
<1>1. /\ wf[e].pc = "reconcile"
      /\ wf' = [wf EXCEPT ![e] = next]
      /\ UNCHANGED <<sub, exec, task, live, outbox, committed, scored>>
  BY DEF ReconcileCheck
<1>2. wf[e] \in WorkflowState
  BY DEF IInv, TypeOK
<1>3. next \in WorkflowState
  BY <1>2, UnleasedType DEF WorkflowState
<1> HIDE DEF next
<1>4. wf' \in [Execs -> WorkflowState] /\ WorkflowsKept
  BY Zenon, <1>1, <1>3, WorkflowMoves
<1> QED BY <1>1, <1>4, RowsUnchanged, TasksUnchanged, WorkflowStepKeeps DEF IInv, TypeOK

LEMMA ReconcileStageStep ==
  ASSUME IInv, NEW e \in Execs, NEW safe \in BOOLEAN, ReconcileStage(e, safe)
  PROVE  IInv'
<1> DEFINE next == IF safe THEN Unleased(wf[e]) ELSE [wf[e] EXCEPT !.pc = "blocked"]
<1>1. /\ wf[e].pc = "reconciling"
      /\ wf' = [wf EXCEPT ![e] = next]
      /\ exec' \in {exec, Released(This(e), wf[e].tok)}
      /\ live' \subseteq live
      /\ UNCHANGED <<sub, task, outbox, committed, scored>>
  BY DEF ReconcileStage
<1>2. wf[e] \in WorkflowState
  BY DEF IInv, TypeOK
<1>3. next \in WorkflowState
  BY <1>2, UnleasedType DEF WorkflowState
<1> HIDE DEF next
<1>4. wf' \in [Execs -> WorkflowState] /\ WorkflowsKept
  BY Zenon, <1>1, <1>3, WorkflowMoves
<1>5. exec' \in [Execs -> ExecutionRow] /\ RowsKept
  BY <1>1, ReleasedRows DEF IInv, TypeOK, RowsKept
<1> QED BY <1>1, <1>4, <1>5, TasksUnchanged, WorkflowStepKeeps DEF IInv, TypeOK

LEMMA SetBlockedStep ==
  ASSUME IInv, NEW e \in Execs, SetBlocked(e)
  PROVE  IInv'
<1>1. /\ wf[e].pc # "none"
      /\ SetState(This(e), "blocked") /\ "blocked" \in Unfinished
      /\ wf' = [wf EXCEPT ![e] = Loop(e)]
      /\ UNCHANGED <<task, live, outbox, committed, scored>>
  BY DEF SetBlocked, Unfinished
<1>2. wf' \in [Execs -> WorkflowState] /\ WorkflowsKept
  BY Zenon, <1>1, WorkflowTypes, WorkflowMoves DEF IInv
<1> QED BY <1>1, <1>2, StateSetKeeps, TasksUnchanged, WorkflowStepKeeps DEF IInv, TypeOK

LEMMA QueueStageStep ==
  ASSUME IInv, NEW e \in Execs, NEW t \in Tasks, QueueStage(e, t)
  PROVE  IInv'
<1> DEFINE next == [wf[e] EXCEPT !.pc = "await", !.task = t, !.idx = 0]
           started == StageTask(e, wf[e].idx)
<1>1. /\ wf[e].pc # "none"
      /\ SetState(This(e), "queued") /\ "queued" \in Unfinished
      /\ task' = [task EXCEPT ![t] = started]
      /\ wf' = [wf EXCEPT ![e] = next]
      /\ UNCHANGED <<live, outbox, committed, scored>>
  BY DEF QueueStage, Unfinished
<1>2. next \in WorkflowState
  BY ZenonT(60), Zero DEF IInv, TypeOK, WorkflowState
<1>3. /\ started \in Task
      /\ started.pc = "unstarted" /\ started.run = This(e)
  <2>1. wf[e].idx \in 0 .. NumStages
    BY DEF IInv, TypeOK, WorkflowState
  <2>2. started \in Task
    BY <2>1, StartedTypes DEF IInv
  <2> QED BY <2>2 DEF StageTask, FreeTask
<1> HIDE DEF next, started
<1>4. wf' \in [Execs -> WorkflowState] /\ WorkflowsKept
  BY Zenon, <1>1, <1>2, WorkflowMoves
<1>5. task' \in [Tasks -> Task] /\ \A u \in Tasks : TaskKept(u)
  BY Zenon, <1>1, <1>3, TaskStarts
<1> QED BY <1>1, <1>4, <1>5, StateSetKeeps, WorkflowStepKeeps DEF IInv, TypeOK

LEMMA StageAnsweredStep ==
  ASSUME IInv, NEW e \in Execs, StageAnswered(e)
  PROVE  IInv'
<1> DEFINE t == wf[e].task
           deferred == task[t].defer /\ task[t].out \in {"saved", "finished"}
           clean == CleanupTask(e, task[t].token)
<1>1. /\ wf[e].pc # "none"
      /\ task' = [task EXCEPT ![t] = IF deferred THEN clean ELSE FreeTask]
      /\ UNCHANGED <<sub, exec, live, outbox, committed, scored>>
  BY DEF StageAnswered
<1>2. t \in Tasks \cup {NoTask} /\ wf[e] \in WorkflowState
  BY DEF IInv, TypeOK, WorkflowState
<1>3. \E w \in WorkflowState : wf' = [wf EXCEPT ![e] = w]
  <2> DEFINE saved == [wf[e] EXCEPT !.pc = "settle", !.more = TRUE, !.task = NoTask, !.cleaner = t]
             finished == [wf[e] EXCEPT !.pc = IF wf[e].published THEN "settle" ELSE "publish",
                           !.fin = TRUE, !.task = NoTask,
                           !.cleaner = IF deferred THEN t ELSE NoTask]
             failed == [wf[e] EXCEPT !.pc = "recover", !.task = NoTask]
  <2>1. \E w \in {Closed, Loop(e), saved, finished, failed} : wf' = [wf EXCEPT ![e] = w]
    BY Zenon DEF StageAnswered
  <2>2. saved \in WorkflowState /\ failed \in WorkflowState
    BY Zenon, <1>2 DEF WorkflowState
  <2>3. finished \in WorkflowState
    <3> DEFINE pc == IF wf[e].published THEN "settle" ELSE "publish"
               c == IF deferred THEN t ELSE NoTask
    <3>1. pc \in {"settle", "publish"} /\ c \in Tasks \cup {NoTask}
      BY <1>2
    <3> HIDE DEF pc, c
    <3>2. [wf[e] EXCEPT !.pc = pc, !.fin = TRUE, !.task = NoTask, !.cleaner = c] \in WorkflowState
      BY Zenon, <1>2, <3>1 DEF WorkflowState
    <3> QED BY <3>2 DEF pc, c
  <2> HIDE DEF saved, finished, failed
  <2> QED BY Zenon, <2>1, <2>2, <2>3, WorkflowTypes DEF IInv
<1>4. wf' \in [Execs -> WorkflowState] /\ WorkflowsKept
  BY Zenon, <1>1, <1>3, WorkflowMoves
<1>5. t \in Tasks => /\ clean \in Task
                     /\ clean.pc = "cleaning" /\ clean.run = This(e)
  <2>1. t \in Tasks => task[t].token \in Tokens \cup {NoToken}
    BY DEF IInv, TypeOK, Task
  <2> QED BY Zenon, <2>1, StartedTypes DEF IInv, CleanupTask, FreeTask
<1>6. task' \in [Tasks -> Task] /\ \A u \in Tasks : TaskKept(u)
  <2> HIDE DEF t, deferred, clean
  <2>1. CASE t \notin Tasks
    BY Zenon, <1>1, <2>1, NoTaskChanges
  <2>2. CASE t \in Tasks /\ deferred
    BY Zenon, <1>1, <1>5, <2>2, TaskStarts
  <2>3. CASE t \in Tasks /\ ~deferred
    BY Zenon, <1>1, <2>3, FreeTaskType, TaskEnds
  <2> QED BY <2>1, <2>2, <2>3
<1> QED BY <1>1, <1>4, <1>6, RowsUnchanged, WorkflowStepKeeps DEF IInv, TypeOK

(* Giving an activity up frees its slot, or leaves it to run on. *)
LEMMA GivenUp ==
  ASSUME IInv, NEW t, task' \in {task, [task EXCEPT ![t] = FreeTask]}
  PROVE  task' \in [Tasks -> Task] /\ \A u \in Tasks : TaskKept(u)
<1>1. CASE task' = task
  BY <1>1, TasksUnchanged
<1>2. CASE task' = [task EXCEPT ![t] = FreeTask]
  BY Zenon, <1>2, FreeTaskType, TaskEnds
<1> QED BY <1>1, <1>2

LEMMA StageTimedOutStep ==
  ASSUME IInv, NEW e \in Execs, StageTimedOut(e)
  PROVE  IInv'
<1> DEFINE failed == [wf[e] EXCEPT !.pc = "recover", !.task = NoTask]
<1>1. /\ wf[e].pc # "none"
      /\ \E w \in {Loop(e), failed} : wf' = [wf EXCEPT ![e] = w]
      /\ task' \in {task, [task EXCEPT ![wf[e].task] = FreeTask]}
      /\ UNCHANGED <<sub, exec, live, outbox, committed, scored>>
  BY Zenon DEF StageTimedOut
<1>2. failed \in WorkflowState
  BY ZenonT(60) DEF IInv, TypeOK, WorkflowState
<1> HIDE DEF failed
<1>3. wf' \in [Execs -> WorkflowState] /\ WorkflowsKept
  BY Zenon, <1>1, <1>2, WorkflowTypes, WorkflowMoves DEF IInv
<1> QED BY <1>1, <1>3, GivenUp, RowsUnchanged, WorkflowStepKeeps DEF IInv, TypeOK

LEMMA StartCompleteStep ==
  ASSUME IInv, NEW e \in Execs, NEW t \in Tasks, StartComplete(e, t)
  PROVE  IInv'
<1> DEFINE next == [wf[e] EXCEPT !.pc = "completing", !.task = t]
<1>1. /\ wf[e].pc # "none"
      /\ task' = [task EXCEPT ![t] = CompleteTask(e)]
      /\ wf' = [wf EXCEPT ![e] = next]
      /\ UNCHANGED <<sub, exec, live, outbox, committed, scored>>
  BY DEF StartComplete
<1>2. next \in WorkflowState
  BY ZenonT(60) DEF IInv, TypeOK, WorkflowState
<1>3. /\ CompleteTask(e) \in Task
      /\ CompleteTask(e).pc = "preflight" /\ CompleteTask(e).run = This(e)
  BY Zenon, StartedTypes DEF IInv, CompleteTask, FreeTask
<1> HIDE DEF next
<1>4. wf' \in [Execs -> WorkflowState] /\ WorkflowsKept
  BY Zenon, <1>1, <1>2, WorkflowMoves
<1>5. task' \in [Tasks -> Task] /\ \A u \in Tasks : TaskKept(u)
  BY Zenon, <1>1, <1>3, TaskStarts
<1> QED BY <1>1, <1>4, <1>5, RowsUnchanged, WorkflowStepKeeps DEF IInv, TypeOK

LEMMA CompleteAnsweredStep ==
  ASSUME IInv, NEW e \in Execs, CompleteAnswered(e)
  PROVE  IInv'
<1> DEFINE effects == [wf[e] EXCEPT !.pc = "effects", !.task = NoTask]
           failed == [wf[e] EXCEPT !.pc = "recover", !.task = NoTask]
<1>1. /\ wf[e].pc # "none"
      /\ \E w \in {effects, AfterPublish(wf[e]), failed} : wf' = [wf EXCEPT ![e] = w]
      /\ task' = [task EXCEPT ![wf[e].task] = FreeTask]
      /\ UNCHANGED <<sub, exec, live, outbox, committed, scored>>
  BY Zenon DEF CompleteAnswered
<1>2. wf[e] \in WorkflowState
  BY DEF IInv, TypeOK
<1>3. effects \in WorkflowState /\ failed \in WorkflowState
  BY Zenon, <1>2 DEF WorkflowState
<1> HIDE DEF effects, failed
<1>4. wf' \in [Execs -> WorkflowState] /\ WorkflowsKept
  BY Zenon, <1>1, <1>2, <1>3, AfterPublishType, WorkflowMoves
<1>5. task' \in [Tasks -> Task] /\ \A u \in Tasks : TaskKept(u)
  BY Zenon, <1>1, FreeTaskType, TaskEnds
<1> QED BY <1>1, <1>4, <1>5, RowsUnchanged, WorkflowStepKeeps DEF IInv, TypeOK

LEMMA CompleteTimedOutStep ==
  ASSUME IInv, NEW e \in Execs, CompleteTimedOut(e)
  PROVE  IInv'
<1> DEFINE failed == [wf[e] EXCEPT !.pc = "recover", !.task = NoTask]
<1>1. /\ wf[e].pc # "none"
      /\ wf' = [wf EXCEPT ![e] = failed]
      /\ task' \in {task, [task EXCEPT ![wf[e].task] = FreeTask]}
      /\ UNCHANGED <<sub, exec, live, outbox, committed, scored>>
  BY DEF CompleteTimedOut
<1>2. failed \in WorkflowState
  BY ZenonT(60) DEF IInv, TypeOK, WorkflowState
<1> HIDE DEF failed
<1>3. wf' \in [Execs -> WorkflowState] /\ WorkflowsKept
  BY Zenon, <1>1, <1>2, WorkflowMoves
<1> QED BY <1>1, <1>3, GivenUp, RowsUnchanged, WorkflowStepKeeps DEF IInv, TypeOK

LEMMA ApplyEffectsStep ==
  ASSUME IInv, NEW e \in Execs, ApplyEffects(e)
  PROVE  IInv'
<1>1. /\ wf[e].pc # "none"
      /\ wf' = [wf EXCEPT ![e] = AfterPublish(wf[e])]
      /\ scored' = scored \cup {e}
      /\ UNCHANGED <<sub, exec, task, live, outbox, committed>>
  BY DEF ApplyEffects
<1>2. wf' \in [Execs -> WorkflowState] /\ WorkflowsKept
  BY Zenon, <1>1, AfterPublishType, WorkflowMoves DEF IInv, TypeOK
<1> QED BY <1>1, <1>2, TasksUnchanged, RowsUnchanged, WorkflowStepKeeps DEF IInv, TypeOK

LEMMA AwaitCleanupStep ==
  ASSUME IInv, NEW e \in Execs, AwaitCleanup(e)
  PROVE  IInv'
<1> DEFINE failed == [wf[e] EXCEPT !.pc = "recover", !.cleaner = NoTask]
           finish == [wf[e] EXCEPT !.pc = "finish", !.cleaner = NoTask]
<1>1. /\ wf[e].pc # "none"
      /\ \E w \in {Loop(e), failed, finish} : wf' = [wf EXCEPT ![e] = w]
      /\ task' \in {task, [task EXCEPT ![wf[e].cleaner] = FreeTask]}
      /\ UNCHANGED <<sub, exec, live, outbox, committed, scored>>
  BY Zenon DEF AwaitCleanup
<1>2. failed \in WorkflowState /\ finish \in WorkflowState
  BY ZenonT(60) DEF IInv, TypeOK, WorkflowState
<1> HIDE DEF failed, finish
<1>3. wf' \in [Execs -> WorkflowState] /\ WorkflowsKept
  BY Zenon, <1>1, <1>2, WorkflowTypes, WorkflowMoves DEF IInv
<1> QED BY <1>1, <1>3, GivenUp, RowsUnchanged, WorkflowStepKeeps DEF IInv, TypeOK

LEMMA FinishStep ==
  ASSUME IInv, NEW e \in Execs, NEW answered \in BOOLEAN, FinishJudgeExecution(e, answered)
  PROVE  IInv'
<1> DEFINE row == [exec[e] EXCEPT !.state = "completed", !.lease = NoToken, !.fresh = FALSE]
           failed == [wf[e] EXCEPT !.pc = "recover"]
<1>1. /\ wf[e].pc # "none"
      /\ exec' \in {exec, [exec EXCEPT ![e] = row]}
      /\ \E w \in {Closed, failed} : wf' = [wf EXCEPT ![e] = w]
      /\ UNCHANGED <<sub, task, live, outbox, committed, scored>>
  BY Zenon DEF FinishJudgeExecution
<1>2. row \in ExecutionRow /\ row.state = "completed" /\ row.lease = NoToken /\ row.epoch = exec[e].epoch
  BY ZenonT(60) DEF IInv, TypeOK, ExecutionRow, Terminal
<1>3. failed \in WorkflowState
  BY DEF IInv, TypeOK, WorkflowState
<1> HIDE DEF row, failed
<1>4. wf' \in [Execs -> WorkflowState] /\ WorkflowsKept
  BY Zenon, <1>1, <1>3, WorkflowTypes, WorkflowMoves DEF IInv
<1>5. exec' \in [Execs -> ExecutionRow] /\ RowsKept
  BY <1>1, <1>2 DEF IInv, TypeOK, RowsKept, Unfinished
<1> QED BY <1>1, <1>4, <1>5, TasksUnchanged, WorkflowStepKeeps DEF IInv, TypeOK

LEMMA ActivityFailsStep ==
  ASSUME IInv, NEW e \in Execs, ActivityFails(e)
  PROVE  IInv'
<1> DEFINE failed == [wf[e] EXCEPT !.pc = "recover", !.tok = NoToken, !.ended = FALSE, !.idx = 0]
<1>1. /\ wf[e].pc # "none"
      /\ wf' = [wf EXCEPT ![e] = failed]
      /\ UNCHANGED <<sub, exec, task, live, outbox, committed, scored>>
  BY DEF ActivityFails
<1>2. failed \in WorkflowState
  <2>1. wf[e] \in WorkflowState /\ 0 \in 0 .. NumStages
    BY Zero DEF IInv, TypeOK
  <2> QED BY Zenon, <2>1 DEF WorkflowState
<1> HIDE DEF failed
<1>3. wf' \in [Execs -> WorkflowState] /\ WorkflowsKept
  BY Zenon, <1>1, <1>2, WorkflowMoves
<1> QED BY <1>1, <1>3, TasksUnchanged, RowsUnchanged, WorkflowStepKeeps DEF IInv, TypeOK

LEMMA RecoverStep ==
  ASSUME IInv, NEW e \in Execs, NEW recorded \in BOOLEAN, Recover(e, recorded)
  PROVE  IInv'
<1>1. /\ wf[e].pc # "none"
      /\ wf' = [wf EXCEPT ![e] = Loop(e)]
      /\ task' \in {task, [task EXCEPT ![wf[e].cleaner] = FreeTask]}
      /\ (\E s \in Unfinished : SetState(This(e), s)) \/ UNCHANGED <<sub, exec>>
      /\ UNCHANGED <<live, outbox, committed, scored>>
  BY DEF Recover, RecoveryStates, Unfinished
<1>2. wf' \in [Execs -> WorkflowState] /\ WorkflowsKept
  BY Zenon, <1>1, WorkflowTypes, WorkflowMoves DEF IInv
<1>3. sub' \in SubmissionRow /\ exec' \in [Execs -> ExecutionRow] /\ RowsKept
  BY <1>1, StateSetKeeps, RowsUnchanged DEF IInv, TypeOK
<1> QED BY <1>1, <1>2, <1>3, GivenUp, WorkflowStepKeeps DEF IInv, TypeOK

-----------------------------------------------------------------------------
(* The activities.  Their steps leave the workflows alone. *)

LEMMA TaskMoves ==
  ASSUME IInv, NEW t \in Tasks, Busy(t), NEW x \in Task, x.run = task[t].run,
         x.token = task[t].token, x.index = task[t].index,
         x.pc \in {"claimed", "executing", "save"} =>
           /\ task[t].pc \in {"claimed", "executing", "save"}
           /\ x.pc \in {"executing", "save"} =>
                task[t].pc \in {"executing", "save"} \/ task[t].index < NumStages,
         task' = [task EXCEPT ![t] = x]
  PROVE  task' \in [Tasks -> Task] /\ \A u \in Tasks : TaskKept(u)
BY DEF IInv, TypeOK, TaskKept

LEMMA TaskAnswers ==
  ASSUME IInv, NEW t \in Tasks,
         NEW out \in {"none", "obsolete", "cleanup", "saved", "finished", "ok", "null", "failed"},
         task' = [task EXCEPT ![t] = Ended(t, out)]
  PROVE  task' \in [Tasks -> Task] /\ \A u \in Tasks : TaskKept(u)
BY Zenon, EndedType, TaskEnds DEF IInv

LEMMA WorkflowsUnchanged ==
  ASSUME IInv, UNCHANGED wf
  PROVE  wf' \in [Execs -> WorkflowState] /\ WorkflowsKept
BY DEF IInv, TypeOK, WorkflowsKept

LEMMA MovedType ==
  ASSUME NEW x \in Task, NEW p \in {"executing", "save", "catch", "guard", "commit"}
  PROVE  LET y == [x EXCEPT !.pc = p]
         IN y \in Task /\ y.pc = p /\ y.run = x.run /\ y.token = x.token /\ y.index = x.index
BY DEF Task

LEMMA MovedOutType ==
  ASSUME NEW x \in Task, NEW out \in {"failed", "ok", "finished"}
  PROVE  LET y == [x EXCEPT !.pc = "releasing", !.out = out]
         IN y \in Task /\ y.pc = "releasing" /\ y.run = x.run /\ y.token = x.token /\ y.index = x.index
BY Zenon DEF Task

LEMMA MovedDeferType ==
  ASSUME NEW x \in Task, NEW d \in BOOLEAN
  PROVE  LET y == [x EXCEPT !.pc = "save", !.defer = d]
         IN y \in Task /\ y.pc = "save" /\ y.run = x.run /\ y.token = x.token /\ y.index = x.index
BY Zenon DEF Task

LEMMA ClaimedRow ==
  ASSUME NEW row \in ExecutionRow, NEW k \in Tokens
  PROVE  LET r == [row EXCEPT !.state = "running", !.lease = k, !.fresh = TRUE]
         IN r \in ExecutionRow /\ r.state = "running" /\ r.epoch = row.epoch
BY Zenon DEF ExecutionRow, Unfinished

LEMMA ClaimStep ==
  ASSUME IInv, NEW t \in Tasks, ClaimJudgeLease(t)
  PROVE  IInv'
<1> DEFINE e == task[t].run.exec
           shown == [sub EXCEPT !.status = "running"]
           Row(k) == [exec[e] EXCEPT !.state = "running", !.lease = k, !.fresh = TRUE]
           Owner(k) == [task[t] EXCEPT !.pc = "claimed", !.token = k]
<1>1. task[t] \in Task /\ Busy(t) /\ e \in Execs /\ exec[e].state # "absent"
  BY Zenon DEF IInv, TypeOK, FenceInv, ActivitiesHaveRows, ClaimJudgeLease, Busy
<1>2. UNCHANGED <<wf, live, outbox, committed, scored>>
  BY Zenon DEF ClaimJudgeLease
<1>3. CASE UNCHANGED <<sub, exec>> /\ task' \in {[task EXCEPT ![t] = Ended(t, "obsolete")],
                                                [task EXCEPT ![t] = Ended(t, "cleanup")]}
  <2>1. task' \in [Tasks -> Task] /\ \A u \in Tasks : TaskKept(u)
    BY <1>3, TaskAnswers
  <2> QED BY <1>2, <1>3, <2>1, WorkflowsUnchanged, RowsUnchanged, WorkflowStepKeeps DEF IInv, TypeOK
<1>4. ASSUME exec[e].state \notin Terminal, sub' \in {sub, shown}, NEW k \in Tokens,
             exec' = [exec EXCEPT ![e] = Row(k)], task' = [task EXCEPT ![t] = Owner(k)]
      PROVE  IInv'
  <2>1. Row(k) \in ExecutionRow /\ Row(k).state = "running" /\ Row(k).epoch = exec[e].epoch
    BY Zenon, <1>1, ClaimedRow DEF IInv, TypeOK
  <2>2. shown \in SubmissionRow /\ shown.gen = sub.gen /\ shown.active = sub.active
    BY StatusRow DEF IInv
  <2>3. /\ Owner(k) \in Task /\ Owner(k).pc = "claimed" /\ Owner(k).token = k
        /\ Owner(k).run = task[t].run
    BY Zenon, <1>1 DEF Task
  <2>4. exec[e].state \in Unfinished
    BY <1>1, <1>4 DEF IInv, TypeOK, ExecutionRow
  <2> HIDE DEF shown, Row, Owner
  <2>5. TypeOK'
    BY <1>1, <1>2, <1>4, <2>1, <2>2, <2>3 DEF IInv, TypeOK
  <2>6. RowsKept
    BY <1>1, <1>2, <1>4, <2>1, <2>2, <2>4 DEF IInv, TypeOK, RowsKept
  <2>7. ActivitiesHaveRows' /\ StagesHaveLeases'
    BY <1>1, <1>2, <1>4, <2>1, <2>3
    DEF IInv, TypeOK, FenceInv, ActivitiesHaveRows, StagesHaveLeases, Busy
  <2> QED BY <2>5, <2>6, <2>7, RowsKeptOwner DEF IInv, FenceInv
<1>5. \/ UNCHANGED <<sub, exec>> /\ task' \in {[task EXCEPT ![t] = Ended(t, "obsolete")],
                                              [task EXCEPT ![t] = Ended(t, "cleanup")]}
      \/ /\ exec[e].state \notin Terminal
         /\ sub' \in {sub, shown}
         /\ \E k \in Tokens : /\ exec' = [exec EXCEPT ![e] = Row(k)]
                              /\ task' = [task EXCEPT ![t] = Owner(k)]
  BY Zenon DEF ClaimJudgeLease
<1> QED BY Zenon, <1>3, <1>4, <1>5

(* Steps of an activity that write no row. *)
LEMMA QuietStep ==
  ASSUME IInv, task' \in [Tasks -> Task], \A u \in Tasks : TaskKept(u), live' \subseteq Tokens,
         UNCHANGED <<sub, exec, wf, outbox, committed, scored>>
  PROVE  IInv'
BY WorkflowsUnchanged, RowsUnchanged, WorkflowStepKeeps DEF IInv, TypeOK

LEMMA PastLastStageStep ==
  ASSUME IInv, NEW t \in Tasks, PastLastStage(t)
  PROVE  IInv'
<1> DEFINE next == [task[t] EXCEPT !.pc = "releasing", !.out = "finished"]
<1>1. /\ Busy(t) /\ task[t] \in Task
      /\ SetState(task[t].run, "finalizing") /\ "finalizing" \in Unfinished
      /\ task' = [task EXCEPT ![t] = next]
      /\ UNCHANGED <<wf, live, outbox, committed, scored>>
  BY DEF PastLastStage, Busy, Unfinished, IInv, TypeOK
<1>2. task[t].run \in [exec : 0 .. MaxExecs, epoch : 0 .. MaxEpochs]
  BY <1>1 DEF Task
<1>3. sub' \in SubmissionRow /\ exec' \in [Execs -> ExecutionRow] /\ RowsKept
  BY <1>1, <1>2, SetStateRows DEF IInv, RowsKept, Unfinished
<1>4. /\ next \in Task /\ next.pc = "releasing" /\ next.run = task[t].run
      /\ next.token = task[t].token /\ next.index = task[t].index
  BY Zenon, <1>1, MovedOutType
<1> HIDE DEF next
<1>5. task' \in [Tasks -> Task] /\ \A u \in Tasks : TaskKept(u)
  BY Zenon, <1>1, <1>4, TaskMoves
<1> QED BY <1>1, <1>3, <1>5, WorkflowsUnchanged, WorkflowStepKeeps DEF IInv, TypeOK

LEMMA StartSandboxStep ==
  ASSUME IInv, NEW t \in Tasks, StartSandbox(t)
  PROVE  IInv'
<1> DEFINE next == [task[t] EXCEPT !.pc = "executing"]
<1>1. /\ task[t].pc = "claimed" /\ task[t].index < NumStages /\ task[t] \in Task
      /\ live' = live \cup {task[t].token}
      /\ task' = [task EXCEPT ![t] = next]
      /\ UNCHANGED <<sub, exec, wf, outbox, committed, scored>>
  BY DEF StartSandbox, IInv, TypeOK
<1>2. task[t].token \in Tokens
  BY <1>1 DEF IInv, FenceInv, StagesHaveLeases
<1>3. /\ next \in Task /\ next.pc = "executing" /\ next.run = task[t].run
      /\ next.token = task[t].token /\ next.index = task[t].index
  BY Zenon, <1>1, MovedType
<1> HIDE DEF next
<1>4. task' \in [Tasks -> Task] /\ \A u \in Tasks : TaskKept(u)
  BY Zenon, <1>1, <1>3, TaskMoves DEF Busy
<1> QED BY <1>1, <1>2, <1>4, QuietStep DEF IInv, TypeOK

LEMMA SandboxRanStep ==
  ASSUME IInv, NEW t \in Tasks, NEW defer \in BOOLEAN, SandboxRan(t, defer)
  PROVE  IInv'
<1> DEFINE next == [task[t] EXCEPT !.pc = "save", !.defer = defer]
<1>1. /\ task[t].pc = "executing" /\ task[t] \in Task
      /\ live' \subseteq live
      /\ task' = [task EXCEPT ![t] = next]
      /\ UNCHANGED <<sub, exec, wf, outbox, committed, scored>>
  BY DEF SandboxRan, IInv, TypeOK
<1>2. /\ next \in Task /\ next.pc = "save" /\ next.run = task[t].run
      /\ next.token = task[t].token /\ next.index = task[t].index
  BY Zenon, <1>1, MovedDeferType
<1> HIDE DEF next
<1>3. task' \in [Tasks -> Task] /\ \A u \in Tasks : TaskKept(u)
  BY Zenon, <1>1, <1>2, TaskMoves DEF Busy
<1> QED BY <1>1, <1>3, QuietStep DEF IInv, TypeOK

(* StageFails, CatchCleanup and CleanupStage: the activity answers, or goes  *)
(* on to release its lease.                                                  *)
LEMMA ToReleaseStep ==
  ASSUME IInv, NEW t \in Tasks, Busy(t), NEW out \in {"failed", "ok"}, live' \subseteq live,
         \/ task' = [task EXCEPT ![t] = Ended(t, "failed")]
         \/ task' = [task EXCEPT ![t] = [task[t] EXCEPT !.pc = "releasing", !.out = out]],
         UNCHANGED <<sub, exec, wf, outbox, committed, scored>>
  PROVE  IInv'
<1> DEFINE next == [task[t] EXCEPT !.pc = "releasing", !.out = out]
<1>1. /\ next \in Task /\ next.pc = "releasing" /\ next.run = task[t].run
      /\ next.token = task[t].token /\ next.index = task[t].index
  <2>1. task[t] \in Task /\ out \in {"failed", "ok", "finished"}
    BY DEF IInv, TypeOK
  <2> QED BY Zenon, <2>1, MovedOutType
<1>2. CASE task' = [task EXCEPT ![t] = next]
  <2> HIDE DEF next
  <2>1. task' \in [Tasks -> Task] /\ \A u \in Tasks : TaskKept(u)
    BY Zenon, <1>1, <1>2, TaskMoves
  <2> QED BY <2>1, QuietStep DEF IInv, TypeOK
<1>3. CASE task' = [task EXCEPT ![t] = Ended(t, "failed")]
  <2>1. task' \in [Tasks -> Task] /\ \A u \in Tasks : TaskKept(u)
    BY Zenon, <1>3, TaskAnswers
  <2> QED BY <2>1, QuietStep DEF IInv, TypeOK
<1> QED BY <1>2, <1>3

LEMMA CheckpointedType ==
  ASSUME NEW row \in ExecutionRow, row.stages < NumStages, NEW final \in BOOLEAN, NEW defer \in BOOLEAN
  PROVE  LET r == Checkpointed(row, final, defer)
         IN r \in ExecutionRow /\ r.state \in {"finalizing", "queued"} /\ r.epoch = row.epoch
<1>1. row.stages + 1 \in 0 .. NumStages
  BY ParameterAssumption DEF ExecutionRow
<1> QED BY ZenonT(60), <1>1 DEF Checkpointed, ExecutionRow, Unfinished

LEMMA SaveStep ==
  ASSUME IInv, NEW t \in Tasks, NEW compiled \in BOOLEAN, SaveJudgeStage(t, compiled)
  PROVE  IInv'
<1> DEFINE e == task[t].run.exec
           final == Final(t, compiled)
           row == Checkpointed(exec[e], final, task[t].defer)
           caught == [task[t] EXCEPT !.pc = "catch"]
<1>1. /\ task[t].pc = "save"
      /\ \/ /\ HoldsLease(t) /\ NextCheckpoint(t)
            /\ exec' = [exec EXCEPT ![e] = row]
            /\ task' \in {[task EXCEPT ![t] = Ended(t, "finished")], [task EXCEPT ![t] = Ended(t, "saved")]}
         \/ UNCHANGED exec /\ task' = [task EXCEPT ![t] = caught]
      /\ UNCHANGED <<sub, wf, live, outbox, committed, scored>>
  BY DEF SaveJudgeStage
<1>2. task[t] \in Task /\ Busy(t)
  BY <1>1 DEF IInv, TypeOK, Busy
<1>3. /\ e \in Execs /\ exec[e].state # "absent"
      /\ task[t].index < NumStages /\ task[t].token \in Tokens
  BY <1>1, <1>2 DEF IInv, FenceInv, ActivitiesHaveRows, StagesHaveLeases
<1>4. CASE /\ HoldsLease(t) /\ NextCheckpoint(t)
           /\ exec' = [exec EXCEPT ![e] = row]
           /\ task' \in {[task EXCEPT ![t] = Ended(t, "finished")],
                         [task EXCEPT ![t] = Ended(t, "saved")]}
  <2>1. exec[e].stages < NumStages /\ exec[e].lease \in Tokens /\ exec[e].state # "cancelled"
    BY <1>3, <1>4 DEF HoldsLease, NextCheckpoint
  <2>2. NoToken \notin Tokens
    BY ParameterAssumption
  <2>3. exec[e].state # "completed"
    BY <1>3, <2>1, <2>2 DEF IInv, FenceInv, CompletedIsFenced
  <2>4. exec[e].state \in Unfinished
    BY <1>3, <2>1, <2>3 DEF IInv, TypeOK, ExecutionRow, Terminal
  <2>5. final \in BOOLEAN /\ task[t].defer \in BOOLEAN
    BY <1>2 DEF Final, Task
  <2>6. row \in ExecutionRow /\ row.state \in {"finalizing", "queued"} /\ row.epoch = exec[e].epoch
    BY <1>3, <2>1, <2>5, CheckpointedType DEF IInv, TypeOK
  <2> HIDE DEF row
  <2>7. exec' \in [Execs -> ExecutionRow] /\ RowsKept
    BY <1>1, <1>3, <1>4, <2>4, <2>6 DEF IInv, TypeOK, RowsKept
  <2>8. task' \in [Tasks -> Task] /\ \A u \in Tasks : TaskKept(u)
    BY <1>4, TaskAnswers
  <2> QED BY <1>1, <2>7, <2>8, WorkflowsUnchanged, WorkflowStepKeeps DEF IInv, TypeOK
<1>5. CASE UNCHANGED exec /\ task' = [task EXCEPT ![t] = caught]
  <2>1. /\ caught \in Task /\ caught.pc = "catch" /\ caught.run = task[t].run
        /\ caught.token = task[t].token /\ caught.index = task[t].index
    BY Zenon, <1>2, MovedType
  <2> HIDE DEF caught
  <2>2. task' \in [Tasks -> Task] /\ \A u \in Tasks : TaskKept(u)
    BY Zenon, <1>2, <1>5, <2>1, TaskMoves
  <2> QED BY <1>1, <1>5, <2>2, QuietStep DEF IInv, TypeOK
<1> QED BY <1>1, <1>4, <1>5

LEMMA ReleaseStep ==
  ASSUME IInv, NEW t \in Tasks, ReleaseJudgeStage(t)
  PROVE  IInv'
<1>1. /\ exec' = Released(task[t].run, task[t].token)
      /\ task' = [task EXCEPT ![t] = Ended(t, task[t].out)]
      /\ UNCHANGED <<sub, wf, live, outbox, committed, scored>>
  BY DEF ReleaseJudgeStage
<1>2. exec' \in [Execs -> ExecutionRow] /\ RowsKept
  BY <1>1, ReleasedRows DEF IInv, TypeOK, RowsKept
<1>3. task[t].out \in {"none", "obsolete", "cleanup", "saved", "finished", "ok", "null", "failed"}
  BY DEF IInv, TypeOK, Task
<1>4. task' \in [Tasks -> Task] /\ \A u \in Tasks : TaskKept(u)
  BY Zenon, <1>1, <1>3, TaskAnswers
<1> QED BY <1>1, <1>2, <1>4, WorkflowsUnchanged, WorkflowStepKeeps DEF IInv, TypeOK

LEMMA HeartbeatStep ==
  ASSUME IInv, NEW t \in Tasks, HeartbeatJudgeStage(t)
  PROVE  IInv'
<1> DEFINE e == task[t].run.exec
           row == [exec[e] EXCEPT !.fresh = TRUE]
<1>1. /\ exec' = [exec EXCEPT ![e] = row]
      /\ UNCHANGED <<sub, wf, task, live, outbox, committed, scored>>
  BY DEF HeartbeatJudgeStage
<1>2. e \in Execs => /\ row \in ExecutionRow
                     /\ row.state = exec[e].state /\ row.epoch = exec[e].epoch
                     /\ row.lease = exec[e].lease
  BY ZenonT(60) DEF IInv, TypeOK, ExecutionRow
<1> HIDE DEF e, row
<1>3. /\ exec' \in [Execs -> ExecutionRow]
      /\ \A i \in Execs : /\ exec'[i].state = exec[i].state /\ exec'[i].epoch = exec[i].epoch
                          /\ exec'[i].lease = exec[i].lease
  BY Zenon, <1>1, <1>2 DEF IInv, TypeOK
<1>4. RowsKept
  BY <1>1, <1>3 DEF RowsKept
<1> QED BY <1>1, <1>3, <1>4, TasksUnchanged, WorkflowsUnchanged, WorkflowStepKeeps DEF IInv, TypeOK

LEMMA PreflightStep ==
  ASSUME IInv, NEW t \in Tasks, CompletePreflight(t)
  PROVE  IInv'
<1> DEFINE next == [task[t] EXCEPT !.pc = "guard"]
<1>1. /\ task[t].pc = "preflight"
      /\ UNCHANGED <<sub, exec, wf, live, outbox, committed, scored>>
  BY DEF CompletePreflight
<1>2. \/ task' = [task EXCEPT ![t] = Ended(t, "ok")]
      \/ task' = [task EXCEPT ![t] = Ended(t, "null")]
      \/ task' = [task EXCEPT ![t] = next]
  <2> DEFINE no == ~StillOwner(t)
             known == StillOwner(t) /\ sub.active = NoRun /\ sub.detail = task[t].run.exec
             okNext == Ended(t, "ok")
             nullNext == Ended(t, "null")
  <2>1. task' = [task EXCEPT ![t] = CASE no -> nullNext [] known -> okNext [] OTHER -> next]
    BY DEF CompletePreflight
  <2> HIDE DEF no, known, okNext, nullNext, next
  <2>2. (CASE no -> nullNext [] known -> okNext [] OTHER -> next) \in {okNext, nullNext, next}
    OBVIOUS
  <2>3. task' \in {[task EXCEPT ![t] = okNext], [task EXCEPT ![t] = nullNext], [task EXCEPT ![t] = next]}
    BY Zenon, <2>1, <2>2
  <2> QED BY <2>3 DEF okNext, nullNext
<1>3. CASE task' = [task EXCEPT ![t] = next]
  <2>1. /\ next \in Task /\ next.pc = "guard" /\ next.run = task[t].run
        /\ next.token = task[t].token /\ next.index = task[t].index
    BY Zenon, MovedType DEF IInv, TypeOK
  <2> HIDE DEF next
  <2>2. task' \in [Tasks -> Task] /\ \A u \in Tasks : TaskKept(u)
    BY Zenon, <1>1, <1>3, <2>1, TaskMoves DEF Busy
  <2> QED BY <1>1, <2>2, QuietStep DEF IInv, TypeOK
<1>4. CASE \/ task' = [task EXCEPT ![t] = Ended(t, "ok")]
           \/ task' = [task EXCEPT ![t] = Ended(t, "null")]
  <2>1. task' \in [Tasks -> Task] /\ \A u \in Tasks : TaskKept(u)
    BY <1>4, TaskAnswers
  <2> QED BY <1>1, <2>1, QuietStep DEF IInv, TypeOK
<1> QED BY <1>2, <1>3, <1>4

(* The write guard is noted on a row that is otherwise kept.                 *)
LEMMA GuardStep ==
  ASSUME IInv, NEW t \in Tasks, GuardVerdict(t)
  PROVE  IInv'
<1> DEFINE e == task[t].run.exec
           row == [exec[e] EXCEPT !.guarded = TRUE]
           next == [task[t] EXCEPT !.pc = "commit"]
<1>1. /\ Busy(t) /\ task[t] \in Task
      /\ UNCHANGED <<sub, wf, live, outbox, committed, scored>>
      /\ \/ exec' = [exec EXCEPT ![e] = row] /\ task' = [task EXCEPT ![t] = next]
         \/ UNCHANGED exec /\ \E x \in {"failed", "null"} : task' = [task EXCEPT ![t] = Ended(t, x)]
  BY DEF GuardVerdict, IInv, TypeOK, Busy
<1>2. CASE exec' = [exec EXCEPT ![e] = row] /\ task' = [task EXCEPT ![t] = next]
  <2>1. e \in Execs => /\ row \in ExecutionRow
                       /\ row.state = exec[e].state /\ row.epoch = exec[e].epoch
                       /\ row.lease = exec[e].lease
    BY ZenonT(60) DEF IInv, TypeOK, ExecutionRow
  <2>2. /\ next \in Task /\ next.pc = "commit" /\ next.run = task[t].run
        /\ next.token = task[t].token /\ next.index = task[t].index
    BY Zenon, <1>1, MovedType
  <2> HIDE DEF e, row, next
  <2>3. /\ exec' \in [Execs -> ExecutionRow]
        /\ \A i \in Execs : /\ exec'[i].state = exec[i].state /\ exec'[i].epoch = exec[i].epoch
                            /\ exec'[i].lease = exec[i].lease
    BY Zenon, <1>2, <2>1 DEF IInv, TypeOK
  <2>4. RowsKept
    BY <1>1, <2>3 DEF RowsKept
  <2>5. task' \in [Tasks -> Task] /\ \A u \in Tasks : TaskKept(u)
    BY Zenon, <1>1, <1>2, <2>2, TaskMoves
  <2> QED BY <1>1, <2>3, <2>4, <2>5, WorkflowsUnchanged, WorkflowStepKeeps DEF IInv, TypeOK
<1>3. CASE UNCHANGED exec /\ \E x \in {"failed", "null"} : task' = [task EXCEPT ![t] = Ended(t, x)]
  <2>1. task' \in [Tasks -> Task] /\ \A u \in Tasks : TaskKept(u)
    BY Zenon, <1>3, TaskAnswers
  <2> QED BY <1>1, <1>3, <2>1, QuietStep DEF IInv, TypeOK
<1> QED BY <1>1, <1>2, <1>3

(* The commit takes the submission from the execution that owns it.          *)
LEMMA CompleteStep ==
  ASSUME IInv, NEW t \in Tasks, CompleteJudge(t)
  PROVE  IInv'
<1> DEFINE e == task[t].run.exec
           shown == [sub EXCEPT !.active = NoRun, !.status = "verdict", !.score = e, !.detail = e]
<1>1. /\ task[t].pc = "commit" /\ task[t] \in Task
      /\ \/ /\ sub.active = task[t].run /\ sub' = shown /\ committed' = committed \cup {e}
         \/ UNCHANGED <<sub, committed>>
      /\ task' \in {[task EXCEPT ![t] = Ended(t, "ok")], [task EXCEPT ![t] = Ended(t, "null")]}
      /\ UNCHANGED <<exec, wf, live, outbox, scored>>
  BY DEF CompleteJudge, IInv, TypeOK
<1>2. e \in Execs
  BY <1>1 DEF IInv, FenceInv, ActivitiesHaveRows, Busy
<1>3. shown \in SubmissionRow /\ shown.gen = sub.gen /\ shown.active = NoRun
  BY Zenon, <1>2, Zero, NewRowsType DEF IInv, TypeOK, SubmissionRow
<1>4. task' \in [Tasks -> Task] /\ \A u \in Tasks : TaskKept(u)
  BY <1>1, TaskAnswers
<1>5. CASE UNCHANGED <<sub, committed>>
  BY <1>1, <1>4, <1>5, QuietStep DEF IInv, TypeOK
<1>6. CASE sub.active = task[t].run /\ sub' = shown /\ committed' = committed \cup {e}
  <2> HIDE DEF shown
  <2>1. TypeOK'
    <3>1. sub' \in SubmissionRow
      BY <1>3, <1>6
    <3>2. committed' \subseteq Execs
      BY <1>2, <1>6 DEF IInv, TypeOK
    <3> QED BY <1>1, <1>4, <3>1, <3>2 DEF IInv, TypeOK
  <2>2. e # 0
    BY <1>2, ParameterAssumption DEF Execs
  <2>3. ASSUME NEW i \in Execs, exec[i].state \in Unfinished
        PROVE  sub.gen = i /\ i = e
    <3>1. /\ sub.gen = i
          /\ sub.active = Run(i, exec[i].epoch) \/ sub.active = NoRun
      BY <2>3 DEF IInv, FenceInv, OpenExecutionOwnsSubmission
    <3>2. Run(i, exec[i].epoch).exec = i /\ NoRun.exec = 0
      BY DEF Run, NoRun
    <3>3. sub.active.exec = e
      BY <1>6
    <3> HIDE DEF e
    <3> QED BY <2>2, <3>1, <3>2, <3>3
  <2>4. OpenExecutionOwnsSubmission' /\ CompletedIsFenced'
    BY <1>1, <1>3, <1>6, <2>3
    DEF IInv, FenceInv, OpenExecutionOwnsSubmission, CompletedIsFenced
  <2>5. ActivitiesHaveRows'
    BY <1>1, <1>4 DEF IInv, FenceInv, ActivitiesHaveRows, TaskKept, Busy
  <2>6. StagesHaveLeases'
    BY <1>1, <1>4 DEF IInv, FenceInv, StagesHaveLeases, TaskKept, Busy
  <2> QED BY <2>1, <2>4, <2>5, <2>6 DEF IInv, FenceInv
<1> QED BY <1>1, <1>5, <1>6

LEMMA StorageFailsStep ==
  ASSUME IInv, NEW t \in Tasks, StorageFails(t)
  PROVE  IInv'
<1> DEFINE next == [task[t] EXCEPT !.pc = "catch"]
<1>1. /\ Busy(t) /\ task[t] \in Task
      /\ \E x \in {Ended(t, "failed"), next} : task' = [task EXCEPT ![t] = x]
      /\ UNCHANGED <<sub, exec, wf, live, outbox, committed, scored>>
  BY Zenon DEF StorageFails, IInv, TypeOK, Busy
<1>2. /\ next \in Task /\ next.pc = "catch" /\ next.run = task[t].run
      /\ next.token = task[t].token /\ next.index = task[t].index
  BY Zenon, <1>1, MovedType
<1> HIDE DEF next
<1>3. task' \in [Tasks -> Task] /\ \A u \in Tasks : TaskKept(u)
  BY Zenon, <1>1, <1>2, TaskAnswers, TaskMoves
<1> QED BY <1>1, <1>3, QuietStep DEF IInv, TypeOK

LEMMA WorkerCrashStep ==
  ASSUME IInv, NEW t \in Tasks, WorkerCrash(t)
  PROVE  IInv'
<1> DEFINE lost == [FreeTask EXCEPT !.kind = task[t].kind, !.pc = "lost"]
<1>1. /\ \E x \in {lost, FreeTask} : task' = [task EXCEPT ![t] = x]
      /\ UNCHANGED <<sub, exec, wf, live, outbox, committed, scored>>
  BY Zenon DEF WorkerCrash
<1>2. lost \in Task /\ lost.pc = "lost"
  BY Zenon, NewRowsType DEF IInv, TypeOK, Task
<1> HIDE DEF lost
<1>3. task' \in [Tasks -> Task] /\ \A u \in Tasks : TaskKept(u)
  BY Zenon, <1>1, <1>2, FreeTaskType, TaskEnds
<1> QED BY <1>1, <1>3, QuietStep DEF IInv, TypeOK

LEMMA ResourcesExpireStep ==
  ASSUME IInv, NEW k \in Tokens, ResourcesExpire(k)
  PROVE  IInv'
BY TasksUnchanged, QuietStep DEF IInv, TypeOK, ResourcesExpire

-----------------------------------------------------------------------------
LEMMA InitIInv == Init => IInv
<1> SUFFICES ASSUME Init PROVE IInv
  OBVIOUS
<1>1. /\ \A e \in Execs : exec[e].state = "absent" /\ wf[e].pc = "none"
      /\ \A t \in Tasks : task[t].pc = "done"
  BY DEF Init, NewExecution, NoWorkflow, FreeTask
<1>2. FenceInv
  BY <1>1 DEF FenceInv, OpenExecutionOwnsSubmission, ActivitiesHaveRows, StagesHaveLeases,
     CompletedIsFenced, Busy, Unfinished
<1> QED BY <1>2, InitType DEF IInv

LEMMA WorkflowSteps ==
  ASSUME IInv, NEW e \in Execs, WorkflowStep(e) \/ WorkflowFault(e)
  PROVE  IInv'
<1>1. CASE WorkflowStep(e)
  BY Zenon, <1>1, ReadStatusStep, ReconcileCheckStep, ReconcileStageStep, SetBlockedStep, StageAnsweredStep,
     CompleteAnsweredStep, ApplyEffectsStep, AwaitCleanupStep, FinishStep, RecoverStep,
     QueueStageStep, StartCompleteStep DEF WorkflowStep
<1>2. CASE WorkflowFault(e)
  BY Zenon, <1>2, StageTimedOutStep, CompleteTimedOutStep, ActivityFailsStep, ReconcileStageStep,
     FinishStep, RecoverStep DEF WorkflowFault
<1> QED BY <1>1, <1>2

LEMMA TaskSteps ==
  ASSUME IInv, NEW t \in Tasks, TaskStep(t) \/ HeartbeatJudgeStage(t) \/ TaskFault(t)
  PROVE  IInv'
<1>1. ASSUME NEW confirmed \in BOOLEAN,
             \/ StageFails(t, confirmed) \/ CatchCleanup(t, confirmed) \/ CleanupStage(t, confirmed)
      PROVE  IInv'
  <2>1. /\ Busy(t) /\ live' \subseteq live
        /\ UNCHANGED <<sub, exec, wf, outbox, committed, scored>>
        /\ \E out \in {"failed", "ok"} :
             \/ task' = [task EXCEPT ![t] = Ended(t, "failed")]
             \/ task' = [task EXCEPT ![t] = [task[t] EXCEPT !.pc = "releasing", !.out = out]]
    BY <1>1 DEF StageFails, CatchCleanup, CleanupStage, Busy
  <2> QED BY Zenon, <2>1, ToReleaseStep
<1>2. CASE TaskStep(t)
  BY Zenon, <1>1, <1>2, ClaimStep, PastLastStageStep, StartSandboxStep, ReleaseStep, PreflightStep,
     GuardStep, CompleteStep, SandboxRanStep, SaveStep DEF TaskStep
<1>3. CASE TaskFault(t)
  BY Zenon, <1>1, <1>3, WorkerCrashStep, StorageFailsStep DEF TaskFault
<1> QED BY <1>2, <1>3, HeartbeatStep

LEMMA Inductive == IInv /\ [Next]_vars => IInv'
<1> SUFFICES ASSUME IInv, [Next]_vars PROVE IInv'
  OBVIOUS
<1>1. CASE Accept \/ Rejudge
  BY Zenon, <1>1, CreateStep DEF Accept, Rejudge
<1>2. ASSUME NEW e \in Execs,
             \/ CancelRejudge(e) \/ Dispatch(e, TRUE) \/ Dispatch(e, FALSE)
             \/ Redispatch(e) \/ TerminateStalled(e) \/ NewEpoch(e)
             \/ CleanupTerminal(e) \/ LeaseLapses(e)
      PROVE  IInv'
  BY Zenon, <1>2, CancelRejudgeStep, DispatchStep, RedispatchStep, TerminateStalledStep, NewEpochStep,
     CleanupTerminalStep, LeaseLapsesStep
<1>3. CASE UNCHANGED vars
  BY <1>3 DEF vars, IInv, TypeOK, FenceInv, OpenExecutionOwnsSubmission, ActivitiesHaveRows,
     StagesHaveLeases, CompletedIsFenced, Busy
<1> QED BY Zenon, <1>1, <1>2, <1>3, WorkflowSteps, TaskSteps, ResourcesExpireStep DEF Next

LEMMA Invariance == Spec => []IInv
BY InitIInv, Inductive, PTL DEF Spec

(* Every variable stays in its type: stages are never counted past the last  *)
(* one, nor epochs past their bound.                                         *)
THEOREM TypeCorrect == Spec => []TypeOK
<1>1. IInv => TypeOK
  BY DEF IInv
<1> QED BY <1>1, Invariance, PTL

(* Generations are fenced, for any number of rejudges, recovery epochs and   *)
(* activities, late claims and late commits included.                        *)
THEOREM OwnerIsFenced == Spec => []OpenExecutionOwnsSubmission
<1>1. IInv => OpenExecutionOwnsSubmission
  BY DEF IInv, FenceInv
<1> QED BY <1>1, Invariance, PTL

-----------------------------------------------------------------------------
(***************************************************************************)
(* The slots of the workflows, the owner of the submission, and what is    *)
(* settled: JInv.                                                          *)
(***************************************************************************)

(* What the kind of an activity says of its steps. *)
PcOk(x) ==
  /\ x.kind = "free" => x.pc \in {"done", "lost"}
  /\ x.kind = "complete" => x.pc \in {"preflight", "guard", "commit", "done", "lost"}
  /\ x.pc \in {"preflight", "guard", "commit"} => x.kind = "complete" /\ x.out = "none"
  /\ x.pc \in {"unstarted", "claimed", "executing", "save"} => x.kind = "stage" /\ x.out = "none"

(* An activity knows no epoch and no checkpoint that is still to come. *)
TaskOk(t) ==
  /\ PcOk(task[t])
  /\ Busy(t) => /\ task[t].run.epoch <= exec[task[t].run.exec].epoch
                /\ task[t].index <= exec[task[t].run.exec].stages

(* A workflow waits for activities of its own. *)
SlotOk(e) ==
  /\ wf[e].task # NoTask <=> wf[e].pc \in {"await", "completing"}
  /\ wf[e].cleaner # NoTask =>
       wf[e].pc \in {"publish", "completing", "effects", "settle", "recover"}
  /\ wf[e].pc = "await" => task[wf[e].task].kind = "stage"
  /\ wf[e].pc = "completing" => task[wf[e].task].kind = "complete"
  /\ wf[e].cleaner # NoTask => task[wf[e].cleaner].kind = "cleanup"
  /\ wf[e].task # NoTask /\ Busy(wf[e].task) => task[wf[e].task].run = This(e)
  /\ wf[e].idx <= exec[e].stages
  /\ wf[e].pc = "none" => wf[e] = NoWorkflow

Slots(e) == {wf[e].task, wf[e].cleaner} \ {NoTask}

SlotInv ==
  /\ \A t \in Tasks : TaskOk(t)
  /\ \A e \in Execs : SlotOk(e)
  /\ \A e, f \in Execs : e # f => Slots(e) \cap Slots(f) = {}

(* The submission names the open execution, or none once its verdict is there. *)
OwnerInv ==
  /\ sub.active # NoRun =>
       /\ sub.gen \in Execs /\ sub.active = This(sub.gen)
       /\ exec[sub.gen].state \in Unfinished /\ sub.gen \notin committed
  /\ \A e \in Execs : exec[e].state = "absent" <=> e > sub.gen
  /\ \A e \in committed : e <= sub.gen
  /\ sub.gen \in committed => sub.detail = sub.gen
  /\ sub.detail # 0 => sub.detail \in committed
  /\ ResultStaysVisible

(* There is nothing left to publish for e. *)
Settled(e) == e \in committed \/ exec[e].state \in Terminal

(* Where a workflow does not come before its execution is settled. *)
PastPublish(w) == w.pc = "finish" \/ w.published \/ (w.pc = "settle" /\ ~w.more)

SettledOk(e) ==
  /\ wf[e].pc = "effects" => e \in committed
  /\ PastPublish(wf[e]) => Settled(e)
  /\ wf[e].pc = "completing" =>
       /\ task[wf[e].task].out = "ok" => e \in committed
       /\ task[wf[e].task].out = "null" => Settled(e)

SettledInv == CompletedHasVerdict /\ \A e \in Execs : SettledOk(e)

JInv == SlotInv /\ OwnerInv /\ SettledInv

-----------------------------------------------------------------------------
(* Row relations. *)

(* A step leaves epoch and checkpoints of a row alone, and does not open it. *)
RowGo(i) ==
  /\ exec'[i].epoch = exec[i].epoch
  /\ exec'[i].stages >= exec[i].stages
  /\ exec[i].state \in Terminal => exec'[i].state \in Terminal

(* Workflow e moves, with the slots that it waits for or takes. *)
SlotGo(e, t) ==
  \/ task'[t] = task[t]
  \/ /\ t \in Slots(e) \/ task[t].kind = "free"
     /\ PcOk(task'[t])
     /\ Busy(t)' => task'[t].run = This(e) /\ task'[t].index <= exec[e].stages

WorkflowGo(e) ==
  /\ \A f \in Execs : f # e => wf'[f] = wf[f]
  /\ \A t \in Tasks : SlotGo(e, t)
  /\ \A t \in Slots(e)' : t \in Slots(e) \/ task[t].kind = "free"
  /\ \A i \in Execs : RowGo(i)
  /\ committed \subseteq committed'

LEMMA SlotFacts ==
  ASSUME IInv, SlotInv, NEW f \in Execs
  PROVE  /\ Slots(f) \subseteq Tasks
         /\ \A t \in Slots(f) : task[t].kind # "free"
         /\ wf[f].task \in Slots(f) \cup {NoTask} /\ wf[f].cleaner \in Slots(f) \cup {NoTask}
<1>1. wf[f].task \in Tasks \cup {NoTask} /\ wf[f].cleaner \in Tasks \cup {NoTask}
  BY DEF IInv, TypeOK, WorkflowState
<1>2. SlotOk(f)
  BY DEF SlotInv
<1> QED BY <1>1, <1>2 DEF SlotOk, Slots

LEMMA ThisKept ==
  ASSUME IInv, NEW e \in Execs, exec'[e].epoch = exec[e].epoch
  PROVE  This(e)' = This(e)
BY DEF This

(* The other workflows do not notice. *)
LEMMA OthersKeepSlots ==
  ASSUME IInv, SlotInv, NEW e \in Execs, WorkflowGo(e), NEW f \in Execs, f # e
  PROVE  /\ wf'[f] = wf[f]
         /\ \A t \in Slots(f) : task'[t] = task[t]
         /\ This(f)' = This(f)
<1>1. \A t \in Slots(f) : t \in Tasks /\ t \notin Slots(e) /\ task[t].kind # "free"
  BY SlotFacts DEF SlotInv
<1> QED BY <1>1 DEF WorkflowGo, SlotGo, RowGo, This

LEMMA SlotsGo ==
  ASSUME IInv, IInv', SlotInv, NEW e \in Execs, WorkflowGo(e), SlotOk(e)'
  PROVE  SlotInv'
<1>1. ASSUME NEW f \in Execs, f # e PROVE SlotOk(f)'
  <2>1. /\ wf'[f] = wf[f] /\ This(f)' = This(f)
        /\ \A t \in Slots(f) : task'[t] = task[t]
    BY <1>1, OthersKeepSlots
  <2>2. SlotOk(f)
    BY DEF SlotInv
  <2>3. exec'[f].stages >= exec[f].stages /\ wf[f].idx \in Nat
        /\ exec[f].stages \in Nat /\ exec'[f].stages \in Nat
    BY ParameterAssumption DEF WorkflowGo, RowGo, IInv, TypeOK, WorkflowState, ExecutionRow
  <2> QED BY <2>1, <2>2, <2>3, SlotFacts DEF SlotOk, Slots, Busy
<1>2. ASSUME NEW t \in Tasks PROVE TaskOk(t)'
  <2>1. TaskOk(t)
    BY DEF SlotInv
  <2>2. /\ Busy(t) => task[t].run.exec \in Execs
        /\ task[t].run.epoch \in Nat /\ task[t].index \in Nat
        /\ task'[t].run.epoch \in Nat /\ task'[t].index \in Nat
        /\ \A i \in Execs : exec[i].epoch \in Nat /\ exec'[i].epoch \in Nat
                            /\ exec[i].stages \in Nat /\ exec'[i].stages \in Nat
    BY ParameterAssumption
    DEF IInv, TypeOK, Task, ExecutionRow, FenceInv, ActivitiesHaveRows, Busy
  <2>3. CASE task'[t] = task[t]
    BY <2>1, <2>2, <2>3 DEF TaskOk, WorkflowGo, RowGo, Busy
  <2>4. CASE PcOk(task'[t]) /\ (Busy(t)' => task'[t].run = This(e) /\ task'[t].index <= exec[e].stages)
    BY <2>2, <2>4 DEF TaskOk, WorkflowGo, RowGo, This, Run
  <2> QED BY <2>3, <2>4 DEF WorkflowGo, SlotGo
<1>3. ASSUME NEW f \in Execs, NEW g \in Execs, f # g PROVE Slots(f)' \cap Slots(g)' = {}
  <2>1. \A h \in Execs : h # e => Slots(h)' = Slots(h)
    BY DEF WorkflowGo, Slots
  <2>2. \A h \in Execs : \A t \in Slots(h) : task[t].kind # "free"
    BY SlotFacts
  <2>3. \A h \in Execs : h # e => Slots(h)' \cap Slots(e)' = {}
    BY <2>1, <2>2 DEF SlotInv, WorkflowGo
  <2> QED BY <1>3, <2>1, <2>3 DEF SlotInv
<1> QED BY <1>1, <1>2, <1>3 DEF SlotInv

LEMMA SettledStays ==
  ASSUME NEW i \in Execs, RowGo(i), committed \subseteq committed', Settled(i)
  PROVE  Settled(i)'
BY DEF RowGo, Settled

LEMMA SettledGoes ==
  ASSUME IInv, SlotInv, SettledInv, NEW e \in Execs, WorkflowGo(e), SettledOk(e)',
         \A i \in Execs : exec'[i].state = "completed" => exec[i].state = "completed" \/ i \in committed
  PROVE  SettledInv'
<1>1. ASSUME NEW f \in Execs, f # e PROVE SettledOk(f)'
  <2>1. /\ wf'[f] = wf[f]
        /\ \A t \in Slots(f) : task'[t] = task[t]
    BY <1>1, OthersKeepSlots
  <2>2. Settled(f) => Settled(f)'
    BY SettledStays DEF WorkflowGo
  <2>3. wf[f].pc = "completing" => wf[f].task \in Slots(f)
    BY DEF SlotInv, SlotOk, Slots
  <2> QED BY <2>1, <2>2, <2>3 DEF SettledInv, SettledOk, PastPublish, WorkflowGo
<1>2. CompletedHasVerdict'
  BY DEF SettledInv, CompletedHasVerdict, WorkflowGo
<1> QED BY <1>1, <1>2 DEF SettledInv

(* The submission keeps its owner and its result; only its progress is       *)
(* written, and not during a rejudge.                                        *)
SubmissionGo ==
  /\ sub'.gen = sub.gen /\ sub'.active = sub.active
  /\ sub'.score = sub.score /\ sub'.detail = sub.detail
  /\ \/ sub'.status = sub.status
     \/ /\ sub'.status \in {"system_error", "running", "queued"}
        /\ sub.gen \in Execs /\ ~exec[sub.gen].rejudge
  /\ committed' = committed
  /\ \A i \in Execs :
       /\ exec'[i].epoch = exec[i].epoch
       /\ exec'[i].rejudge = exec[i].rejudge
       /\ exec'[i].oldStatus = exec[i].oldStatus /\ exec'[i].oldScore = exec[i].oldScore
       /\ exec'[i].state = "absent" <=> exec[i].state = "absent"

LEMMA OwnerStays ==
  ASSUME IInv, OwnerInv, SubmissionGo,
         \A i \in Execs : exec[i].state \in Unfinished /\ exec'[i].state \notin Unfinished =>
           sub.active = NoRun \/ sub.gen # i
  PROVE  OwnerInv'
<1>1. /\ sub.active # NoRun =>
           /\ sub.gen \in Execs /\ sub.active = This(sub.gen)
           /\ exec[sub.gen].state \in Unfinished /\ sub.gen \notin committed
      /\ \A e \in Execs : exec[e].state = "absent" <=> e > sub.gen
      /\ \A e \in committed : e <= sub.gen
      /\ sub.gen \in committed => sub.detail = sub.gen
      /\ sub.detail # 0 => sub.detail \in committed
  BY DEF OwnerInv
<1>2. sub'.active # NoRun =>
       /\ sub'.gen \in Execs /\ sub'.active = This(sub.gen)'
       /\ exec'[sub.gen].state \in Unfinished /\ sub.gen \notin committed'
  BY <1>1 DEF SubmissionGo, This
<1>3. ResultStaysVisible'
  BY DEF OwnerInv, ResultStaysVisible, SubmissionGo
<1> QED BY <1>1, <1>2, <1>3 DEF OwnerInv, SubmissionGo

LEMMA WorkflowKeeps ==
  ASSUME IInv, IInv', JInv, NEW e \in Execs, WorkflowGo(e), SubmissionGo, SlotOk(e)', SettledOk(e)',
         \A i \in Execs : exec[i].state \in Unfinished => exec'[i].state \in Unfinished,
         \A i \in Execs : exec'[i].state = "completed" => exec[i].state = "completed"
  PROVE  JInv'
BY SlotsGo, SettledGoes, OwnerStays DEF JInv

-----------------------------------------------------------------------------
(* What the steps of the workflow do, field by field. *)

(* Everything of a row but its state and what times it. *)
SameRow(i) ==
  /\ exec'[i].epoch = exec[i].epoch /\ exec'[i].stages = exec[i].stages
  /\ exec'[i].lease = exec[i].lease /\ exec'[i].rejudge = exec[i].rejudge
  /\ exec'[i].oldStatus = exec[i].oldStatus /\ exec'[i].oldScore = exec[i].oldScore

LEMMA StateRowSame ==
  ASSUME NEW row \in ExecutionRow, NEW s
  PROVE  LET r == [row EXCEPT !.state = s]
         IN /\ r.state = s /\ r.epoch = row.epoch /\ r.lease = row.lease /\ r.stages = row.stages
            /\ r.rejudge = row.rejudge /\ r.oldStatus = row.oldStatus /\ r.oldScore = row.oldScore
BY DEF ExecutionRow

LEMMA StatusOnly ==
  ASSUME IInv, NEW s
  PROVE  LET r == [sub EXCEPT !.status = s]
         IN /\ r.status = s /\ r.gen = sub.gen /\ r.active = sub.active
            /\ r.score = sub.score /\ r.detail = sub.detail
BY DEF IInv, TypeOK, SubmissionRow

LEMMA SetStateFacts ==
  ASSUME IInv, NEW run, run.exec \in Execs, NEW s \in Unfinished, SetState(run, s),
         UNCHANGED committed
  PROVE  /\ SubmissionGo
         /\ \A i \in Execs :
              /\ SameRow(i)
              /\ \/ exec'[i].state = exec[i].state
                 \/ /\ exec[i].state \in Unfinished /\ exec[i].state # "finalizing"
                    /\ exec'[i].state = s /\ Run(i, exec[i].epoch) = Run(run.exec, run.epoch)
<1> DEFINE x == NextState(run.exec, s)
           row == [exec[run.exec] EXCEPT !.state = x]
           new == [sub EXCEPT !.status = SubmissionStatusFor(x)]
<1>1. \/ x = exec[run.exec].state /\ x = "finalizing"
      \/ x = s /\ exec[run.exec].state # "finalizing"
  BY DEF NextState
<1>2. SubmissionStatusFor(x) \in {"system_error", "running", "queued"}
  BY DEF SubmissionStatusFor
<1>3. /\ new.gen = sub.gen /\ new.active = sub.active
      /\ new.status \in {"system_error", "running", "queued"}
      /\ new.score = sub.score /\ new.detail = sub.detail
  BY <1>2, StatusOnly
<1>4. ASSUME run.exec \in Execs
      PROVE /\ row.state = x /\ row.epoch = exec[run.exec].epoch
            /\ row.lease = exec[run.exec].lease /\ row.stages = exec[run.exec].stages
            /\ row.rejudge = exec[run.exec].rejudge
            /\ row.oldStatus = exec[run.exec].oldStatus /\ row.oldScore = exec[run.exec].oldScore
  BY <1>4, StateRowSame DEF IInv, TypeOK
<1>5. /\ \/ exec' = exec
         \/ Settable(run) /\ exec' = [exec EXCEPT ![run.exec] = row]
      /\ \/ sub' = sub
         \/ sub' = new /\ sub.gen = run.exec /\ ~exec[run.exec].rejudge /\ Settable(run)
  BY DEF SetState
<1>6. Settable(run) => exec[run.exec].state \in Unfinished /\ exec[run.exec].epoch = run.epoch
  BY DEF Settable
<1> HIDE DEF x, row, new
<1>7. \A i \in Execs : i = run.exec \/ exec'[i] = exec[i]
  BY <1>5 DEF IInv, TypeOK
<1>8. exec' = exec \/ (run.exec \in Execs => exec'[run.exec] = row)
  BY <1>5 DEF IInv, TypeOK
<1>9. ASSUME NEW i \in Execs
       PROVE  /\ SameRow(i)
              /\ \/ exec'[i].state = exec[i].state
                 \/ /\ exec[i].state \in Unfinished /\ exec[i].state # "finalizing"
                    /\ exec'[i].state = s /\ Run(i, exec[i].epoch) = Run(run.exec, run.epoch)
  BY <1>1, <1>4, <1>5, <1>6, <1>7, <1>8 DEF SameRow
<1>10. SubmissionGo
  BY <1>3, <1>5, <1>9 DEF SubmissionGo, SameRow, Unfinished
<1> QED BY <1>9, <1>10

(* Rows that are only written in their state, their lease or their timing. *)
RowsQuiet ==
  /\ SubmissionGo
  /\ \A i \in Execs :
       /\ exec'[i].epoch = exec[i].epoch /\ exec'[i].stages = exec[i].stages
       /\ exec[i].state \in Unfinished => exec'[i].state \in Unfinished
       /\ exec[i].state \notin Unfinished => exec'[i].state = exec[i].state

LEMMA QuietUnchanged ==
  ASSUME IInv, UNCHANGED <<sub, exec, committed>>
  PROVE  RowsQuiet
BY DEF RowsQuiet, SubmissionGo

LEMMA QuietSetState ==
  ASSUME IInv, NEW run, run.exec \in Execs, NEW s \in Unfinished, SetState(run, s),
         UNCHANGED committed
  PROVE  RowsQuiet
BY SetStateFacts DEF RowsQuiet, SameRow

LEMMA ReleasedFields ==
  ASSUME NEW row \in ExecutionRow
  PROVE  LET r == [row EXCEPT !.lease = NoToken, !.fresh = FALSE]
         IN /\ r.state = row.state /\ r.epoch = row.epoch /\ r.stages = row.stages
            /\ r.rejudge = row.rejudge /\ r.oldStatus = row.oldStatus /\ r.oldScore = row.oldScore
            /\ r.lease = NoToken
BY DEF ExecutionRow

LEMMA QuietReleased ==
  ASSUME IInv, NEW run, NEW k, exec' = Released(run, k), UNCHANGED <<sub, committed>>
  PROVE  RowsQuiet
<1> DEFINE row == [exec[run.exec] EXCEPT !.lease = NoToken, !.fresh = FALSE]
<1>1. exec' \in {exec, [exec EXCEPT ![run.exec] = row]}
  BY DEF Released
<1>2. run.exec \in Execs =>
        /\ row.state = exec[run.exec].state /\ row.epoch = exec[run.exec].epoch
        /\ row.stages = exec[run.exec].stages /\ row.rejudge = exec[run.exec].rejudge
        /\ row.oldStatus = exec[run.exec].oldStatus /\ row.oldScore = exec[run.exec].oldScore
  BY ReleasedFields DEF IInv, TypeOK
<1> HIDE DEF row
<1> QED BY <1>1, <1>2 DEF IInv, TypeOK, RowsQuiet, SubmissionGo

LEMMA QuietGo ==
  ASSUME IInv, RowsQuiet
  PROVE  /\ \A i \in Execs : RowGo(i) /\ This(i)' = This(i)
         /\ \A i \in Execs : Settled(i) => Settled(i)'
         /\ committed' = committed
<1>1. \A i \in Execs : exec[i].stages \in Nat
  BY ParameterAssumption DEF IInv, TypeOK, ExecutionRow
<1>2. \A i \in Execs : RowGo(i) /\ This(i)' = This(i)
  BY <1>1 DEF RowsQuiet, RowGo, This, Terminal, Unfinished
<1>3. committed' = committed
  BY DEF RowsQuiet, SubmissionGo
<1> QED BY <1>2, <1>3, SettledStays

LEMMA WorkflowAt ==
  ASSUME IInv, NEW e \in Execs, NEW w, wf' = [wf EXCEPT ![e] = w]
  PROVE  wf'[e] = w /\ \A f \in Execs : f # e => wf'[f] = wf[f]
BY DEF IInv, TypeOK

(* A step of workflow e, with quiet rows and activities of its own. *)
LEMMA QuietKeeps ==
  ASSUME IInv, IInv', JInv, NEW e \in Execs, RowsQuiet, NEW w, wf' = [wf EXCEPT ![e] = w],
         \A t \in Tasks : SlotGo(e, t),
         {w.task, w.cleaner} \subseteq {wf[e].task, wf[e].cleaner, NoTask}
           \cup {t \in Tasks : task[t].kind = "free"},
         SlotOk(e)', SettledOk(e)'
  PROVE  JInv'
<1>1. wf'[e] = w /\ \A f \in Execs : f # e => wf'[f] = wf[f]
  BY Zenon, WorkflowAt
<1>2. \A t \in Slots(e)' : t \in Slots(e) \/ task[t].kind = "free"
  BY <1>1 DEF Slots
<1>3. WorkflowGo(e)
  BY <1>1, <1>2, QuietGo DEF WorkflowGo
<1>4. /\ \A i \in Execs : exec[i].state \in Unfinished => exec'[i].state \in Unfinished
      /\ \A i \in Execs : exec'[i].state = "completed" => exec[i].state = "completed"
  BY DEF RowsQuiet, Unfinished
<1>5. SubmissionGo
  BY DEF RowsQuiet
<1> QED BY <1>3, <1>4, <1>5, WorkflowKeeps

LEMMA WorkflowFields ==
  ASSUME IInv, NEW e \in Execs
  PROVE  /\ Loop(e).pc = "status" /\ Loop(e).idx = 0 /\ Loop(e).tok = NoToken
         /\ ~Loop(e).ended /\ ~Loop(e).fin /\ ~Loop(e).more
         /\ Loop(e).published = wf[e].published
         /\ Loop(e).task = NoTask /\ Loop(e).cleaner = NoTask
         /\ Closed.pc = "closed" /\ Closed.idx = 0 /\ Closed.tok = NoToken
         /\ ~Closed.ended /\ ~Closed.fin /\ ~Closed.more /\ ~Closed.published
         /\ Closed.task = NoTask /\ Closed.cleaner = NoTask
BY DEF IInv, TypeOK, Loop, Closed, NoWorkflow, WorkflowState

LEMMA UnleasedFields ==
  ASSUME NEW w \in WorkflowState
  PROVE  LET u == Unleased(w)
         IN /\ u.idx = w.idx /\ u.tok = NoToken /\ ~u.ended /\ u.fin = w.fin /\ u.more = w.more
            /\ u.published = w.published /\ u.task = w.task /\ u.cleaner = w.cleaner
            /\ w.ended => u.pc = "closed"
            /\ ~w.ended /\ ~w.fin => u.pc = "queue"
            /\ ~w.ended /\ w.fin /\ w.published => u.pc = "settle"
            /\ ~w.ended /\ w.fin /\ ~w.published => u.pc = "publish"
BY DEF Unleased, WorkflowState

LEMMA PublishedFields ==
  ASSUME NEW w \in WorkflowState
  PROVE  LET u == AfterPublish(w)
         IN /\ u.pc = "settle" /\ u.idx = w.idx /\ u.tok = w.tok /\ u.ended = w.ended /\ u.fin = w.fin
            /\ u.more = w.more /\ u.published = (w.cleaner # NoTask)
            /\ u.task = NoTask /\ u.cleaner = w.cleaner
BY DEF AfterPublish, WorkflowState

LEMMA ReadStatusFacts ==
  ASSUME IInv, NEW e \in Execs, ReadStatus(e)
  PROVE  \E w : /\ wf' = [wf EXCEPT ![e] = w]
                /\ w.idx = exec[e].stages /\ w.task = wf[e].task /\ w.cleaner = wf[e].cleaner
                /\ w.more = wf[e].more /\ w.published = wf[e].published
                /\ w.fin => exec[e].state = "finalizing"
                /\ w.ended => exec[e].state \in Terminal
                /\ w.tok = exec[e].lease
                /\ \/ w.pc = "reconcile"
                      /\ (~w.ended /\ ~w.fin => exec[e].state \notin {"finalizing"} \cup Terminal)
                   \/ w.pc = "closed" /\ ~w.ended /\ ~w.fin
                   \/ w.pc = "queue" /\ ~w.ended /\ ~w.fin
                      /\ exec[e].state \notin {"finalizing"} \cup Terminal
                   \/ w.pc = "settle" /\ ~w.ended /\ w.fin /\ w.published
                   \/ w.pc = "publish" /\ ~w.ended /\ w.fin /\ ~w.published
<1> DEFINE fin == exec[e].state = "finalizing"
           ended == exec[e].state \in Terminal
           w == [wf[e] EXCEPT !.fin = fin, !.ended = ended, !.idx = exec[e].stages, !.tok = exec[e].lease]
           u == IF w.tok = NoToken THEN Unleased(w) ELSE [w EXCEPT !.pc = "reconcile"]
<1>1. wf' = [wf EXCEPT ![e] = u]
  BY DEF ReadStatus
<1>2. /\ fin \in BOOLEAN /\ ended \in BOOLEAN
      /\ exec[e].stages \in 0 .. NumStages /\ exec[e].lease \in Tokens \cup {NoToken}
  BY DEF IInv, TypeOK, ExecutionRow
<1>3. fin => ~ended
  BY DEF Terminal
<1> HIDE DEF fin, ended
<1>4. /\ w \in WorkflowState /\ w.fin = fin /\ w.ended = ended /\ w.idx = exec[e].stages
      /\ w.tok = exec[e].lease /\ w.task = wf[e].task /\ w.cleaner = wf[e].cleaner
      /\ w.more = wf[e].more /\ w.published = wf[e].published
  BY Zenon, <1>2 DEF IInv, TypeOK, WorkflowState
<1> HIDE DEF w
<1>5. LET r == [w EXCEPT !.pc = "reconcile"]
      IN /\ r.idx = w.idx /\ r.tok = w.tok /\ r.task = w.task /\ r.cleaner = w.cleaner
         /\ r.more = w.more /\ r.published = w.published /\ r.fin = w.fin /\ r.ended = w.ended
         /\ r.pc = "reconcile"
  BY <1>4 DEF WorkflowState
<1>6. w.tok = NoToken =>
        /\ u.idx = w.idx /\ u.tok = NoToken /\ ~u.ended /\ u.fin = w.fin /\ u.more = w.more
        /\ u.published = w.published /\ u.task = w.task /\ u.cleaner = w.cleaner
        /\ w.ended => u.pc = "closed"
        /\ ~w.ended /\ ~w.fin => u.pc = "queue"
        /\ ~w.ended /\ w.fin /\ w.published => u.pc = "settle"
        /\ ~w.ended /\ w.fin /\ ~w.published => u.pc = "publish"
  BY <1>4, UnleasedFields
<1>7. w.tok # NoToken =>
        /\ u.idx = w.idx /\ u.tok = w.tok /\ u.task = w.task /\ u.cleaner = w.cleaner
        /\ u.more = w.more /\ u.published = w.published /\ u.fin = w.fin /\ u.ended = w.ended
        /\ u.pc = "reconcile"
  BY <1>5
<1>8. fin <=> exec[e].state = "finalizing"
  BY DEF fin
<1>9. ended <=> exec[e].state \in Terminal
  BY DEF ended
<1> HIDE DEF u
<1>10. /\ u.idx = exec[e].stages /\ u.task = wf[e].task /\ u.cleaner = wf[e].cleaner
       /\ u.more = wf[e].more /\ u.published = wf[e].published /\ u.tok = exec[e].lease
  BY <1>4, <1>6, <1>7
<1>11. (u.fin => exec[e].state = "finalizing") /\ (u.ended => exec[e].state \in Terminal)
  BY <1>4, <1>6, <1>7, <1>8, <1>9
<1>12. CASE w.tok # NoToken
  <2>1. u.pc = "reconcile" /\ (~u.ended /\ ~u.fin => exec[e].state \notin {"finalizing"} \cup Terminal)
    BY <1>4, <1>7, <1>8, <1>9, <1>12
  <2> QED BY Zenon, <1>1, <1>10, <1>11, <2>1
<1>13. CASE w.tok = NoToken /\ ended
  <2>1. u.pc = "closed" /\ ~u.ended /\ ~u.fin
    BY <1>3, <1>4, <1>6, <1>13
  <2> QED BY Zenon, <1>1, <1>10, <1>11, <2>1
<1>14. CASE w.tok = NoToken /\ ~ended /\ ~fin
  <2>1. u.pc = "queue" /\ ~u.ended /\ ~u.fin /\ exec[e].state \notin {"finalizing"} \cup Terminal
    BY <1>4, <1>6, <1>8, <1>9, <1>14
  <2> QED BY Zenon, <1>1, <1>10, <1>11, <2>1
<1>15. CASE w.tok = NoToken /\ ~ended /\ fin
  <2>1. \/ u.pc = "settle" /\ ~u.ended /\ u.fin /\ u.published
        \/ u.pc = "publish" /\ ~u.ended /\ u.fin /\ ~u.published
    BY Zenon, <1>4, <1>6, <1>15
  <2> QED BY Zenon, <1>1, <1>10, <1>11, <2>1
<1> QED BY <1>12, <1>13, <1>14, <1>15

LEMMA SlotsTypes ==
  ASSUME IInv, NEW e \in Execs
  PROVE  wf[e] \in WorkflowState /\ wf[e].task \in Tasks \cup {NoTask}
         /\ wf[e].cleaner \in Tasks \cup {NoTask}
BY DEF IInv, TypeOK, WorkflowState

LEMMA ReadStatusJ ==
  ASSUME IInv, IInv', JInv, NEW e \in Execs, ReadStatus(e)
  PROVE  JInv'
<1>1. wf[e].pc = "status" /\ UNCHANGED <<sub, exec, task, committed>>
  BY DEF ReadStatus
<1>2. PICK w : /\ wf' = [wf EXCEPT ![e] = w]
               /\ w.idx = exec[e].stages /\ w.task = wf[e].task /\ w.cleaner = wf[e].cleaner
               /\ w.more = wf[e].more /\ w.published = wf[e].published
               /\ w.pc \in {"reconcile", "closed", "queue", "settle", "publish"}
               /\ w.pc = "settle" => w.published
  BY ReadStatusFacts
<1>3. RowsQuiet /\ wf'[e] = w /\ exec[e].stages \in Nat
  BY <1>1, <1>2, QuietUnchanged, WorkflowAt, ParameterAssumption DEF IInv, TypeOK, ExecutionRow
<1>4. SlotOk(e) /\ SettledOk(e)
  BY DEF JInv, SlotInv, SettledInv
<1>5. SlotOk(e)' /\ SettledOk(e)'
  BY <1>1, <1>2, <1>3, <1>4 DEF SlotOk, SettledOk, PastPublish, Settled, Busy, This
<1> QED BY Zenon, <1>1, <1>2, <1>3, <1>5, QuietKeeps DEF SlotGo

LEMMA FreeFields ==
  /\ FreeTask.kind = "free" /\ FreeTask.pc = "done" /\ FreeTask.out = "none"
  /\ PcOk(FreeTask)
BY DEF FreeTask, PcOk

(* A workflow frees slots of its own. *)
LEMMA GoFree ==
  ASSUME IInv, NEW e \in Execs, NEW T \in SUBSET Tasks,
         \A t \in T : t \in {wf[e].task, wf[e].cleaner} /\ task'[t] \in {task[t], FreeTask},
         \A t \in Tasks \ T : task'[t] = task[t]
  PROVE  \A t \in Tasks : SlotGo(e, t)
<1>1. NoTask \notin Tasks
  BY ParameterAssumption
<1>2. \A t \in T : t \in Slots(e)
  BY <1>1 DEF Slots
<1> QED BY <1>2, FreeFields DEF SlotGo, Busy

LEMMA GoFreeOne ==
  ASSUME IInv, NEW e \in Execs, NEW t \in {wf[e].task, wf[e].cleaner},
         task' \in {task, [task EXCEPT ![t] = FreeTask]}
  PROVE  /\ \A u \in Tasks : SlotGo(e, u)
         /\ \A u \in Tasks : u # t => task'[u] = task[u]
<1>1. t \notin Tasks => \A u \in Tasks : task'[u] = task[u]
  BY DEF IInv, TypeOK
<1>2. t \in Tasks => \A u \in Tasks \ {t} : task'[u] = task[u]
  BY DEF IInv, TypeOK
<1>3. t \in Tasks => task'[t] \in {task[t], FreeTask}
  BY DEF IInv, TypeOK
<1>4. CASE t \in Tasks
  <2> DEFINE T == {t}
  <2>1. T \in SUBSET Tasks
    BY <1>4
  <2>2. /\ \A u \in T : u \in {wf[e].task, wf[e].cleaner} /\ task'[u] \in {task[u], FreeTask}
        /\ \A u \in Tasks \ T : task'[u] = task[u]
    BY <1>2, <1>3, <1>4
  <2> HIDE DEF T
  <2> QED BY <1>2, <1>4, <2>1, <2>2, GoFree
<1>5. CASE t \notin Tasks
  BY <1>1, <1>5 DEF SlotGo
<1> QED BY <1>4, <1>5

(* A workflow begins again, ends, or goes to recovery. *)
LEMMA LeavesJ ==
  ASSUME IInv, IInv', JInv, NEW e \in Execs, RowsQuiet, NEW w, wf' = [wf EXCEPT ![e] = w],
         w.pc \in {"status", "closed", "recover"}, w.task = NoTask,
         w.cleaner \in {NoTask, wf[e].cleaner},
         w.cleaner # NoTask => w.pc = "recover" /\ task'[w.cleaner] = task[w.cleaner],
         w.published => wf[e].published,
         w.idx <= exec[e].stages, \A t \in Tasks : SlotGo(e, t)
  PROVE  JInv'
<1>1. wf'[e] = w /\ (Settled(e) => Settled(e)') /\ exec'[e].stages = exec[e].stages
  BY Zenon, WorkflowAt, QuietGo DEF RowsQuiet
<1>2. SlotOk(e) /\ SettledOk(e)
  BY DEF JInv, SlotInv, SettledInv
<1>3. SlotOk(e)'
  BY <1>1, <1>2 DEF SlotOk
<1>4. SettledOk(e)'
  BY <1>1, <1>2 DEF SettledOk, PastPublish
<1> QED BY Zenon, <1>3, <1>4, QuietKeeps

(* What an iteration that holds no lease any more does next. *)
Freed(v, w) ==
  /\ ~w.ended
  /\ v.ended => w.pc = "closed"
  /\ ~v.ended /\ ~v.fin => w.pc = "queue"
  /\ ~v.ended /\ v.fin /\ v.published => w.pc = "settle"
  /\ ~v.ended /\ v.fin /\ ~v.published => w.pc = "publish"

Carried(v, w) ==
  /\ w.idx = v.idx /\ w.task = v.task /\ w.cleaner = v.cleaner
  /\ w.more = v.more /\ w.published = v.published /\ w.fin = v.fin

LEMMA ReconcileCheckFacts ==
  ASSUME IInv, NEW e \in Execs, ReconcileCheck(e)
  PROVE  \E w : /\ wf' = [wf EXCEPT ![e] = w]
                /\ Carried(wf[e], w)
                /\ \/ Freed(wf[e], w) /\ w.tok = NoToken
                   \/ /\ w.pc \in {"blocked", "reconciling"} /\ w.ended = wf[e].ended
                      /\ w.tok = wf[e].tok /\ exec[e].lease = wf[e].tok
<1> DEFINE on == [wf[e] EXCEPT !.pc = IF exec[e].fresh THEN "blocked" ELSE "reconciling"]
           u == IF exec[e].lease # wf[e].tok THEN Unleased(wf[e]) ELSE on
<1>1. wf' = [wf EXCEPT ![e] = u]
  BY DEF ReconcileCheck
<1>2. wf[e] \in WorkflowState
  BY DEF IInv, TypeOK
<1>3. /\ Carried(wf[e], on) /\ on.pc \in {"blocked", "reconciling"}
      /\ on.ended = wf[e].ended /\ on.tok = wf[e].tok
  BY <1>2 DEF WorkflowState, Carried
<1>4. Carried(wf[e], Unleased(wf[e])) /\ Freed(wf[e], Unleased(wf[e])) /\ Unleased(wf[e]).tok = NoToken
  BY <1>2, UnleasedFields DEF Carried, Freed
<1> HIDE DEF on
<1>5. u = Unleased(wf[e]) \/ (u = on /\ exec[e].lease = wf[e].tok)
  OBVIOUS
<1> HIDE DEF u
<1> QED BY Zenon, <1>1, <1>3, <1>4, <1>5

LEMMA ReconcileStageFacts ==
  ASSUME IInv, NEW e \in Execs, NEW safe \in BOOLEAN, ReconcileStage(e, safe)
  PROVE  /\ wf[e].pc = "reconciling" /\ UNCHANGED <<sub, task, outbox, committed, scored>>
         /\ \E w : /\ wf' = [wf EXCEPT ![e] = w]
                   /\ Carried(wf[e], w)
                   /\ \/ safe /\ Freed(wf[e], w) /\ w.tok = NoToken
                         /\ exec' = Released(This(e), wf[e].tok)
                         /\ live' = live \ {wf[e].tok}
                      \/ ~safe /\ w.pc = "blocked" /\ w.ended = wf[e].ended /\ UNCHANGED <<exec, live>>
<1> DEFINE blocked == [wf[e] EXCEPT !.pc = "blocked"]
<1>1. wf[e] \in WorkflowState
  BY DEF IInv, TypeOK
<1>2. Carried(wf[e], blocked) /\ blocked.pc = "blocked" /\ blocked.ended = wf[e].ended
  BY <1>1 DEF WorkflowState, Carried
<1>3. Carried(wf[e], Unleased(wf[e])) /\ Freed(wf[e], Unleased(wf[e])) /\ Unleased(wf[e]).tok = NoToken
  BY <1>1, UnleasedFields DEF Carried, Freed
<1>4. CASE safe
  BY <1>3, <1>4 DEF ReconcileStage
<1>5. CASE ~safe
  <2>1. wf' = [wf EXCEPT ![e] = blocked] /\ UNCHANGED <<exec, live>>
    BY <1>5 DEF ReconcileStage
  <2> HIDE DEF blocked
  <2> QED BY Zenon, <1>2, <1>5, <2>1 DEF ReconcileStage
<1> QED BY <1>4, <1>5

(* Reconciled, the workflow goes on with the activities it waits for. *)
LEMMA CarriedJ ==
  ASSUME IInv, IInv', JInv, NEW e \in Execs, RowsQuiet, UNCHANGED task,
         wf[e].pc \in {"reconcile", "reconciling"}, NEW w, wf' = [wf EXCEPT ![e] = w],
         Carried(wf[e], w), Freed(wf[e], w) \/ w.pc \in {"blocked", "reconciling"}
  PROVE  JInv'
<1>1. wf'[e] = w /\ (Settled(e) => Settled(e)') /\ exec'[e].stages = exec[e].stages
      /\ This(e)' = This(e)
  BY Zenon, WorkflowAt, QuietGo DEF RowsQuiet
<1>2. SlotOk(e) /\ SettledOk(e)
  BY DEF JInv, SlotInv, SettledInv
<1>3. /\ w.pc \in {"blocked", "reconciling", "closed", "queue", "settle", "publish"}
      /\ w.pc = "settle" => w.published
  BY SlotsTypes DEF Carried, Freed, WorkflowState
<1>4. wf[e].task = NoTask /\ wf[e].cleaner = NoTask
  BY <1>2 DEF SlotOk
<1>5. SlotOk(e)' /\ SettledOk(e)'
  BY <1>1, <1>2, <1>3, <1>4 DEF SlotOk, SettledOk, PastPublish, Carried
<1> QED BY Zenon, <1>4, <1>5, QuietKeeps DEF SlotGo, Carried

LEMMA ReconcileCheckJ ==
  ASSUME IInv, IInv', JInv, NEW e \in Execs, ReconcileCheck(e)
  PROVE  JInv'
<1>1. wf[e].pc = "reconcile" /\ UNCHANGED <<sub, exec, task, committed>>
  BY DEF ReconcileCheck
<1> QED BY <1>1, ReconcileCheckFacts, QuietUnchanged, CarriedJ

LEMMA ReconcileStageJ ==
  ASSUME IInv, IInv', JInv, NEW e \in Execs, NEW safe \in BOOLEAN, ReconcileStage(e, safe)
  PROVE  JInv'
<1>1. RowsQuiet
  BY ReconcileStageFacts, QuietUnchanged, QuietReleased
<1> QED BY <1>1, ReconcileStageFacts, CarriedJ

LEMMA SetBlockedJ ==
  ASSUME IInv, IInv', JInv, NEW e \in Execs, SetBlocked(e)
  PROVE  JInv'
<1>1. /\ SetState(This(e), "blocked") /\ "blocked" \in Unfinished
      /\ wf' = [wf EXCEPT ![e] = Loop(e)]
      /\ UNCHANGED <<task, live, outbox, committed, scored>>
  BY DEF SetBlocked, Unfinished
<1>2. This(e).exec = e
  BY DEF This, Run
<1>3. RowsQuiet
  BY <1>1, <1>2, QuietSetState
<1>4. 0 <= exec[e].stages
  BY ParameterAssumption DEF IInv, TypeOK, ExecutionRow
<1> QED BY Zenon, <1>1, <1>3, <1>4, WorkflowFields, LeavesJ DEF SlotGo

LEMMA StartedFields ==
  ASSUME NEW e, NEW i, NEW k
  PROVE  /\ LET x == StageTask(e, i)
            IN /\ x.kind = "stage" /\ x.run = This(e) /\ x.pc = "unstarted" /\ x.index = i
               /\ x.token = NoToken /\ x.out = "none"
         /\ LET x == CleanupTask(e, k)
            IN /\ x.kind = "cleanup" /\ x.run = This(e) /\ x.pc = "cleaning" /\ x.index = 0
               /\ x.token = k /\ x.out = "none"
         /\ LET x == CompleteTask(e)
            IN /\ x.kind = "complete" /\ x.run = This(e) /\ x.pc = "preflight" /\ x.index = 0
               /\ x.token = NoToken /\ x.out = "none"
BY DEF StageTask, CleanupTask, CompleteTask, FreeTask

LEMMA QueueStageFacts ==
  ASSUME IInv, NEW e \in Execs, NEW t \in Tasks, QueueStage(e, t)
  PROVE  /\ wf[e].pc = "queue" /\ task[t].kind = "free" /\ SetState(This(e), "queued")
         /\ task' = [task EXCEPT ![t] = StageTask(e, wf[e].idx)]
         /\ UNCHANGED <<live, outbox, committed, scored>>
         /\ \E w : /\ wf' = [wf EXCEPT ![e] = w]
                   /\ w.pc = "await" /\ w.task = t /\ w.idx = 0 /\ w.cleaner = wf[e].cleaner
                   /\ w.more = wf[e].more /\ w.published = wf[e].published
                   /\ w.fin = wf[e].fin /\ w.ended = wf[e].ended
<1> DEFINE w == [wf[e] EXCEPT !.pc = "await", !.task = t, !.idx = 0]
<1>1. /\ w.pc = "await" /\ w.task = t /\ w.idx = 0 /\ w.cleaner = wf[e].cleaner
      /\ w.more = wf[e].more /\ w.published = wf[e].published
      /\ w.fin = wf[e].fin /\ w.ended = wf[e].ended
  BY SlotsTypes DEF WorkflowState
<1>2. wf' = [wf EXCEPT ![e] = w]
  BY DEF QueueStage
<1> HIDE DEF w
<1> QED BY Zenon, <1>1, <1>2 DEF QueueStage

LEMMA TaskAt ==
  ASSUME IInv, NEW t \in Tasks, NEW x, task' = [task EXCEPT ![t] = x]
  PROVE  task'[t] = x /\ \A u \in Tasks : u # t => task'[u] = task[u]
BY DEF IInv, TypeOK

LEMMA IndexesAreNatural ==
  ASSUME IInv, NEW e \in Execs
  PROVE  wf[e].idx \in Nat /\ exec[e].stages \in Nat /\ exec[e].epoch \in Nat
BY ParameterAssumption DEF IInv, TypeOK, WorkflowState, ExecutionRow

(* A workflow starts an activity in a free slot. *)
LEMMA GoStart ==
  ASSUME IInv, NEW e \in Execs, NEW t \in Tasks, t \in Slots(e) \/ task[t].kind = "free",
         NEW x, task' = [task EXCEPT ![t] = x],
         PcOk(x), x.run = This(e), x.index <= exec[e].stages
  PROVE  \A u \in Tasks : SlotGo(e, u)
BY TaskAt DEF SlotGo

LEMMA QueueStageJ ==
  ASSUME IInv, IInv', JInv, NEW e \in Execs, NEW t \in Tasks, QueueStage(e, t)
  PROVE  JInv'
<1> DEFINE x == StageTask(e, wf[e].idx)
<1>1. /\ wf[e].pc = "queue" /\ task[t].kind = "free" /\ task' = [task EXCEPT ![t] = x]
      /\ SetState(This(e), "queued") /\ "queued" \in Unfinished /\ UNCHANGED committed
      /\ This(e).exec = e
  BY QueueStageFacts DEF Unfinished, This, Run
<1>2. PICK w : /\ wf' = [wf EXCEPT ![e] = w]
               /\ w.pc = "await" /\ w.task = t /\ w.idx = 0 /\ w.cleaner = wf[e].cleaner
               /\ w.published = wf[e].published
  BY QueueStageFacts
<1>3. RowsQuiet
  BY <1>1, QuietSetState
<1>4. SlotOk(e) /\ SettledOk(e)
  BY DEF JInv, SlotInv, SettledInv
<1>5. /\ x.kind = "stage" /\ x.run = This(e) /\ x.pc = "unstarted" /\ x.index = wf[e].idx
      /\ x.out = "none"
  BY StartedFields
<1> HIDE DEF x
<1>6. wf'[e] = w /\ (Settled(e) => Settled(e)') /\ exec'[e].stages = exec[e].stages
      /\ This(e)' = This(e) /\ task'[t] = x
  BY Zenon, <1>1, <1>2, <1>3, WorkflowAt, TaskAt, QuietGo DEF RowsQuiet
<1>7. wf[e].cleaner = NoTask /\ NoTask \notin Tasks
  BY <1>1, <1>4, ParameterAssumption DEF SlotOk
<1>8. SlotOk(e)' /\ SettledOk(e)'
  BY <1>2, <1>4, <1>5, <1>6, <1>7, IndexesAreNatural
  DEF SlotOk, SettledOk, PastPublish, Busy
<1>9. \A u \in Tasks : SlotGo(e, u)
  <2>1. PcOk(x) /\ x.index <= exec[e].stages
    BY <1>4, <1>5 DEF PcOk, SlotOk
  <2> QED BY Zenon, <1>1, <1>5, <2>1, GoStart
<1> QED BY Zenon, <1>1, <1>2, <1>3, <1>7, <1>8, <1>9, QuietKeeps

LEMMA StartCompleteFacts ==
  ASSUME IInv, NEW e \in Execs, NEW t \in Tasks, StartComplete(e, t)
  PROVE  /\ wf[e].pc = "publish" /\ task[t].kind = "free"
         /\ task' = [task EXCEPT ![t] = CompleteTask(e)]
         /\ UNCHANGED <<sub, exec, live, outbox, committed, scored>>
         /\ \E w : /\ wf' = [wf EXCEPT ![e] = w]
                   /\ w.pc = "completing" /\ w.task = t /\ w.idx = wf[e].idx
                   /\ w.cleaner = wf[e].cleaner
                   /\ w.more = wf[e].more /\ w.published = wf[e].published
                   /\ w.fin = wf[e].fin /\ w.ended = wf[e].ended
<1> DEFINE w == [wf[e] EXCEPT !.pc = "completing", !.task = t]
<1>1. /\ w.pc = "completing" /\ w.task = t /\ w.idx = wf[e].idx /\ w.cleaner = wf[e].cleaner
      /\ w.more = wf[e].more /\ w.published = wf[e].published
      /\ w.fin = wf[e].fin /\ w.ended = wf[e].ended
  BY SlotsTypes DEF WorkflowState
<1>2. wf' = [wf EXCEPT ![e] = w]
  BY DEF StartComplete
<1> HIDE DEF w
<1> QED BY Zenon, <1>1, <1>2 DEF StartComplete

LEMMA StartCompleteJ ==
  ASSUME IInv, IInv', JInv, NEW e \in Execs, NEW t \in Tasks, StartComplete(e, t)
  PROVE  JInv'
<1> DEFINE x == CompleteTask(e)
<1>1. /\ wf[e].pc = "publish" /\ task[t].kind = "free" /\ task' = [task EXCEPT ![t] = x]
      /\ UNCHANGED <<sub, exec, committed>>
  BY StartCompleteFacts
<1>2. PICK w : /\ wf' = [wf EXCEPT ![e] = w]
               /\ w.pc = "completing" /\ w.task = t /\ w.idx = wf[e].idx
               /\ w.cleaner = wf[e].cleaner /\ w.published = wf[e].published
  BY StartCompleteFacts
<1>3. RowsQuiet
  BY <1>1, QuietUnchanged
<1>4. SlotOk(e) /\ SettledOk(e)
  BY DEF JInv, SlotInv, SettledInv
<1>5. /\ x.kind = "complete" /\ x.run = This(e) /\ x.pc = "preflight" /\ x.index = 0
      /\ x.out = "none"
  BY StartedFields
<1> HIDE DEF x
<1>6. wf'[e] = w /\ (Settled(e) => Settled(e)') /\ exec'[e].stages = exec[e].stages
      /\ This(e)' = This(e) /\ task'[t] = x /\ \A u \in Tasks : u # t => task'[u] = task[u]
  BY Zenon, <1>1, <1>2, <1>3, WorkflowAt, TaskAt, QuietGo DEF RowsQuiet
<1>7. wf[e].cleaner # t /\ wf[e].cleaner \in Tasks \cup {NoTask} /\ NoTask \notin Tasks
  BY <1>1, <1>4, SlotsTypes, ParameterAssumption DEF SlotOk
<1>8. SlotOk(e)' /\ SettledOk(e)'
  BY <1>2, <1>4, <1>5, <1>6, <1>7 DEF SlotOk, SettledOk, PastPublish, Busy
<1>9. \A u \in Tasks : SlotGo(e, u)
  <2>1. PcOk(x) /\ x.index <= exec[e].stages
    BY <1>5, IndexesAreNatural DEF PcOk
  <2> QED BY Zenon, <1>1, <1>5, <2>1, GoStart
<1> QED BY Zenon, <1>1, <1>2, <1>3, <1>7, <1>8, <1>9, QuietKeeps

(* The iteration is left: for the next one, for good, or for recovery. *)
Leaving(v, w) ==
  /\ w.pc \in {"status", "closed", "recover"}
  /\ w.task = NoTask
  /\ w.published => v.published
  /\ w.pc = "recover" => w.fin = v.fin
  /\ w.pc # "recover" => ~w.fin /\ w.cleaner = NoTask /\ ~w.more
  /\ w.idx \in {v.idx, 0}
  /\ ~w.ended \/ w.ended = v.ended

LEMMA LeavingFields ==
  ASSUME IInv, NEW e \in Execs
  PROVE  /\ Leaving(wf[e], Loop(e)) /\ Leaving(wf[e], Closed)
         /\ LET w == [wf[e] EXCEPT !.pc = "recover", !.task = NoTask]
            IN Leaving(wf[e], w) /\ w.cleaner = wf[e].cleaner /\ w.pc = "recover"
         /\ wf[e].task = NoTask =>
            LET w == [wf[e] EXCEPT !.pc = "recover", !.cleaner = NoTask]
            IN Leaving(wf[e], w) /\ w.cleaner = NoTask /\ w.pc = "recover"
         /\ wf[e].task = NoTask =>
            LET w == [wf[e] EXCEPT !.pc = "recover", !.tok = NoToken, !.ended = FALSE, !.idx = 0]
            IN Leaving(wf[e], w) /\ w.cleaner = wf[e].cleaner /\ w.pc = "recover" /\ ~w.ended
         /\ wf[e].task = NoTask =>
            LET w == [wf[e] EXCEPT !.pc = "recover"]
            IN Leaving(wf[e], w) /\ w.cleaner = wf[e].cleaner /\ w.pc = "recover"
<1>1. wf[e] \in WorkflowState
  BY DEF IInv, TypeOK
<1>2. Leaving(wf[e], Loop(e)) /\ Leaving(wf[e], Closed)
  BY WorkflowFields DEF Leaving
<1>3. LET w == [wf[e] EXCEPT !.pc = "recover", !.task = NoTask]
      IN Leaving(wf[e], w) /\ w.cleaner = wf[e].cleaner /\ w.pc = "recover"
  BY <1>1 DEF Leaving, WorkflowState
<1>4. ASSUME wf[e].task = NoTask
      PROVE  LET w == [wf[e] EXCEPT !.pc = "recover", !.cleaner = NoTask]
             IN Leaving(wf[e], w) /\ w.cleaner = NoTask /\ w.pc = "recover"
  BY <1>1, <1>4 DEF Leaving, WorkflowState
<1>5. ASSUME wf[e].task = NoTask
      PROVE  LET w == [wf[e] EXCEPT !.pc = "recover", !.tok = NoToken, !.ended = FALSE, !.idx = 0]
             IN Leaving(wf[e], w) /\ w.cleaner = wf[e].cleaner /\ w.pc = "recover" /\ ~w.ended
  BY <1>1, <1>5 DEF Leaving, WorkflowState
<1>6. ASSUME wf[e].task = NoTask
      PROVE  LET w == [wf[e] EXCEPT !.pc = "recover"]
             IN Leaving(wf[e], w) /\ w.cleaner = wf[e].cleaner /\ w.pc = "recover"
  BY <1>1, <1>6 DEF Leaving, WorkflowState
<1> QED BY <1>2, <1>3, <1>4, <1>5, <1>6

LEMMA LeavingJ ==
  ASSUME IInv, IInv', JInv, NEW e \in Execs, RowsQuiet, NEW w, wf' = [wf EXCEPT ![e] = w],
         Leaving(wf[e], w), w.cleaner \in {NoTask, wf[e].cleaner},
         w.cleaner # NoTask => task'[w.cleaner] = task[w.cleaner],
         \A t \in Tasks : SlotGo(e, t)
  PROVE  JInv'
<1>1. SlotOk(e)
  BY DEF JInv, SlotInv
<1>2. /\ w.pc \in {"status", "closed", "recover"} /\ w.task = NoTask
      /\ w.cleaner # NoTask => w.pc = "recover"
      /\ w.published => wf[e].published
  BY DEF Leaving
<1>3. w.idx <= exec[e].stages
  BY <1>1, IndexesAreNatural DEF Leaving, SlotOk
<1> QED BY Zenon, <1>2, <1>3, LeavesJ

LEMMA NoSlotTwice ==
  ASSUME IInv, JInv, NEW e \in Execs, wf[e].cleaner # NoTask
  PROVE  wf[e].cleaner # wf[e].task
BY DEF JInv, SlotInv, SlotOk

LEMMA StageTimedOutFacts ==
  ASSUME IInv, NEW e \in Execs, StageTimedOut(e)
  PROVE  /\ wf[e].pc = "await" /\ task[wf[e].task].pc # "done"
         /\ \E w : /\ wf' = [wf EXCEPT ![e] = w] /\ Leaving(wf[e], w)
                   /\ w.pc \in {"status", "recover"} /\ w.cleaner \in {wf[e].cleaner, NoTask}
         /\ task' \in {task, [task EXCEPT ![wf[e].task] = FreeTask]}
         /\ ~LateClaims /\ task[wf[e].task].pc = "unstarted" =>
              task' = [task EXCEPT ![wf[e].task] = FreeTask]
         /\ UNCHANGED <<sub, exec, live, outbox, committed, scored>>
<1> DEFINE failed == [wf[e] EXCEPT !.pc = "recover", !.task = NoTask]
<1>1. /\ Leaving(wf[e], failed) /\ failed.pc = "recover" /\ failed.cleaner = wf[e].cleaner
      /\ Leaving(wf[e], Loop(e)) /\ Loop(e).pc = "status" /\ Loop(e).cleaner = NoTask
  BY Zenon, LeavingFields, WorkflowFields
<1>2. wf' = [wf EXCEPT ![e] = Loop(e)] \/ wf' = [wf EXCEPT ![e] = failed]
  BY Zenon DEF StageTimedOut
<1> HIDE DEF failed
<1>3. \E w : /\ wf' = [wf EXCEPT ![e] = w] /\ Leaving(wf[e], w)
             /\ w.pc \in {"status", "recover"} /\ w.cleaner \in {wf[e].cleaner, NoTask}
  BY <1>1, <1>2
<1> QED BY Zenon, <1>3 DEF StageTimedOut

LEMMA StageTimedOutJ ==
  ASSUME IInv, IInv', JInv, NEW e \in Execs, StageTimedOut(e)
  PROVE  JInv'
<1>1. \A t \in Tasks : SlotGo(e, t) /\ (t # wf[e].task => task'[t] = task[t])
  BY StageTimedOutFacts, GoFreeOne
<1>2. RowsQuiet
  BY StageTimedOutFacts, QuietUnchanged
<1> QED BY <1>1, <1>2, StageTimedOutFacts, NoSlotTwice, SlotsTypes, LeavingJ

LEMMA CompleteTimedOutFacts ==
  ASSUME IInv, NEW e \in Execs, CompleteTimedOut(e)
  PROVE  /\ wf[e].pc = "completing" /\ task[wf[e].task].pc # "done"
         /\ \E w : /\ wf' = [wf EXCEPT ![e] = w] /\ Leaving(wf[e], w)
                   /\ w.pc = "recover" /\ w.cleaner = wf[e].cleaner
         /\ task' \in {task, [task EXCEPT ![wf[e].task] = FreeTask]}
         /\ ~LateCommits => task' = [task EXCEPT ![wf[e].task] = FreeTask]
         /\ UNCHANGED <<sub, exec, live, outbox, committed, scored>>
<1> DEFINE failed == [wf[e] EXCEPT !.pc = "recover", !.task = NoTask]
<1>1. Leaving(wf[e], failed) /\ failed.pc = "recover" /\ failed.cleaner = wf[e].cleaner
  BY Zenon, LeavingFields
<1>2. wf' = [wf EXCEPT ![e] = failed]
  BY DEF CompleteTimedOut
<1> HIDE DEF failed
<1> QED BY Zenon, <1>1, <1>2 DEF CompleteTimedOut

LEMMA CompleteTimedOutJ ==
  ASSUME IInv, IInv', JInv, NEW e \in Execs, CompleteTimedOut(e)
  PROVE  JInv'
<1>1. \A t \in Tasks : SlotGo(e, t) /\ (t # wf[e].task => task'[t] = task[t])
  BY CompleteTimedOutFacts, GoFreeOne
<1>2. RowsQuiet
  BY CompleteTimedOutFacts, QuietUnchanged
<1> QED BY <1>1, <1>2, CompleteTimedOutFacts, NoSlotTwice, SlotsTypes, LeavingJ

LEMMA ActivityFailsFacts ==
  ASSUME IInv, JInv, NEW e \in Execs, ActivityFails(e)
  PROVE  /\ wf[e].pc \in {"status", "reconcile", "reconciling", "blocked", "queue", "publish",
                          "effects", "finish"}
         /\ \E w : /\ wf' = [wf EXCEPT ![e] = w] /\ Leaving(wf[e], w)
                   /\ w.pc = "recover" /\ w.cleaner = wf[e].cleaner /\ ~w.ended
         /\ UNCHANGED <<sub, exec, task, live, outbox, committed, scored>>
<1> DEFINE failed == [wf[e] EXCEPT !.pc = "recover", !.tok = NoToken, !.ended = FALSE, !.idx = 0]
<1>1. wf' = [wf EXCEPT ![e] = failed] /\ wf[e].pc \notin {"await", "completing"}
  BY DEF ActivityFails
<1>2. wf[e].task = NoTask
  BY <1>1 DEF JInv, SlotInv, SlotOk
<1>3. Leaving(wf[e], failed) /\ failed.pc = "recover" /\ failed.cleaner = wf[e].cleaner
      /\ ~failed.ended
  BY Zenon, <1>2, LeavingFields
<1> HIDE DEF failed
<1> QED BY Zenon, <1>1, <1>3 DEF ActivityFails

LEMMA ActivityFailsJ ==
  ASSUME IInv, IInv', JInv, NEW e \in Execs, ActivityFails(e)
  PROVE  JInv'
<1>1. RowsQuiet /\ UNCHANGED task
  BY ActivityFailsFacts, QuietUnchanged
<1> QED BY <1>1, ActivityFailsFacts, LeavingJ DEF SlotGo

LEMMA RecoverFacts ==
  ASSUME IInv, NEW e \in Execs, NEW recorded \in BOOLEAN, Recover(e, recorded)
  PROVE  /\ wf[e].pc = "recover"
         /\ wf' = [wf EXCEPT ![e] = Loop(e)]
         /\ task' \in {task, [task EXCEPT ![wf[e].cleaner] = FreeTask]}
         /\ \/ \E s \in RecoveryStates(wf[e].fin) : SetState(This(e), s)
            \/ UNCHANGED <<sub, exec>>
         /\ UNCHANGED <<live, outbox, committed, scored>>
BY DEF Recover

LEMMA RecoverJ ==
  ASSUME IInv, IInv', JInv, NEW e \in Execs, NEW recorded \in BOOLEAN, Recover(e, recorded)
  PROVE  JInv'
<1>1. \A t \in Tasks : SlotGo(e, t)
  BY RecoverFacts, GoFreeOne
<1>2. RecoveryStates(wf[e].fin) \subseteq Unfinished /\ This(e).exec = e
  BY DEF RecoveryStates, Unfinished, This, Run
<1>3. RowsQuiet
  BY <1>2, RecoverFacts, QuietSetState, QuietUnchanged
<1> QED BY Zenon, <1>1, <1>3, RecoverFacts, LeavingFields, WorkflowFields, LeavingJ

Deferred(t) == task[t].defer /\ task[t].out \in {"saved", "finished"}

LEMMA StageAnsweredFacts ==
  ASSUME IInv, NEW e \in Execs, StageAnswered(e)
  PROVE  /\ wf[e].pc = "await" /\ task[wf[e].task].pc = "done"
         /\ \/ Deferred(wf[e].task)
               /\ task' = [task EXCEPT ![wf[e].task] = CleanupTask(e, task[wf[e].task].token)]
            \/ ~Deferred(wf[e].task) /\ task' = [task EXCEPT ![wf[e].task] = FreeTask]
         /\ \E w : /\ wf' = [wf EXCEPT ![e] = w]
                   /\ \/ /\ Leaving(wf[e], w) /\ ~Deferred(wf[e].task)
                         /\ task[wf[e].task].out # "finished" /\ w.cleaner \in {wf[e].cleaner, NoTask}
                      \/ /\ Deferred(wf[e].task) /\ task[wf[e].task].out = "saved"
                         /\ w.pc = "settle" /\ w.more /\ w.task = NoTask /\ w.cleaner = wf[e].task
                         /\ w.published = wf[e].published /\ w.fin = wf[e].fin
                         /\ w.idx = wf[e].idx /\ w.ended = wf[e].ended
                      \/ /\ task[wf[e].task].out = "finished"
                         /\ w.published => w.pc = "settle"
                         /\ ~w.published => w.pc = "publish"
                         /\ w.task = NoTask
                         /\ w.cleaner = IF Deferred(wf[e].task) THEN wf[e].task ELSE NoTask
                         /\ w.published = wf[e].published /\ w.fin
                         /\ w.idx = wf[e].idx /\ w.ended = wf[e].ended
         /\ UNCHANGED <<sub, exec, live, outbox, committed, scored>>
<1> DEFINE t == wf[e].task
           c == IF Deferred(t) THEN t ELSE NoTask
           p == IF wf[e].published THEN "settle" ELSE "publish"
           saved == [wf[e] EXCEPT !.pc = "settle", !.more = TRUE, !.task = NoTask, !.cleaner = t]
           finished == [wf[e] EXCEPT !.pc = p, !.fin = TRUE, !.task = NoTask, !.cleaner = c]
           failed == [wf[e] EXCEPT !.pc = "recover", !.task = NoTask]
<1>1. /\ task[t].out = "obsolete" => wf' = [wf EXCEPT ![e] = Closed]
      /\ task[t].out = "cleanup" => wf' = [wf EXCEPT ![e] = Loop(e)]
      /\ task[t].out = "saved" /\ Deferred(t) => wf' = [wf EXCEPT ![e] = saved]
      /\ task[t].out = "saved" /\ ~Deferred(t) => wf' = [wf EXCEPT ![e] = Loop(e)]
      /\ task[t].out = "finished" => wf' = [wf EXCEPT ![e] = finished]
      /\ task[t].out \notin {"obsolete", "cleanup", "saved", "finished"} =>
           wf' = [wf EXCEPT ![e] = failed]
  BY Zenon DEF StageAnswered, Deferred
<1>2. wf[e] \in WorkflowState
  BY DEF IInv, TypeOK
<1>3. /\ saved.pc = "settle" /\ saved.more /\ saved.task = NoTask /\ saved.cleaner = t
      /\ saved.published = wf[e].published /\ saved.fin = wf[e].fin /\ saved.idx = wf[e].idx
      /\ saved.ended = wf[e].ended
  BY <1>2 DEF WorkflowState
<1>4. (wf[e].published => p = "settle") /\ (~wf[e].published => p = "publish")
  OBVIOUS
<1> HIDE DEF p, c
<1>5. /\ finished.pc = p /\ finished.fin /\ finished.task = NoTask /\ finished.cleaner = c
      /\ finished.published = wf[e].published /\ finished.idx = wf[e].idx
      /\ finished.ended = wf[e].ended
  BY <1>2 DEF WorkflowState
<1>6. /\ Leaving(wf[e], failed) /\ failed.cleaner = wf[e].cleaner
      /\ Leaving(wf[e], Loop(e)) /\ Loop(e).cleaner = NoTask
      /\ Leaving(wf[e], Closed) /\ Closed.cleaner = NoTask
  BY Zenon, LeavingFields, WorkflowFields
<1>7. Deferred(t) => task[t].out \in {"saved", "finished"}
  BY DEF Deferred
<1> HIDE DEF saved, finished, failed
<1>8. CASE task[t].out \notin {"saved", "finished"} \/ (task[t].out = "saved" /\ ~Deferred(t))
  <2>1. \E w \in {Closed, Loop(e), failed} : wf' = [wf EXCEPT ![e] = w]
    BY <1>1, <1>8
  <2>2. ~Deferred(t) /\ task[t].out # "finished"
    BY <1>7, <1>8
  <2>3. task' = [task EXCEPT ![t] = FreeTask]
    BY Zenon, <2>2 DEF StageAnswered, Deferred
  <2> QED BY Zenon, <1>6, <2>1, <2>2, <2>3 DEF StageAnswered
<1>9. CASE task[t].out = "saved" /\ Deferred(t)
  <2>1. task' = [task EXCEPT ![t] = CleanupTask(e, task[t].token)]
    BY <1>9 DEF StageAnswered, Deferred
  <2> QED BY Zenon, <1>1, <1>3, <1>9, <2>1 DEF StageAnswered
<1>10. CASE task[t].out = "finished"
  <2>1. \/ Deferred(t) /\ task' = [task EXCEPT ![t] = CleanupTask(e, task[t].token)]
        \/ ~Deferred(t) /\ task' = [task EXCEPT ![t] = FreeTask]
    BY Zenon DEF StageAnswered, Deferred
  <2>2. wf' = [wf EXCEPT ![e] = finished] /\ finished.cleaner = IF Deferred(t) THEN t ELSE NoTask
    BY <1>1, <1>5, <1>10 DEF c
  <2> QED BY Zenon, <1>4, <1>5, <1>10, <2>1, <2>2 DEF StageAnswered
<1> QED BY <1>8, <1>9, <1>10

LEMMA CompleteAnsweredFacts ==
  ASSUME IInv, NEW e \in Execs, CompleteAnswered(e)
  PROVE  /\ wf[e].pc = "completing" /\ task[wf[e].task].pc = "done"
         /\ task' = [task EXCEPT ![wf[e].task] = FreeTask]
         /\ \E w : /\ wf' = [wf EXCEPT ![e] = w]
                   /\ w.cleaner = wf[e].cleaner /\ w.task = NoTask
                   /\ \/ Leaving(wf[e], w) /\ w.pc = "recover"
                      \/ /\ task[wf[e].task].out = "ok" /\ w.pc = "effects"
                         /\ w.published = wf[e].published /\ w.idx = wf[e].idx
                         /\ w.fin = wf[e].fin /\ w.ended = wf[e].ended
                      \/ /\ task[wf[e].task].out = "null" /\ w.pc = "settle"
                         /\ w.idx = wf[e].idx /\ w.fin = wf[e].fin /\ w.ended = wf[e].ended
         /\ UNCHANGED <<sub, exec, live, outbox, committed, scored>>
<1> DEFINE t == wf[e].task
           effects == [wf[e] EXCEPT !.pc = "effects", !.task = NoTask]
           failed == [wf[e] EXCEPT !.pc = "recover", !.task = NoTask]
           after == AfterPublish(wf[e])
<1>1. /\ task[t].out = "ok" => wf' = [wf EXCEPT ![e] = effects]
      /\ task[t].out = "null" => wf' = [wf EXCEPT ![e] = after]
      /\ task[t].out \notin {"ok", "null"} => wf' = [wf EXCEPT ![e] = failed]
  BY Zenon DEF CompleteAnswered
<1>2. wf[e] \in WorkflowState
  BY DEF IInv, TypeOK
<1>3. /\ effects.pc = "effects" /\ effects.task = NoTask /\ effects.cleaner = wf[e].cleaner
      /\ effects.published = wf[e].published /\ effects.fin = wf[e].fin /\ effects.idx = wf[e].idx
      /\ effects.ended = wf[e].ended
  BY <1>2 DEF WorkflowState
<1>4. /\ Leaving(wf[e], failed) /\ failed.cleaner = wf[e].cleaner /\ failed.pc = "recover"
      /\ failed.task = NoTask
  BY LeavingFields DEF Leaving
<1>5. /\ after.pc = "settle" /\ after.task = NoTask /\ after.cleaner = wf[e].cleaner
      /\ after.idx = wf[e].idx /\ after.fin = wf[e].fin /\ after.ended = wf[e].ended
  BY <1>2, PublishedFields
<1> HIDE DEF effects, failed, after
<1> QED BY Zenon, <1>1, <1>3, <1>4, <1>5 DEF CompleteAnswered

LEMMA AwaitCleanupFacts ==
  ASSUME IInv, JInv, NEW e \in Execs, AwaitCleanup(e)
  PROVE  /\ wf[e].pc = "settle"
         /\ task' \in {task, [task EXCEPT ![wf[e].cleaner] = FreeTask]}
         /\ \E w : /\ wf' = [wf EXCEPT ![e] = w] /\ w.cleaner = NoTask /\ w.task = NoTask
                   /\ \/ Leaving(wf[e], w)
                      \/ /\ w.pc = "finish" /\ ~wf[e].more
                         /\ w.published = wf[e].published /\ w.idx = wf[e].idx
                         /\ w.fin = wf[e].fin /\ w.ended = wf[e].ended
         /\ UNCHANGED <<sub, exec, live, outbox, committed, scored>>
<1> DEFINE failed == [wf[e] EXCEPT !.pc = "recover", !.cleaner = NoTask]
           finish == [wf[e] EXCEPT !.pc = "finish", !.cleaner = NoTask]
<1>1. /\ \/ wf' = [wf EXCEPT ![e] = failed]
         \/ wf' = [wf EXCEPT ![e] = Loop(e)]
         \/ wf' = [wf EXCEPT ![e] = finish] /\ ~wf[e].more
      /\ wf[e].pc = "settle"
  BY Zenon DEF AwaitCleanup
<1>2. wf[e] \in WorkflowState
  BY DEF IInv, TypeOK
<1>3. wf[e].task = NoTask
  BY <1>1 DEF JInv, SlotInv, SlotOk
<1>4. /\ finish.pc = "finish" /\ finish.cleaner = NoTask /\ finish.task = NoTask
      /\ finish.published = wf[e].published /\ finish.idx = wf[e].idx
      /\ finish.fin = wf[e].fin /\ finish.ended = wf[e].ended
  BY <1>2, <1>3 DEF WorkflowState
<1>5. /\ Leaving(wf[e], failed) /\ failed.cleaner = NoTask /\ failed.task = NoTask
      /\ Leaving(wf[e], Loop(e)) /\ Loop(e).cleaner = NoTask /\ Loop(e).task = NoTask
  BY <1>3, LeavingFields, WorkflowFields DEF Leaving
<1> HIDE DEF failed, finish
<1> QED BY Zenon, <1>1, <1>4, <1>5 DEF AwaitCleanup

LEMMA StageAnsweredJ ==
  ASSUME IInv, IInv', JInv, NEW e \in Execs, StageAnswered(e)
  PROVE  JInv'
<1> DEFINE t == wf[e].task
           x == CleanupTask(e, task[t].token)
<1>1. /\ wf[e].pc = "await" /\ UNCHANGED <<sub, exec, committed>>
      /\ \/ Deferred(t) /\ task' = [task EXCEPT ![t] = x]
         \/ ~Deferred(t) /\ task' = [task EXCEPT ![t] = FreeTask]
  BY StageAnsweredFacts
<1>2. RowsQuiet
  BY <1>1, QuietUnchanged
<1>3. SlotOk(e) /\ SettledOk(e)
  BY DEF JInv, SlotInv, SettledInv
<1>4. t \in Tasks /\ t \in Slots(e) /\ wf[e].cleaner = NoTask
  BY <1>1, <1>3, SlotsTypes DEF SlotOk, Slots
<1>5. x.kind = "cleanup" /\ x.run = This(e) /\ x.pc = "cleaning" /\ x.index = 0
  BY StartedFields
<1> HIDE DEF x
<1>6. \A u \in Tasks : SlotGo(e, u)
  <2>1. CASE task' = [task EXCEPT ![t] = x]
    <3>1. PcOk(x) /\ x.index <= exec[e].stages
      BY <1>5, IndexesAreNatural DEF PcOk
    <3> QED BY Zenon, <1>4, <1>5, <2>1, <3>1, GoStart
  <2>2. CASE task' = [task EXCEPT ![t] = FreeTask]
    BY Zenon, <2>2, GoFreeOne
  <2> QED BY <1>1, <2>1, <2>2
<1>7. Deferred(t) => task'[t] = x
  BY <1>1, <1>4, TaskAt
<1>8. (Settled(e) => Settled(e)') /\ exec'[e].stages = exec[e].stages /\ This(e)' = This(e)
  BY <1>2, QuietGo DEF RowsQuiet
<1>9. ASSUME NEW w, wf' = [wf EXCEPT ![e] = w],
             w.cleaner = IF Deferred(t) THEN t ELSE NoTask, w.task = NoTask,
             w.pc \in {"settle", "publish"}, w.published = wf[e].published,
             w.pc = "settle" => w.more \/ w.published, w.idx = wf[e].idx
      PROVE  JInv'
  <2>1. wf'[e] = w
    BY Zenon, <1>9, WorkflowAt
  <2>2. SlotOk(e)' /\ SettledOk(e)'
    BY <1>3, <1>4, <1>5, <1>7, <1>8, <1>9, <2>1 DEF SlotOk, SettledOk, PastPublish
  <2> QED BY Zenon, <1>2, <1>6, <1>9, <2>2, QuietKeeps
<1>10. PICK w : /\ wf' = [wf EXCEPT ![e] = w]
                /\ \/ /\ Leaving(wf[e], w) /\ w.cleaner \in {wf[e].cleaner, NoTask}
                   \/ /\ Deferred(t) /\ w.pc = "settle" /\ w.more /\ w.task = NoTask /\ w.cleaner = t
                      /\ w.published = wf[e].published /\ w.idx = wf[e].idx
                   \/ /\ w.published => w.pc = "settle"
                      /\ ~w.published => w.pc = "publish"
                      /\ w.task = NoTask
                      /\ w.cleaner = IF Deferred(t) THEN t ELSE NoTask
                      /\ w.published = wf[e].published /\ w.idx = wf[e].idx
  BY StageAnsweredFacts
<1>11. CASE Leaving(wf[e], w) /\ w.cleaner \in {wf[e].cleaner, NoTask}
  BY Zenon, <1>2, <1>4, <1>6, <1>10, <1>11, LeavingJ
<1>12. CASE /\ Deferred(t) /\ w.pc = "settle" /\ w.more /\ w.task = NoTask /\ w.cleaner = t
            /\ w.published = wf[e].published /\ w.idx = wf[e].idx
  BY Zenon, <1>9, <1>10, <1>12
<1>13. CASE /\ w.published => w.pc = "settle"
            /\ ~w.published => w.pc = "publish"
            /\ w.task = NoTask
            /\ w.cleaner = IF Deferred(t) THEN t ELSE NoTask
            /\ w.published = wf[e].published /\ w.idx = wf[e].idx
  BY Zenon, <1>9, <1>10, <1>13
<1> QED BY <1>10, <1>11, <1>12, <1>13

LEMMA CompleteAnsweredJ ==
  ASSUME IInv, IInv', JInv, NEW e \in Execs, CompleteAnswered(e)
  PROVE  JInv'
<1>1. /\ wf[e].pc = "completing" /\ UNCHANGED <<sub, exec, committed>>
      /\ task' = [task EXCEPT ![wf[e].task] = FreeTask]
  BY CompleteAnsweredFacts
<1>2. RowsQuiet
  BY <1>1, QuietUnchanged
<1>3. SlotOk(e) /\ SettledOk(e)
  BY DEF JInv, SlotInv, SettledInv
<1>4. (\A u \in Tasks : SlotGo(e, u)) /\ \A u \in Tasks : u # wf[e].task => task'[u] = task[u]
  BY Zenon, <1>1, GoFreeOne
<1>5. wf[e].cleaner # NoTask => task'[wf[e].cleaner] = task[wf[e].cleaner]
  BY <1>4, NoSlotTwice, SlotsTypes
<1>6. (Settled(e) => Settled(e)') /\ exec'[e].stages = exec[e].stages /\ This(e)' = This(e)
  BY <1>2, QuietGo DEF RowsQuiet
<1>7. PICK w : /\ wf' = [wf EXCEPT ![e] = w]
               /\ w.cleaner = wf[e].cleaner /\ w.task = NoTask
               /\ \/ Leaving(wf[e], w)
                  \/ /\ task[wf[e].task].out = "ok" /\ w.pc = "effects"
                     /\ w.published = wf[e].published /\ w.idx = wf[e].idx
                  \/ /\ task[wf[e].task].out = "null" /\ w.pc = "settle" /\ w.idx = wf[e].idx
  BY CompleteAnsweredFacts
<1>8. CASE Leaving(wf[e], w)
  BY Zenon, <1>2, <1>4, <1>5, <1>7, <1>8, LeavingJ
<1>9. CASE ~Leaving(wf[e], w)
  <2>1. wf'[e] = w
    BY Zenon, <1>7, WorkflowAt
  <2>2. SlotOk(e)' /\ SettledOk(e)'
    BY <1>1, <1>3, <1>5, <1>6, <1>7, <1>9, <2>1 DEF SlotOk, SettledOk, PastPublish, Settled
  <2> QED BY Zenon, <1>2, <1>4, <1>7, <2>2, QuietKeeps
<1> QED BY <1>8, <1>9

LEMMA ApplyEffectsFacts ==
  ASSUME IInv, NEW e \in Execs, ApplyEffects(e)
  PROVE  /\ wf[e].pc = "effects" /\ scored' = scored \cup {e}
         /\ \E w : /\ wf' = [wf EXCEPT ![e] = w]
                   /\ w.pc = "settle" /\ w.task = NoTask /\ w.cleaner = wf[e].cleaner
                   /\ w.idx = wf[e].idx /\ w.fin = wf[e].fin /\ w.ended = wf[e].ended
         /\ UNCHANGED <<sub, exec, task, live, outbox, committed>>
<1> DEFINE after == AfterPublish(wf[e])
<1>1. wf[e] \in WorkflowState /\ wf' = [wf EXCEPT ![e] = after]
  BY DEF IInv, TypeOK, ApplyEffects
<1>2. /\ after.pc = "settle" /\ after.task = NoTask /\ after.cleaner = wf[e].cleaner
      /\ after.idx = wf[e].idx /\ after.fin = wf[e].fin /\ after.ended = wf[e].ended
  BY <1>1, PublishedFields
<1> HIDE DEF after
<1> QED BY Zenon, <1>1, <1>2 DEF ApplyEffects

LEMMA ApplyEffectsJ ==
  ASSUME IInv, IInv', JInv, NEW e \in Execs, ApplyEffects(e)
  PROVE  JInv'
<1>1. /\ wf[e].pc = "effects" /\ UNCHANGED <<sub, exec, task, committed>>
  BY ApplyEffectsFacts
<1>2. RowsQuiet
  BY <1>1, QuietUnchanged
<1>3. SlotOk(e) /\ SettledOk(e)
  BY DEF JInv, SlotInv, SettledInv
<1>4. PICK w : /\ wf' = [wf EXCEPT ![e] = w]
               /\ w.pc = "settle" /\ w.task = NoTask /\ w.cleaner = wf[e].cleaner
               /\ w.idx = wf[e].idx
  BY ApplyEffectsFacts
<1>5. wf'[e] = w /\ This(e)' = This(e)
  BY Zenon, <1>2, <1>4, WorkflowAt, QuietGo
<1>6. SlotOk(e)' /\ SettledOk(e)'
  BY <1>1, <1>3, <1>4, <1>5 DEF SlotOk, SettledOk, PastPublish, Settled
<1> QED BY Zenon, <1>1, <1>2, <1>4, <1>6, QuietKeeps DEF SlotGo

LEMMA AwaitCleanupJ ==
  ASSUME IInv, IInv', JInv, NEW e \in Execs, AwaitCleanup(e)
  PROVE  JInv'
<1>1. /\ wf[e].pc = "settle" /\ UNCHANGED <<sub, exec, committed>>
      /\ task' \in {task, [task EXCEPT ![wf[e].cleaner] = FreeTask]}
  BY AwaitCleanupFacts
<1>2. RowsQuiet
  BY <1>1, QuietUnchanged
<1>3. SlotOk(e) /\ SettledOk(e)
  BY DEF JInv, SlotInv, SettledInv
<1>4. \A u \in Tasks : SlotGo(e, u)
  BY <1>1, GoFreeOne
<1>5. PICK w : /\ wf' = [wf EXCEPT ![e] = w] /\ w.cleaner = NoTask /\ w.task = NoTask
               /\ \/ Leaving(wf[e], w)
                  \/ /\ w.pc = "finish" /\ ~wf[e].more
                     /\ w.published = wf[e].published /\ w.idx = wf[e].idx
  BY AwaitCleanupFacts
<1>6. CASE Leaving(wf[e], w)
  BY Zenon, <1>2, <1>4, <1>5, <1>6, LeavingJ
<1>7. CASE ~Leaving(wf[e], w)
  <2>1. wf'[e] = w /\ (Settled(e) => Settled(e)') /\ exec'[e].stages = exec[e].stages
    BY Zenon, <1>2, <1>5, WorkflowAt, QuietGo DEF RowsQuiet
  <2>2. SlotOk(e)' /\ SettledOk(e)'
    BY <1>1, <1>3, <1>5, <1>7, <2>1 DEF SlotOk, SettledOk, PastPublish
  <2> QED BY Zenon, <1>2, <1>4, <1>5, <2>2, QuietKeeps
<1> QED BY <1>6, <1>7

LEMMA TerminateFacts ==
  ASSUME IInv, NEW e \in Execs, TerminateStalled(e)
  PROVE  /\ wf' = [wf EXCEPT ![e] = Closed]
         /\ \A t \in Tasks : \/ task'[t] = task[t]
                             \/ task'[t] = FreeTask /\ t \in Slots(e) /\ ~Busy(t)
         /\ UNCHANGED <<sub, exec, live, outbox, committed, scored>>
<1>1. NoTask \notin Tasks
  BY ParameterAssumption
<1> QED BY <1>1 DEF TerminateStalled, Closed, Slots, Busy

LEMMA TerminateJ ==
  ASSUME IInv, IInv', JInv, NEW e \in Execs, TerminateStalled(e)
  PROVE  JInv'
<1>1. \A t \in Tasks : SlotGo(e, t)
  BY TerminateFacts, FreeFields DEF SlotGo, Busy
<1>2. RowsQuiet
  BY TerminateFacts, QuietUnchanged
<1> QED BY Zenon, <1>1, <1>2, TerminateFacts, WorkflowFields, LeavingFields, LeavingJ

LEMMA DispatchFacts ==
  ASSUME IInv, NEW e \in Execs, NEW gate \in BOOLEAN, Dispatch(e, gate)
  PROVE  /\ \/ UNCHANGED wf
            \/ /\ wf[e].pc = "none" /\ exec[e].state \in Unfinished
               /\ \E w : /\ wf' = [wf EXCEPT ![e] = w]
                         /\ w.pc = "status" /\ w.idx = wf[e].idx /\ w.task = wf[e].task
                         /\ w.cleaner = wf[e].cleaner /\ w.more = wf[e].more
                         /\ w.published = wf[e].published /\ w.fin = wf[e].fin
                         /\ w.ended = wf[e].ended
         /\ UNCHANGED <<sub, exec, task, live, committed, scored>>
<1> DEFINE w == [wf[e] EXCEPT !.pc = "status"]
<1>1. /\ w.pc = "status" /\ w.idx = wf[e].idx /\ w.task = wf[e].task
      /\ w.cleaner = wf[e].cleaner /\ w.more = wf[e].more
      /\ w.published = wf[e].published /\ w.fin = wf[e].fin /\ w.ended = wf[e].ended
  BY SlotsTypes DEF WorkflowState
<1>2. UNCHANGED wf \/ (wf[e].pc = "none" /\ exec[e].state \in Unfinished /\ wf' = [wf EXCEPT ![e] = w])
  BY DEF Dispatch
<1> HIDE DEF w
<1> QED BY Zenon, <1>1, <1>2 DEF Dispatch

LEMMA JUnchanged ==
  ASSUME JInv, UNCHANGED <<sub, exec, wf, task, committed>>
  PROVE  JInv'
<1>1. \A e \in Execs : /\ SlotOk(e)' <=> SlotOk(e)
                       /\ Slots(e)' = Slots(e)
                       /\ SettledOk(e)' <=> SettledOk(e)
  BY DEF SlotOk, Slots, This, Busy, SettledOk, PastPublish, Settled
<1>2. \A t \in Tasks : TaskOk(t)' <=> TaskOk(t)
  BY DEF TaskOk, PcOk, Busy
<1>3. SlotInv'
  BY <1>1, <1>2 DEF JInv, SlotInv
<1>4. OwnerInv'
  BY DEF JInv, OwnerInv, ResultStaysVisible, This
<1>5. SettledInv'
  BY <1>1 DEF JInv, SettledInv, CompletedHasVerdict
<1> QED BY <1>3, <1>4, <1>5 DEF JInv

LEMMA DispatchJ ==
  ASSUME IInv, IInv', JInv, NEW e \in Execs, NEW gate \in BOOLEAN, Dispatch(e, gate)
  PROVE  JInv'
<1>1. UNCHANGED <<sub, exec, task, committed>>
  BY DispatchFacts
<1>2. CASE UNCHANGED wf
  BY <1>1, <1>2, JUnchanged
<1>3. ASSUME wf[e].pc = "none", NEW w, wf' = [wf EXCEPT ![e] = w], w.pc = "status",
             w.idx = wf[e].idx, w.task = wf[e].task, w.cleaner = wf[e].cleaner,
             w.published = wf[e].published
      PROVE  JInv'
  <2>1. SlotOk(e)
    BY DEF JInv, SlotInv
  <2>2. w.task = NoTask /\ w.cleaner = NoTask /\ w.idx <= exec[e].stages
    BY <1>3, <2>1 DEF SlotOk
  <2> QED BY Zenon, <1>1, <1>3, <2>2, QuietUnchanged, LeavesJ DEF SlotGo
<1> QED BY <1>2, <1>3, DispatchFacts

LEMMA FinishFacts ==
  ASSUME IInv, JInv, NEW e \in Execs, NEW answered \in BOOLEAN, FinishJudgeExecution(e, answered)
  PROVE  /\ wf[e].pc = "finish"
         /\ \/ exec[e].state = "cancelled" /\ UNCHANGED exec
            \/ /\ exec[e].state # "cancelled" /\ exec'[e].state = "completed"
               /\ exec'[e].lease = NoToken
               /\ exec'[e].epoch = exec[e].epoch /\ exec'[e].stages = exec[e].stages
               /\ exec'[e].rejudge = exec[e].rejudge
               /\ exec'[e].oldStatus = exec[e].oldStatus /\ exec'[e].oldScore = exec[e].oldScore
               /\ \A i \in Execs : i # e => exec'[i] = exec[i]
         /\ \E w : /\ wf' = [wf EXCEPT ![e] = w] /\ Leaving(wf[e], w)
                   /\ w.pc \in {"closed", "recover"} /\ w.cleaner = NoTask
         /\ UNCHANGED <<sub, task, live, outbox, committed, scored>>
<1> DEFINE row == [exec[e] EXCEPT !.state = "completed", !.lease = NoToken, !.fresh = FALSE]
           failed == [wf[e] EXCEPT !.pc = "recover"]
<1>1. /\ wf[e].pc = "finish"
      /\ \/ exec[e].state = "cancelled" /\ UNCHANGED exec
         \/ exec[e].state # "cancelled" /\ exec' = [exec EXCEPT ![e] = row]
      /\ wf' = [wf EXCEPT ![e] = Closed] \/ wf' = [wf EXCEPT ![e] = failed]
      /\ UNCHANGED <<sub, task, live, outbox, committed, scored>>
  BY Zenon DEF FinishJudgeExecution
<1>2. /\ row.state = "completed" /\ row.lease = NoToken
      /\ row.epoch = exec[e].epoch /\ row.stages = exec[e].stages /\ row.rejudge = exec[e].rejudge
      /\ row.oldStatus = exec[e].oldStatus /\ row.oldScore = exec[e].oldScore
  BY DEF IInv, TypeOK, ExecutionRow
<1>3. wf[e].task = NoTask /\ wf[e].cleaner = NoTask
  BY <1>1 DEF JInv, SlotInv, SlotOk
<1>4. /\ Leaving(wf[e], Closed) /\ Closed.pc = "closed" /\ Closed.cleaner = NoTask
      /\ Leaving(wf[e], failed) /\ failed.pc = "recover" /\ failed.cleaner = NoTask
  BY Zenon, <1>3, LeavingFields, WorkflowFields
<1> HIDE DEF row, failed
<1>5. \/ exec[e].state = "cancelled" /\ UNCHANGED exec
      \/ /\ exec[e].state # "cancelled" /\ exec'[e] = row
         /\ \A i \in Execs : i # e => exec'[i] = exec[i]
  BY <1>1 DEF IInv, TypeOK
<1>6. \E w : /\ wf' = [wf EXCEPT ![e] = w] /\ Leaving(wf[e], w)
             /\ w.pc \in {"closed", "recover"} /\ w.cleaner = NoTask
  BY <1>1, <1>4
<1> QED BY Zenon, <1>1, <1>2, <1>5, <1>6

LEMMA FinishJ ==
  ASSUME IInv, IInv', JInv, NEW e \in Execs, NEW answered \in BOOLEAN,
         FinishJudgeExecution(e, answered)
  PROVE  JInv'
<1>1. PICK w : /\ wf' = [wf EXCEPT ![e] = w] /\ Leaving(wf[e], w)
               /\ w.pc \in {"closed", "recover"} /\ w.cleaner = NoTask
  BY FinishFacts
<1>2. /\ wf[e].pc = "finish" /\ UNCHANGED <<sub, task, committed>>
      /\ \/ exec[e].state = "cancelled" /\ UNCHANGED exec
         \/ /\ exec[e].state # "cancelled" /\ exec'[e].state = "completed"
            /\ exec'[e].epoch = exec[e].epoch /\ exec'[e].stages = exec[e].stages
            /\ exec'[e].rejudge = exec[e].rejudge
            /\ exec'[e].oldStatus = exec[e].oldStatus /\ exec'[e].oldScore = exec[e].oldScore
            /\ \A i \in Execs : i # e => exec'[i] = exec[i]
  BY FinishFacts
<1>3. SlotOk(e) /\ SettledOk(e)
  BY DEF JInv, SlotInv, SettledInv
<1>4. Settled(e)
  BY <1>2, <1>3 DEF SettledOk, PastPublish
<1>5. \A i \in Execs : RowGo(i)
  BY <1>2, IndexesAreNatural DEF RowGo, Terminal
<1>6. wf'[e] = w /\ (\A f \in Execs : f # e => wf'[f] = wf[f])
  BY Zenon, <1>1, WorkflowAt
<1>7. WorkflowGo(e)
  BY <1>1, <1>2, <1>5, <1>6 DEF WorkflowGo, SlotGo, Slots, Leaving
<1>8. w.pc \in {"closed", "recover"} /\ w.task = NoTask /\ w.cleaner = NoTask
      /\ w.idx \in {wf[e].idx, 0} /\ (w.published => wf[e].published)
  BY <1>1 DEF Leaving
<1>9. SlotOk(e)'
  BY <1>2, <1>3, <1>6, <1>8, IndexesAreNatural DEF SlotOk
<1>10. Settled(e)'
  BY <1>2, <1>4, <1>5, SettledStays
<1>11. SettledOk(e)'
  BY <1>6, <1>8, <1>10 DEF SettledOk
<1>12. SubmissionGo
  <2>1. exec[e].state # "absent"
    BY <1>2 DEF IInv, FenceInv, ActivitiesHaveRows
  <2> QED BY <1>2, <2>1 DEF SubmissionGo
<1>13. OwnerInv'
  <2>1. ASSUME NEW i \in Execs, exec[i].state \in Unfinished, exec'[i].state \notin Unfinished
        PROVE  sub.active = NoRun \/ sub.gen # i
    <3>1. i = e
      BY <1>2, <2>1
    <3>2. e \in committed
      BY <1>4, <2>1, <3>1 DEF Settled, Unfinished, Terminal
    <3> QED BY <3>1, <3>2 DEF JInv, OwnerInv
  <2> QED BY <1>12, <2>1, OwnerStays DEF JInv
<1>14. SettledInv'
  <2>1. \A i \in Execs : exec'[i].state = "completed" => exec[i].state = "completed" \/ i \in committed
    BY <1>2, <1>4 DEF Settled, Terminal
  <2> QED BY <1>7, <1>11, <2>1, SettledGoes DEF JInv
<1> QED BY <1>7, <1>9, <1>13, <1>14, SlotsGo DEF JInv

LEMMA NewEpochFacts ==
  ASSUME IInv, NEW e \in Execs, NewEpoch(e)
  PROVE  /\ wf[e].pc = "closed" /\ exec[e].state \in Unfinished
         /\ wf' = [wf EXCEPT ![e] = NoWorkflow]
         /\ exec'[e].epoch = exec[e].epoch + 1
         /\ exec'[e].state = IF exec[e].state = "finalizing" THEN "finalizing" ELSE "recovering"
         /\ exec'[e].stages = exec[e].stages /\ exec'[e].lease = exec[e].lease
         /\ exec'[e].rejudge = exec[e].rejudge
         /\ exec'[e].oldStatus = exec[e].oldStatus /\ exec'[e].oldScore = exec[e].oldScore
         /\ \A i \in Execs : i # e => exec'[i] = exec[i]
         /\ \/ sub' = sub /\ ~Owned(e)
            \/ /\ Owned(e) /\ sub'.gen = sub.gen /\ sub'.active = Run(e, exec[e].epoch + 1)
               /\ sub'.status = sub.status /\ sub'.score = sub.score /\ sub'.detail = sub.detail
         /\ UNCHANGED <<task, live, committed, scored>>
<1> DEFINE row == NextEpochRow(exec[e])
           owner == [sub EXCEPT !.active = Run(e, row.epoch)]
<1>1. /\ exec[e].state \in Unfinished /\ wf[e].pc = "closed"
      /\ exec' = [exec EXCEPT ![e] = row]
      /\ (sub' = sub /\ ~Owned(e)) \/ (sub' = owner /\ Owned(e))
      /\ wf' = [wf EXCEPT ![e] = NoWorkflow]
      /\ UNCHANGED <<task, live, committed, scored>>
  BY DEF NewEpoch
<1>2. /\ row.epoch = exec[e].epoch + 1
      /\ row.state = IF exec[e].state = "finalizing" THEN "finalizing" ELSE "recovering"
      /\ row.stages = exec[e].stages /\ row.lease = exec[e].lease
      /\ row.rejudge = exec[e].rejudge
      /\ row.oldStatus = exec[e].oldStatus /\ row.oldScore = exec[e].oldScore
  BY DEF IInv, TypeOK, NextEpochRow, ExecutionRow
<1> HIDE DEF row
<1>3. /\ owner.gen = sub.gen /\ owner.active = Run(e, row.epoch)
      /\ owner.status = sub.status /\ owner.score = sub.score /\ owner.detail = sub.detail
  BY DEF IInv, TypeOK, SubmissionRow
<1> HIDE DEF owner
<1>4. exec'[e] = row /\ \A i \in Execs : i # e => exec'[i] = exec[i]
  BY <1>1 DEF IInv, TypeOK
<1> QED BY <1>1, <1>2, <1>3, <1>4

LEMMA NewEpochJ ==
  ASSUME IInv, IInv', JInv, NEW e \in Execs, NewEpoch(e)
  PROVE  JInv'
<1>1. /\ wf' = [wf EXCEPT ![e] = NoWorkflow]
      /\ exec'[e].epoch = exec[e].epoch + 1 /\ exec[e].epoch \in Nat
      /\ exec[e].state \in Unfinished /\ exec'[e].state \in Unfinished
      /\ exec'[e].stages = exec[e].stages /\ exec[e].stages \in Nat
      /\ exec'[e].rejudge = exec[e].rejudge
      /\ exec'[e].oldStatus = exec[e].oldStatus /\ exec'[e].oldScore = exec[e].oldScore
      /\ \A i \in Execs : i # e => exec'[i] = exec[i]
      /\ \/ sub' = sub /\ ~Owned(e)
         \/ /\ Owned(e) /\ sub'.gen = sub.gen /\ sub'.active = Run(e, exec[e].epoch + 1)
            /\ sub'.status = sub.status /\ sub'.score = sub.score /\ sub'.detail = sub.detail
      /\ UNCHANGED <<task, committed>>
  BY NewEpochFacts, IndexesAreNatural DEF Unfinished
<1>2. wf'[e] = NoWorkflow /\ \A f \in Execs : f # e => wf'[f] = wf[f]
  BY Zenon, <1>1, WorkflowAt
<1>3. /\ NoWorkflow.pc = "none" /\ NoWorkflow.idx = 0 /\ ~NoWorkflow.published
      /\ NoWorkflow.task = NoTask /\ NoWorkflow.cleaner = NoTask
  BY DEF NoWorkflow
<1>4. SlotInv'
  <2>1. SlotOk(e)'
    BY <1>1, <1>2, <1>3 DEF SlotOk
  <2>2. \A f \in Execs : f # e => SlotOk(f)'
    BY <1>1, <1>2 DEF JInv, SlotInv, SlotOk, Busy, This
  <2>3. \A t \in Tasks : TaskOk(t)'
    <3> SUFFICES ASSUME NEW t \in Tasks PROVE TaskOk(t)'
      OBVIOUS
    <3>1. TaskOk(t) /\ (Busy(t) => task[t].run.exec \in Execs) /\ task[t].run.epoch \in Nat
          /\ task[t].index \in Nat
      BY ParameterAssumption
      DEF JInv, SlotInv, IInv, TypeOK, Task, FenceInv, ActivitiesHaveRows, Busy
    <3> QED BY <1>1, <3>1 DEF TaskOk, Busy
  <2>4. \A f, g \in Execs : f # g => Slots(f)' \cap Slots(g)' = {}
    <3>1. Slots(e)' = {} /\ \A f \in Execs : f # e => Slots(f)' = Slots(f)
      BY <1>2, <1>3 DEF Slots
    <3> QED BY <3>1 DEF JInv, SlotInv
  <2> QED BY <2>1, <2>2, <2>3, <2>4 DEF SlotInv
<1>5. OwnerInv'
  <2>1. sub'.active # NoRun =>
           /\ sub'.gen \in Execs /\ sub'.active = This(sub.gen)'
           /\ exec'[sub'.gen].state \in Unfinished /\ sub'.gen \notin committed'
    <3>1. sub.gen = e
      BY <1>1 DEF IInv, FenceInv, OpenExecutionOwnsSubmission
    <3>2. sub'.gen = e /\ This(sub.gen)' = Run(e, exec[e].epoch + 1)
      BY <1>1, <3>1 DEF This
    <3>3. sub.active # NoRun => Owned(e) /\ e \notin committed
      BY <3>1 DEF JInv, OwnerInv, This, Owned
    <3>4. sub'.active # NoRun => Owned(e)
      BY <1>1, <3>3
    <3>5. e # 0 /\ sub.active.exec = e => sub.active # NoRun
      BY DEF NoRun, Run
    <3>6. Owned(e) => sub.active # NoRun
      BY <3>5, ParameterAssumption DEF Owned, Run, Execs
    <3> QED BY <1>1, <3>2, <3>3, <3>4, <3>6
  <2>2. ResultStaysVisible'
    BY <1>1 DEF JInv, OwnerInv, ResultStaysVisible
  <2>3. \A i \in Execs : exec'[i].state = "absent" <=> i > sub'.gen
    BY <1>1 DEF JInv, OwnerInv, Unfinished
  <2>4. /\ \A i \in committed' : i <= sub'.gen
        /\ sub'.gen \in committed' => sub'.detail = sub'.gen
        /\ sub'.detail # 0 => sub'.detail \in committed'
    BY <1>1 DEF JInv, OwnerInv
  <2> QED BY <2>1, <2>2, <2>3, <2>4 DEF OwnerInv
<1>6. SettledInv'
  <2>1. SettledOk(e)'
    BY <1>2, <1>3 DEF SettledOk, PastPublish
  <2>2. \A f \in Execs : f # e => SettledOk(f)'
    BY <1>1, <1>2 DEF JInv, SettledInv, SettledOk, PastPublish, Settled
  <2> QED BY <1>1, <2>1, <2>2 DEF JInv, SettledInv, CompletedHasVerdict, Unfinished
<1> QED BY <1>4, <1>5, <1>6 DEF JInv

-----------------------------------------------------------------------------
(* Steps that leave the workflows and the activities alone. *)

LEMMA RowsOnly ==
  ASSUME IInv, IInv', JInv, UNCHANGED <<wf, task>>, committed \subseteq committed',
         \A i \in Execs : RowGo(i) /\ (exec'[i].state = "completed" => exec[i].state = "completed")
  PROVE  SlotInv' /\ SettledInv'
<1>1. ASSUME NEW f \in Execs
      PROVE  SlotOk(f)' /\ SettledOk(f)' /\ Slots(f)' = Slots(f)
  <2>1. SlotOk(f) /\ SettledOk(f) /\ RowGo(f)
    BY DEF JInv, SlotInv, SettledInv
  <2>2. wf[f].idx <= exec'[f].stages
    <3>1. exec'[f].stages \in Nat
      BY ParameterAssumption DEF IInv, TypeOK, ExecutionRow
    <3> QED BY <2>1, <3>1, IndexesAreNatural DEF SlotOk, RowGo
  <2>3. This(f)' = This(f) /\ (Settled(f) => Settled(f)')
    BY <2>1, SettledStays DEF RowGo, This
  <2> QED BY <2>1, <2>2, <2>3 DEF SlotOk, SettledOk, PastPublish, Slots, Busy
<1>2. ASSUME NEW t \in Tasks PROVE TaskOk(t)'
  <2>1. TaskOk(t)
    BY DEF JInv, SlotInv
  <2>2. /\ Busy(t) => task[t].run.exec \in Execs
        /\ task[t].run.epoch \in Nat /\ task[t].index \in Nat
        /\ \A i \in Execs : exec[i].epoch \in Nat /\ exec'[i].epoch \in Nat
                            /\ exec[i].stages \in Nat /\ exec'[i].stages \in Nat
    BY ParameterAssumption
    DEF IInv, TypeOK, Task, ExecutionRow, FenceInv, ActivitiesHaveRows, Busy
  <2> QED BY <2>1, <2>2 DEF TaskOk, RowGo, Busy
<1>3. CompletedHasVerdict'
  BY DEF JInv, SettledInv, CompletedHasVerdict
<1>4. \A f, g \in Execs : f # g => Slots(f)' \cap Slots(g)' = {}
  BY <1>1 DEF JInv, SlotInv
<1> QED BY <1>1, <1>2, <1>3, <1>4 DEF SlotInv, SettledInv

LEMMA RowsOnlyJ ==
  ASSUME IInv, IInv', JInv, RowsQuiet, UNCHANGED <<wf, task>>
  PROVE  JInv'
<1>1. \A i \in Execs : RowGo(i) /\ (exec'[i].state = "completed" => exec[i].state = "completed")
  BY QuietGo DEF RowsQuiet, Unfinished
<1>2. OwnerInv'
  BY OwnerStays DEF JInv, RowsQuiet
<1> QED BY <1>1, <1>2, QuietGo, RowsOnly DEF JInv

LEMMA TimedRowsQuiet ==
  ASSUME IInv, UNCHANGED <<sub, committed>>,
         \A i \in Execs :
           /\ exec'[i].state = exec[i].state /\ exec'[i].epoch = exec[i].epoch
           /\ exec'[i].stages = exec[i].stages /\ exec'[i].rejudge = exec[i].rejudge
           /\ exec'[i].oldStatus = exec[i].oldStatus /\ exec'[i].oldScore = exec[i].oldScore
  PROVE  RowsQuiet
BY DEF RowsQuiet, SubmissionGo

LEMMA CleanupTerminalFacts ==
  ASSUME IInv, NEW e \in Execs, CleanupTerminal(e)
  PROVE  /\ exec[e].state \in Terminal /\ exec[e].lease # NoToken
         /\ live' = live \ {exec[e].lease}
         /\ UNCHANGED <<sub, wf, task, outbox, committed, scored>>
         /\ exec'[e].lease = NoToken
         /\ \A i \in Execs : i # e => exec'[i] = exec[i]
         /\ \A i \in Execs :
              /\ exec'[i].state = exec[i].state /\ exec'[i].epoch = exec[i].epoch
              /\ exec'[i].stages = exec[i].stages /\ exec'[i].rejudge = exec[i].rejudge
              /\ exec'[i].oldStatus = exec[i].oldStatus /\ exec'[i].oldScore = exec[i].oldScore
<1> DEFINE row == [exec[e] EXCEPT !.lease = NoToken]
<1>1. exec' = [exec EXCEPT ![e] = row]
  BY DEF CleanupTerminal
<1>2. /\ row.state = exec[e].state /\ row.epoch = exec[e].epoch /\ row.lease = NoToken
      /\ row.stages = exec[e].stages /\ row.rejudge = exec[e].rejudge
      /\ row.oldStatus = exec[e].oldStatus /\ row.oldScore = exec[e].oldScore
  BY DEF IInv, TypeOK, ExecutionRow
<1> HIDE DEF row
<1> QED BY <1>1, <1>2 DEF IInv, TypeOK, CleanupTerminal

LEMMA FreshFacts ==
  ASSUME IInv, NEW e, NEW b, exec' = [exec EXCEPT ![e].fresh = b]
  PROVE  \A i \in Execs :
           /\ exec'[i].state = exec[i].state /\ exec'[i].epoch = exec[i].epoch
           /\ exec'[i].stages = exec[i].stages /\ exec'[i].rejudge = exec[i].rejudge
           /\ exec'[i].oldStatus = exec[i].oldStatus /\ exec'[i].oldScore = exec[i].oldScore
           /\ exec'[i].lease = exec[i].lease
<1> DEFINE row == [exec[e] EXCEPT !.fresh = b]
<1>1. e \in Execs => /\ row.state = exec[e].state /\ row.epoch = exec[e].epoch
                     /\ row.lease = exec[e].lease
                     /\ row.stages = exec[e].stages /\ row.rejudge = exec[e].rejudge
                     /\ row.oldStatus = exec[e].oldStatus /\ row.oldScore = exec[e].oldScore
  BY DEF IInv, TypeOK, ExecutionRow
<1>2. exec' = [exec EXCEPT ![e] = row]
  OBVIOUS
<1> HIDE DEF row
<1> QED BY <1>1, <1>2 DEF IInv, TypeOK

LEMMA RowStepsJ ==
  ASSUME IInv, IInv', JInv, NEW e \in Execs,
         \/ CleanupTerminal(e) \/ LeaseLapses(e) \/ Redispatch(e)
         \/ \E t \in Tasks : HeartbeatJudgeStage(t)
  PROVE  JInv'
<1>1. CASE CleanupTerminal(e)
  BY <1>1, CleanupTerminalFacts, TimedRowsQuiet, RowsOnlyJ
<1>2. CASE LeaseLapses(e)
  BY <1>2, FreshFacts, TimedRowsQuiet, RowsOnlyJ DEF LeaseLapses
<1>3. CASE Redispatch(e)
  BY <1>3, JUnchanged DEF Redispatch
<1>4. CASE \E t \in Tasks : HeartbeatJudgeStage(t)
  BY Zenon, <1>4, FreshFacts, TimedRowsQuiet, RowsOnlyJ DEF HeartbeatJudgeStage
<1> QED BY <1>1, <1>2, <1>3, <1>4

LEMMA CancelFacts ==
  ASSUME IInv, NEW e \in Execs, CancelRejudge(e)
  PROVE  /\ exec[e].rejudge /\ exec[e].state \in Unfinished /\ ~CommittedFinalizing(e)
         /\ exec'[e].state = "cancelled"
         /\ \A i \in Execs : SameRow(i) /\ (i # e => exec'[i] = exec[i])
         /\ \/ sub' = sub /\ ~Owned(e)
            \/ /\ Owned(e) /\ sub'.gen = sub.gen /\ sub'.active = NoRun
               /\ sub'.status = exec[e].oldStatus /\ sub'.score = exec[e].oldScore
               /\ sub'.detail = sub.detail
         /\ UNCHANGED <<wf, task, live, outbox, committed, scored>>
<1> DEFINE row == [exec[e] EXCEPT !.state = "cancelled"]
           old == [sub EXCEPT !.active = NoRun, !.status = exec[e].oldStatus,
                              !.score = exec[e].oldScore]
<1>1. /\ exec' = [exec EXCEPT ![e] = row]
      /\ (sub' = sub /\ ~Owned(e)) \/ (sub' = old /\ Owned(e))
  BY DEF CancelRejudge
<1>2. /\ row.state = "cancelled" /\ row.epoch = exec[e].epoch /\ row.lease = exec[e].lease
      /\ row.stages = exec[e].stages /\ row.rejudge = exec[e].rejudge
      /\ row.oldStatus = exec[e].oldStatus /\ row.oldScore = exec[e].oldScore
  BY StateRowSame DEF IInv, TypeOK
<1>3. /\ old.gen = sub.gen /\ old.active = NoRun /\ old.status = exec[e].oldStatus
      /\ old.score = exec[e].oldScore /\ old.detail = sub.detail
  BY DEF IInv, TypeOK, SubmissionRow
<1> HIDE DEF row, old
<1>4. exec'[e] = row /\ \A i \in Execs : i # e => exec'[i] = exec[i]
  BY <1>1 DEF IInv, TypeOK
<1>5. \A i \in Execs : SameRow(i)
  BY <1>2, <1>4 DEF SameRow
<1> QED BY <1>1, <1>2, <1>3, <1>4, <1>5 DEF CancelRejudge

(* The cancellation of an uncommitted rejudge gives back what it never took. *)
LEMMA CancelJ ==
  ASSUME IInv, IInv', JInv, NEW e \in Execs, CancelRejudge(e)
  PROVE  JInv'
<1>1. /\ exec[e].rejudge /\ exec[e].state \in Unfinished /\ exec'[e].state = "cancelled"
      /\ \A i \in Execs : SameRow(i) /\ (i # e => exec'[i] = exec[i])
      /\ \/ sub' = sub /\ ~Owned(e)
         \/ /\ Owned(e) /\ sub'.gen = sub.gen /\ sub'.active = NoRun
            /\ sub'.status = exec[e].oldStatus /\ sub'.score = exec[e].oldScore
            /\ sub'.detail = sub.detail
      /\ UNCHANGED <<wf, task, committed>>
  BY CancelFacts
<1>2. \A i \in Execs : RowGo(i) /\ (exec'[i].state = "completed" => exec[i].state = "completed")
  BY <1>1, IndexesAreNatural DEF RowGo, SameRow, Terminal, Unfinished
<1>3. sub.gen = e /\ (Owned(e) \/ (sub.active = NoRun /\ e \in committed))
  BY <1>1 DEF IInv, FenceInv, OpenExecutionOwnsSubmission, Owned
<1>4. Owned(e) => sub.active # NoRun
  BY ParameterAssumption DEF Owned, NoRun, Run, Execs
<1>5. Owned(e) => e \notin committed
  BY <1>3, <1>4 DEF JInv, OwnerInv
<1>6. /\ sub'.gen = sub.gen /\ sub'.active = NoRun /\ sub'.status = sub.status
      /\ sub'.score = sub.score /\ sub'.detail = sub.detail
  BY <1>1, <1>3, <1>5 DEF JInv, OwnerInv, ResultStaysVisible
<1>7. ResultStaysVisible'
  BY <1>1, <1>6 DEF JInv, OwnerInv, ResultStaysVisible, SameRow
<1>8. \A i \in Execs : exec'[i].state = "absent" <=> i > sub'.gen
  BY <1>1, <1>6 DEF JInv, OwnerInv, Unfinished
<1>9. OwnerInv'
  BY <1>1, <1>6, <1>7, <1>8 DEF JInv, OwnerInv
<1> QED BY <1>1, <1>2, <1>9, RowsOnly DEF JInv

LEMMA SupersededFields ==
  ASSUME NEW row \in ExecutionRow
  PROVE  /\ row.state \in Unfinished => Superseded(row).state = "cancelled"
         /\ row.state \notin Unfinished => Superseded(row) = row
         /\ Superseded(row).epoch = row.epoch /\ Superseded(row).stages = row.stages
         /\ Superseded(row).lease = row.lease
BY DEF Superseded, ExecutionRow

LEMMA CreateFacts ==
  ASSUME IInv, NEW rejudge \in BOOLEAN, CreateJudgeExecution(rejudge)
  PROVE  /\ sub.gen + 1 \in Execs /\ sub'.gen = sub.gen + 1
         /\ sub'.active = Run(sub.gen + 1, 0)
         /\ rejudge => sub'.status = sub.status
         /\ ~rejudge => sub'.status = "queued"
         /\ sub'.score = sub.score /\ sub'.detail = sub.detail
         /\ exec'[sub.gen + 1].state = "queued" /\ exec'[sub.gen + 1].epoch = 0
         /\ exec'[sub.gen + 1].stages = 0 /\ exec'[sub.gen + 1].lease = NoToken
         /\ exec'[sub.gen + 1].rejudge = rejudge
         /\ exec'[sub.gen + 1].oldStatus = sub.status /\ exec'[sub.gen + 1].oldScore = sub.score
         /\ \A i \in Execs : i # sub.gen + 1 => exec'[i] = Superseded(exec[i])
         /\ \A i \in Execs : exec[i].state # "finalizing"
         /\ UNCHANGED <<wf, task, live, committed, scored>>
<1> DEFINE n == sub.gen + 1
           new == [NewExecution EXCEPT !.state = "queued", !.rejudge = rejudge,
                                       !.oldStatus = sub.status, !.oldScore = sub.score]
           row == [sub EXCEPT !.gen = n, !.active = Run(n, 0),
                              !.status = IF rejudge THEN @ ELSE "queued"]
<1>1. /\ n \in Execs
      /\ exec' = [i \in Execs |-> IF i = n THEN new ELSE Superseded(exec[i])]
      /\ sub' = row
      /\ \A i \in Execs : exec[i].state # "finalizing"
      /\ UNCHANGED <<wf, task, live, committed, scored>>
  BY DEF CreateJudgeExecution
<1>2. /\ new.state = "queued" /\ new.epoch = 0 /\ new.stages = 0 /\ new.lease = NoToken
      /\ new.rejudge = rejudge /\ new.oldStatus = sub.status /\ new.oldScore = sub.score
  BY DEF NewExecution
<1> HIDE DEF n
<1>3. /\ row.gen = n /\ row.active = Run(n, 0)
      /\ rejudge => row.status = sub.status
      /\ ~rejudge => row.status = "queued"
      /\ row.score = sub.score /\ row.detail = sub.detail
  BY DEF IInv, TypeOK, SubmissionRow
<1> HIDE DEF new, row
<1>4. exec'[n] = new /\ \A i \in Execs : i # n => exec'[i] = Superseded(exec[i])
  BY <1>1
<1> QED BY <1>1, <1>2, <1>3, <1>4 DEF n

LEMMA CreateJ ==
  ASSUME IInv, IInv', JInv, NEW rejudge \in BOOLEAN, CreateJudgeExecution(rejudge)
  PROVE  JInv'
<1> DEFINE n == sub.gen + 1
<1>1. /\ n \in Execs /\ sub'.gen = n /\ sub'.active = Run(n, 0)
      /\ rejudge => sub'.status = sub.status
      /\ ~rejudge => sub'.status = "queued"
      /\ sub'.score = sub.score /\ sub'.detail = sub.detail
      /\ exec'[n].state = "queued" /\ exec'[n].epoch = 0 /\ exec'[n].stages = 0
      /\ exec'[n].rejudge = rejudge
      /\ exec'[n].oldStatus = sub.status /\ exec'[n].oldScore = sub.score
      /\ UNCHANGED <<wf, task, committed>>
  BY CreateFacts
<1>2. \A i \in Execs : i # n =>
        /\ exec[i].state \in Unfinished => exec'[i].state = "cancelled"
        /\ exec[i].state \notin Unfinished => exec'[i] = exec[i]
        /\ exec'[i].epoch = exec[i].epoch /\ exec'[i].stages = exec[i].stages
  BY CreateFacts, SupersededFields DEF IInv, TypeOK
<1>3. sub.gen \in Nat /\ \A i \in Execs : i \in Nat
  BY ParameterAssumption DEF IInv, TypeOK, SubmissionRow, Execs
<1>4. exec[n].state = "absent" /\ n \notin committed /\ n > sub.gen
  BY <1>1, <1>3 DEF JInv, OwnerInv
<1>5. wf[n] = NoWorkflow
  BY <1>1, <1>4 DEF IInv, FenceInv, ActivitiesHaveRows, JInv, SlotInv, SlotOk
<1>6. /\ NoWorkflow.pc = "none" /\ NoWorkflow.idx = 0 /\ ~NoWorkflow.published
      /\ NoWorkflow.task = NoTask /\ NoWorkflow.cleaner = NoTask
  BY DEF NoWorkflow
<1>7. \A t \in Tasks : Busy(t) => task[t].run.exec \in Execs /\ task[t].run.exec # n
  BY <1>4 DEF IInv, FenceInv, ActivitiesHaveRows
<1> HIDE DEF n
<1>8. SlotInv'
  <2>1. ASSUME NEW f \in Execs PROVE SlotOk(f)'
    <3>1. CASE f = n
      BY <1>1, <1>5, <1>6, <3>1 DEF SlotOk
    <3>2. CASE f # n
      BY <1>1, <1>2, <3>2 DEF JInv, SlotInv, SlotOk, This, Busy
    <3> QED BY <3>1, <3>2
  <2>2. \A t \in Tasks : TaskOk(t)'
    BY <1>1, <1>2, <1>7 DEF JInv, SlotInv, TaskOk, Busy
  <2>3. \A f, g \in Execs : f # g => Slots(f)' \cap Slots(g)' = {}
    BY <1>1 DEF JInv, SlotInv, Slots
  <2> QED BY <2>1, <2>2, <2>3 DEF SlotInv
<1>9. OwnerInv'
  <2>1. /\ sub'.gen \in Execs /\ sub'.active = This(sub.gen)'
        /\ exec'[sub'.gen].state \in Unfinished /\ sub'.gen \notin committed'
    BY <1>1, <1>4 DEF This, Unfinished
  <2>2. \A i \in Execs : exec'[i].state = "absent" <=> i > sub'.gen
    <3> SUFFICES ASSUME NEW i \in Execs PROVE exec'[i].state = "absent" <=> i > n
      BY <1>1
    <3>1. exec[i].state = "absent" <=> i > sub.gen
      BY DEF JInv, OwnerInv
    <3>2. i # n => (exec'[i].state = "absent" <=> exec[i].state = "absent")
      BY <1>2 DEF Unfinished
    <3>3. i # n => (i > n <=> i > sub.gen)
      BY <1>3 DEF n
    <3> QED BY <1>1, <1>3, <3>1, <3>2, <3>3
  <2>3. ResultStaysVisible'
    BY <1>1, <1>2 DEF JInv, OwnerInv, ResultStaysVisible
  <2>4. /\ \A i \in committed' : i <= sub'.gen
        /\ sub'.gen \in committed' => sub'.detail = sub'.gen
        /\ sub'.detail # 0 => sub'.detail \in committed'
    <3>1. committed \subseteq Execs
      BY DEF IInv, TypeOK
    <3> QED BY <1>1, <1>3, <1>4, <3>1 DEF JInv, OwnerInv, n
  <2> QED BY <2>1, <2>2, <2>3, <2>4 DEF OwnerInv
<1>10. SettledInv'
  <2>1. ASSUME NEW f \in Execs PROVE SettledOk(f)'
    <3>1. CASE f = n
      BY <1>1, <1>5, <1>6, <3>1 DEF SettledOk, PastPublish
    <3>2. CASE f # n
      <4>1. Settled(f) => Settled(f)'
        BY <1>1, <1>2, <3>2 DEF Settled, Terminal, Unfinished
      <4> QED BY <1>1, <4>1 DEF JInv, SettledInv, SettledOk, PastPublish
    <3> QED BY <3>1, <3>2
  <2>2. CompletedHasVerdict'
    BY <1>1, <1>2 DEF JInv, SettledInv, CompletedHasVerdict
  <2> QED BY <2>1, <2>2 DEF SettledInv
<1> QED BY <1>8, <1>9, <1>10 DEF JInv

-----------------------------------------------------------------------------
(* Steps of the activities. *)

ActivityGo(t) ==
  /\ Busy(t) /\ UNCHANGED wf
  /\ \A u \in Tasks : u # t => task'[u] = task[u]
  /\ Awaited(t) => task'[t].kind = task[t].kind
  /\ PcOk(task'[t])
  /\ Busy(t)' => task'[t].run = task[t].run /\ task'[t].index = task[t].index
  /\ task[t].kind = "complete" /\ Awaited(t) =>
       \A f \in Execs : f = task[t].run.exec =>
         /\ task'[t].out = "ok" => f \in committed'
         /\ task'[t].out = "null" => Settled(f)'

LEMMA ActivityKeeps ==
  ASSUME IInv, IInv', JInv, NEW t \in Tasks, ActivityGo(t), committed \subseteq committed',
         \A i \in Execs : RowGo(i) /\ (exec'[i].state = "completed" => exec[i].state = "completed")
  PROVE  SlotInv' /\ SettledInv'
<1>1. /\ Busy(t) /\ UNCHANGED wf
      /\ \A u \in Tasks : u # t => task'[u] = task[u]
      /\ Awaited(t) => task'[t].kind = task[t].kind
      /\ PcOk(task'[t])
      /\ Busy(t)' => task'[t].run = task[t].run /\ task'[t].index = task[t].index
      /\ task[t].kind = "complete" /\ Awaited(t) =>
           \A f \in Execs : f = task[t].run.exec =>
             /\ task'[t].out = "ok" => f \in committed'
             /\ task'[t].out = "null" => Settled(f)'
  BY DEF ActivityGo
<1>2. ASSUME NEW f \in Execs
      PROVE  SlotOk(f)' /\ SettledOk(f)' /\ Slots(f)' = Slots(f)
  <2>1. SlotOk(f) /\ SettledOk(f) /\ RowGo(f)
    BY DEF JInv, SlotInv, SettledInv
  <2>2. wf[f].idx <= exec'[f].stages
    <3>1. exec'[f].stages \in Nat
      BY ParameterAssumption DEF IInv, TypeOK, ExecutionRow
    <3> QED BY <2>1, <3>1, IndexesAreNatural DEF SlotOk, RowGo
  <2>3. This(f)' = This(f) /\ (Settled(f) => Settled(f)')
    BY <2>1, SettledStays DEF RowGo, This
  <2>4. t \in {wf[f].task, wf[f].cleaner} => Awaited(t)
    BY DEF Awaited
  <2>5. wf[f].task = t => task[t].run = This(f) /\ task[t].run.exec = f
    BY <1>1, <2>1, ParameterAssumption DEF SlotOk, This, Run
  <2>6. wf[f].task \in Tasks \cup {NoTask} /\ wf[f].cleaner \in Tasks \cup {NoTask}
    BY SlotsTypes
  <2>7. SlotOk(f)'
    BY <1>1, <2>1, <2>2, <2>3, <2>4, <2>5, <2>6 DEF SlotOk, Busy
  <2>8. SettledOk(f)'
    BY <1>1, <2>1, <2>3, <2>4, <2>5, <2>6 DEF SettledOk, PastPublish, SlotOk
  <2>9. Slots(f)' = Slots(f)
    BY <1>1 DEF Slots
  <2> QED BY <2>7, <2>8, <2>9
<1>3. ASSUME NEW u \in Tasks PROVE TaskOk(u)'
  <2>1. TaskOk(u)
    BY DEF JInv, SlotInv
  <2>2. /\ Busy(u) => task[u].run.exec \in Execs
        /\ task[u].run.epoch \in Nat /\ task[u].index \in Nat
        /\ \A i \in Execs : exec[i].epoch \in Nat /\ exec'[i].epoch \in Nat
                            /\ exec[i].stages \in Nat /\ exec'[i].stages \in Nat
    BY ParameterAssumption
    DEF IInv, TypeOK, Task, ExecutionRow, FenceInv, ActivitiesHaveRows, Busy
  <2>3. CASE u = t
    <3>1. PcOk(task'[u])
      BY <1>1, <2>3
    <3>2. Busy(u)' => /\ task'[u].run.epoch <= exec'[task'[u].run.exec].epoch
                      /\ task'[u].index <= exec'[task'[u].run.exec].stages
      BY <1>1, <2>1, <2>2, <2>3 DEF TaskOk, RowGo
    <3> QED BY <3>1, <3>2 DEF TaskOk
  <2>4. CASE u # t
    BY <1>1, <2>1, <2>2, <2>4 DEF TaskOk, RowGo, Busy
  <2> QED BY <2>3, <2>4
<1>4. CompletedHasVerdict'
  BY DEF JInv, SettledInv, CompletedHasVerdict
<1>5. \A f, g \in Execs : f # g => Slots(f)' \cap Slots(g)' = {}
  BY <1>2 DEF JInv, SlotInv
<1> QED BY <1>2, <1>3, <1>4, <1>5 DEF SlotInv, SettledInv

LEMMA ActivityQuietJ ==
  ASSUME IInv, IInv', JInv, NEW t \in Tasks, ActivityGo(t), RowsQuiet
  PROVE  JInv'
<1>1. \A i \in Execs : RowGo(i) /\ (exec'[i].state = "completed" => exec[i].state = "completed")
  BY QuietGo DEF RowsQuiet, Unfinished
<1>2. OwnerInv'
  BY OwnerStays DEF JInv, RowsQuiet
<1> QED BY <1>1, <1>2, QuietGo, ActivityKeeps DEF JInv

LEMMA EndedFields ==
  ASSUME IInv, NEW t \in Tasks, NEW out
  PROVE  LET x == Ended(t, out)
         IN /\ x.pc = "done" /\ PcOk(x)
            /\ Awaited(t) => x.kind = task[t].kind /\ x.out = out
            /\ ~Awaited(t) => x = FreeTask
<1> DEFINE kept == [task[t] EXCEPT !.pc = "done", !.index = 0, !.out = out]
           plain == [FreeTask EXCEPT !.kind = task[t].kind, !.out = out]
<1>1. /\ kept.pc = "done" /\ kept.kind = task[t].kind /\ kept.out = out
      /\ plain.pc = "done" /\ plain.kind = task[t].kind /\ plain.out = out
  BY DEF IInv, TypeOK, Task, FreeTask
<1>2. /\ ~Awaited(t) => Ended(t, out) = FreeTask
      /\ Awaited(t) => Ended(t, out) \in {kept, plain}
  BY DEF Ended
<1> HIDE DEF kept, plain
<1> QED BY <1>1, <1>2, FreeFields DEF PcOk

LEMMA AnswerGo ==
  ASSUME IInv, JInv, NEW t \in Tasks, Busy(t), NEW out, task' = [task EXCEPT ![t] = Ended(t, out)],
         UNCHANGED wf,
         task[t].kind = "complete" /\ Awaited(t) =>
           \A f \in Execs : f = task[t].run.exec =>
             /\ out = "ok" => f \in committed'
             /\ out = "null" => Settled(f)'
  PROVE  ActivityGo(t)
<1>1. task'[t] = Ended(t, out) /\ \A u \in Tasks : u # t => task'[u] = task[u]
  BY Zenon, TaskAt
<1>2. /\ task'[t].pc = "done" /\ PcOk(task'[t])
      /\ Awaited(t) => task'[t].kind = task[t].kind /\ task'[t].out = out
  BY <1>1, EndedFields
<1> QED BY <1>1, <1>2 DEF ActivityGo, Busy

LEMMA MoveGo ==
  ASSUME IInv, JInv, NEW t \in Tasks, Busy(t), NEW x, task' = [task EXCEPT ![t] = x],
         UNCHANGED wf, x.kind = task[t].kind, x.run = task[t].run, x.index = task[t].index, PcOk(x),
         x.kind = "complete" => x.out \notin {"ok", "null"}
  PROVE  ActivityGo(t)
BY Zenon, TaskAt DEF ActivityGo

(* An activity that is told its result is not wanted, or is there already. *)
LEMMA AwaitedRun ==
  ASSUME IInv, JInv, NEW t \in Tasks, Busy(t), task[t].kind = "complete", Awaited(t)
  PROVE  \E f \in Execs : /\ wf[f].task = t /\ wf[f].pc = "completing"
                          /\ task[t].run = This(f) /\ task[t].run.exec = f
                          /\ exec[f].state # "absent"
<1>1. PICK f \in Execs : wf[f].task = t \/ wf[f].cleaner = t
  BY DEF Awaited
<1>2. SlotOk(f) /\ NoTask \notin Tasks
  BY ParameterAssumption DEF JInv, SlotInv
<1>3. wf[f].task = t /\ wf[f].pc = "completing" /\ task[t].run = This(f)
  BY <1>1, <1>2 DEF SlotOk
<1>4. wf[f].pc # "none" => exec[f].state # "absent"
  BY DEF IInv, FenceInv, ActivitiesHaveRows
<1> QED BY <1>3, <1>4 DEF This, Run

LEMMA NotMineIsSettled ==
  ASSUME IInv, JInv, NEW t \in Tasks, Busy(t), task[t].kind = "complete", Awaited(t),
         sub.active # task[t].run
  PROVE  Settled(task[t].run.exec)
<1>1. PICK f \in Execs : /\ task[t].run = This(f) /\ task[t].run.exec = f
                         /\ exec[f].state # "absent"
  BY AwaitedRun
<1>2. exec[f].state \in Unfinished => f \in committed
  BY <1>1 DEF IInv, FenceInv, OpenExecutionOwnsSubmission, This
<1>3. exec[f].state \in Unfinished \cup Terminal
  BY <1>1 DEF IInv, TypeOK, ExecutionRow
<1> QED BY <1>1, <1>2, <1>3 DEF Settled

LEMMA NoOwnerIsSettled ==
  ASSUME IInv, JInv, NEW t \in Tasks, Busy(t), task[t].kind = "complete", Awaited(t), ~StillOwner(t)
  PROVE  Settled(task[t].run.exec) /\ exec[task[t].run.exec].state \in Terminal
<1>1. PICK f \in Execs : /\ task[t].run = This(f) /\ task[t].run.exec = f
                         /\ exec[f].state # "absent"
  BY AwaitedRun
<1>2. exec[f].epoch = task[t].run.epoch
  BY <1>1 DEF This, Run
<1>3. exec[f].state = "cancelled" \/ sub.gen # f
  BY <1>1, <1>2 DEF StillOwner
<1>4. exec[f].state \notin Unfinished
  BY <1>1, <1>3 DEF IInv, FenceInv, OpenExecutionOwnsSubmission, Unfinished
<1>5. exec[f].state \in Unfinished \cup Terminal
  BY <1>1 DEF IInv, TypeOK, ExecutionRow
<1> QED BY <1>1, <1>4, <1>5 DEF Settled

LEMMA MovedFields ==
  ASSUME NEW x \in Task, NEW p, NEW out
  PROVE  /\ LET y == [x EXCEPT !.pc = p]
            IN /\ y.pc = p /\ y.kind = x.kind /\ y.run = x.run /\ y.index = x.index
               /\ y.token = x.token /\ y.out = x.out /\ y.defer = x.defer
         /\ LET y == [x EXCEPT !.pc = p, !.out = out]
            IN /\ y.pc = p /\ y.kind = x.kind /\ y.run = x.run /\ y.index = x.index
               /\ y.token = x.token /\ y.out = out /\ y.defer = x.defer
BY DEF Task

LEMMA MovedDeferFields ==
  ASSUME NEW x \in Task, NEW d
  PROVE  LET y == [x EXCEPT !.pc = "save", !.defer = d]
         IN /\ y.pc = "save" /\ y.kind = x.kind /\ y.run = x.run /\ y.index = x.index
            /\ y.token = x.token /\ y.out = x.out /\ y.defer = d
BY DEF Task

LEMMA MovedTokenFields ==
  ASSUME NEW x \in Task, NEW k
  PROVE  LET y == [x EXCEPT !.pc = "claimed", !.token = k]
         IN /\ y.pc = "claimed" /\ y.kind = x.kind /\ y.run = x.run /\ y.index = x.index
            /\ y.token = k /\ y.out = x.out /\ y.defer = x.defer
BY DEF Task

LEMMA TaskFacts ==
  ASSUME IInv, JInv, NEW t \in Tasks
  PROVE  /\ task[t] \in Task /\ PcOk(task[t])
         /\ Busy(t) => task[t].run.exec \in Execs /\ exec[task[t].run.exec].state # "absent"
BY DEF IInv, TypeOK, FenceInv, ActivitiesHaveRows, JInv, SlotInv, TaskOk

(* A failure, or a step that answers with neither result of a completion. *)
LEMMA PlainAnswerJ ==
  ASSUME IInv, IInv', JInv, NEW t \in Tasks, Busy(t), NEW out,
         out \notin {"ok", "null"} \/ task[t].kind # "complete",
         task' = [task EXCEPT ![t] = Ended(t, out)], RowsQuiet, UNCHANGED wf
  PROVE  JInv'
<1>1. ActivityGo(t)
  BY Zenon, AnswerGo
<1> QED BY <1>1, ActivityQuietJ

LEMMA PlainMoveJ ==
  ASSUME IInv, IInv', JInv, NEW t \in Tasks, Busy(t), NEW x, task' = [task EXCEPT ![t] = x],
         x.kind = task[t].kind, x.run = task[t].run, x.index = task[t].index, PcOk(x),
         x.kind = "complete" => x.out \notin {"ok", "null"}, RowsQuiet, UNCHANGED wf
  PROVE  JInv'
<1>1. ActivityGo(t)
  BY Zenon, MoveGo
<1> QED BY <1>1, ActivityQuietJ

LEMMA ClaimFacts ==
  ASSUME IInv, JInv, NEW t \in Tasks, ClaimJudgeLease(t)
  PROVE  LET e == task[t].run.exec
         IN /\ task[t].kind = "stage" /\ task[t].pc = "unstarted" /\ e \in Execs
            /\ UNCHANGED <<wf, live, outbox, committed, scored>>
            /\ \/ /\ UNCHANGED <<sub, exec>>
                  /\ \E out \in {"obsolete", "cleanup"} : task' = [task EXCEPT ![t] = Ended(t, out)]
               \/ /\ exec[e].epoch = task[t].run.epoch /\ exec[e].state \in Unfinished
                  /\ exec[e].lease = NoToken
                  /\ \E k \in Tokens :
                       /\ FreshToken(k)
                       /\ exec'[e].state = "running" /\ exec'[e].lease = k
                       /\ exec'[e].epoch = exec[e].epoch /\ exec'[e].stages = exec[e].stages
                       /\ exec'[e].rejudge = exec[e].rejudge
                       /\ exec'[e].oldStatus = exec[e].oldStatus
                       /\ exec'[e].oldScore = exec[e].oldScore
                       /\ \A i \in Execs : i # e => exec'[i] = exec[i]
                       /\ task' = [task EXCEPT ![t] = [@ EXCEPT !.pc = "claimed", !.token = k]]
                  /\ \/ sub' = sub
                     \/ /\ ~exec[e].rejudge /\ Owned(e)
                        /\ sub'.status = "running" /\ sub'.gen = sub.gen /\ sub'.active = sub.active
                        /\ sub'.score = sub.score /\ sub'.detail = sub.detail
<1> DEFINE e == task[t].run.exec
           shown == [sub EXCEPT !.status = "running"]
           Row(k) == [exec[e] EXCEPT !.state = "running", !.lease = k, !.fresh = TRUE]
<1>1. task[t].kind = "stage" /\ task[t].pc = "unstarted" /\ UNCHANGED <<wf, live, outbox, committed, scored>>
  BY Zenon DEF ClaimJudgeLease
<1>2. e \in Execs /\ exec[e].state # "absent" /\ exec[e] \in ExecutionRow
  BY <1>1, TaskFacts DEF Busy, IInv, TypeOK
<1>3. \/ /\ UNCHANGED <<sub, exec>>
         /\ \E out \in {"obsolete", "cleanup"} : task' = [task EXCEPT ![t] = Ended(t, out)]
      \/ /\ exec[e].epoch = task[t].run.epoch /\ exec[e].state \notin Terminal
         /\ exec[e].lease = NoToken
         /\ \E k \in Tokens :
              /\ FreshToken(k)
              /\ exec' = [exec EXCEPT ![e] = Row(k)]
              /\ task' = [task EXCEPT ![t] = [@ EXCEPT !.pc = "claimed", !.token = k]]
         /\ sub' = sub \/ (~exec[e].rejudge /\ Owned(e) /\ sub' = shown)
  BY Zenon DEF ClaimJudgeLease
<1>4. /\ shown.status = "running" /\ shown.gen = sub.gen /\ shown.active = sub.active
      /\ shown.score = sub.score /\ shown.detail = sub.detail
  BY StatusOnly
<1>5. \A k : /\ Row(k).state = "running" /\ Row(k).lease = k
             /\ Row(k).epoch = exec[e].epoch /\ Row(k).stages = exec[e].stages
             /\ Row(k).rejudge = exec[e].rejudge /\ Row(k).oldStatus = exec[e].oldStatus
             /\ Row(k).oldScore = exec[e].oldScore
  BY <1>2 DEF ExecutionRow
<1>6. exec[e].state \notin Terminal => exec[e].state \in Unfinished
  BY <1>2 DEF ExecutionRow
<1> HIDE DEF shown, Row
<1>7. \A k : exec' = [exec EXCEPT ![e] = Row(k)] =>
               exec'[e] = Row(k) /\ \A i \in Execs : i # e => exec'[i] = exec[i]
  BY <1>2 DEF IInv, TypeOK
<1> HIDE DEF e
<1>8. CASE /\ UNCHANGED <<sub, exec>>
           /\ \E out \in {"obsolete", "cleanup"} : task' = [task EXCEPT ![t] = Ended(t, out)]
  BY Zenon, <1>1, <1>2, <1>8 DEF e
<1>9. CASE /\ exec[e].epoch = task[t].run.epoch /\ exec[e].state \notin Terminal
           /\ exec[e].lease = NoToken
           /\ \E k \in Tokens :
                /\ FreshToken(k)
                /\ exec' = [exec EXCEPT ![e] = Row(k)]
                /\ task' = [task EXCEPT ![t] = [@ EXCEPT !.pc = "claimed", !.token = k]]
           /\ sub' = sub \/ (~exec[e].rejudge /\ Owned(e) /\ sub' = shown)
  <2>1. PICK k \in Tokens :
                /\ FreshToken(k)
                /\ exec' = [exec EXCEPT ![e] = Row(k)]
                /\ task' = [task EXCEPT ![t] = [@ EXCEPT !.pc = "claimed", !.token = k]]
    BY Zenon, <1>9
  <2>2. /\ exec'[e].state = "running" /\ exec'[e].lease = k
        /\ exec'[e].epoch = exec[e].epoch /\ exec'[e].stages = exec[e].stages
        /\ exec'[e].rejudge = exec[e].rejudge
        /\ exec'[e].oldStatus = exec[e].oldStatus
        /\ exec'[e].oldScore = exec[e].oldScore
        /\ \A i \in Execs : i # e => exec'[i] = exec[i]
    BY Zenon, <1>5, <1>7, <2>1
  <2>3. \/ sub' = sub
        \/ /\ ~exec[e].rejudge /\ Owned(e)
           /\ sub'.status = "running" /\ sub'.gen = sub.gen /\ sub'.active = sub.active
           /\ sub'.score = sub.score /\ sub'.detail = sub.detail
    BY <1>4, <1>9
  <2> QED BY Zenon, <1>1, <1>2, <1>6, <1>9, <2>1, <2>2, <2>3 DEF e
<1> QED BY Zenon, <1>3, <1>8, <1>9

LEMMA ClaimJ ==
  ASSUME IInv, IInv', JInv, NEW t \in Tasks, ClaimJudgeLease(t)
  PROVE  JInv'
<1> DEFINE e == task[t].run.exec
<1>1. /\ task[t].kind = "stage" /\ task[t].pc = "unstarted" /\ e \in Execs
      /\ UNCHANGED <<wf, committed>> /\ Busy(t)
  BY Zenon, ClaimFacts DEF Busy
<1>2. CASE /\ UNCHANGED <<sub, exec>>
           /\ \E out \in {"obsolete", "cleanup"} : task' = [task EXCEPT ![t] = Ended(t, out)]
  BY Zenon, <1>1, <1>2, QuietUnchanged, PlainAnswerJ
<1>3. ASSUME exec[e].state \in Unfinished,
             NEW k, exec'[e].state = "running",
             exec'[e].epoch = exec[e].epoch, exec'[e].stages = exec[e].stages,
             exec'[e].rejudge = exec[e].rejudge, exec'[e].oldStatus = exec[e].oldStatus,
             exec'[e].oldScore = exec[e].oldScore,
             \A i \in Execs : i # e => exec'[i] = exec[i],
             task' = [task EXCEPT ![t] = [@ EXCEPT !.pc = "claimed", !.token = k]],
             \/ sub' = sub
             \/ /\ ~exec[e].rejudge /\ Owned(e)
                /\ sub'.status = "running" /\ sub'.gen = sub.gen /\ sub'.active = sub.active
                /\ sub'.score = sub.score /\ sub'.detail = sub.detail
      PROVE  JInv'
  <2> DEFINE x == [task[t] EXCEPT !.pc = "claimed", !.token = k]
  <2>1. task' = [task EXCEPT ![t] = x]
    BY <1>3
  <2>2. /\ x.pc = "claimed" /\ x.kind = task[t].kind /\ x.run = task[t].run
        /\ x.index = task[t].index /\ x.out = task[t].out
    BY TaskFacts, MovedTokenFields
  <2> HIDE DEF x
  <2>3. PcOk(x)
    BY <1>1, <2>2, TaskFacts DEF PcOk
  <2>4. SubmissionGo
    <3> HIDE DEF e
    <3>1. exec[e].state # "absent" /\ exec'[e].state # "absent"
      BY <1>3 DEF Unfinished
    <3>2. \A i \in Execs :
            /\ exec'[i].epoch = exec[i].epoch /\ exec'[i].rejudge = exec[i].rejudge
            /\ exec'[i].oldStatus = exec[i].oldStatus /\ exec'[i].oldScore = exec[i].oldScore
            /\ exec'[i].state = "absent" <=> exec[i].state = "absent"
      BY <1>1, <1>3, <3>1
    <3>3. CASE sub' = sub
      BY <1>1, <3>2, <3>3 DEF SubmissionGo
    <3>4. CASE sub' # sub
      BY <1>1, <1>3, <3>2, <3>4 DEF SubmissionGo, Owned
    <3> QED BY <3>3, <3>4
  <2>5. RowsQuiet
    BY <1>1, <1>3, <2>4 DEF RowsQuiet, Unfinished
  <2> QED BY Zenon, <1>1, <2>1, <2>2, <2>3, <2>5, PlainMoveJ
<1> QED BY Zenon, <1>2, <1>3, ClaimFacts

(* An activity of a stage or of a cleanup goes on. *)
LEMMA OnJ ==
  ASSUME IInv, IInv', JInv, NEW t \in Tasks,
         task[t].pc \in {"claimed", "executing", "save", "catch", "cleaning", "releasing"},
         NEW x, task' = [task EXCEPT ![t] = x],
         x.kind = task[t].kind, x.run = task[t].run, x.index = task[t].index,
         \/ x.pc \in {"catch", "releasing"}
         \/ /\ x.pc \in {"executing", "save"} /\ x.out = task[t].out
            /\ task[t].pc \in {"claimed", "executing"},
         RowsQuiet, UNCHANGED wf
  PROVE  JInv'
<1>1. Busy(t) /\ PcOk(task[t])
  BY TaskFacts DEF Busy
<1>2. PcOk(x) /\ x.kind # "complete"
  BY <1>1 DEF PcOk
<1> QED BY Zenon, <1>1, <1>2, PlainMoveJ

LEMMA PastLastStageFacts ==
  ASSUME IInv, JInv, NEW t \in Tasks, PastLastStage(t)
  PROVE  /\ task[t].kind = "stage" /\ task[t].pc = "claimed" /\ task[t].index >= NumStages
         /\ SetState(task[t].run, "finalizing") /\ task[t].run.exec \in Execs
         /\ \E x : /\ task' = [task EXCEPT ![t] = x]
                   /\ x.pc = "releasing" /\ x.kind = task[t].kind /\ x.run = task[t].run
                   /\ x.index = task[t].index /\ x.token = task[t].token /\ x.out = "finished"
                   /\ x.defer = task[t].defer
         /\ UNCHANGED <<wf, live, outbox, committed, scored>>
<1> DEFINE x == [task[t] EXCEPT !.pc = "releasing", !.out = "finished"]
<1>1. task' = [task EXCEPT ![t] = x]
  BY DEF PastLastStage
<1>2. /\ x.pc = "releasing" /\ x.kind = task[t].kind /\ x.run = task[t].run
      /\ x.index = task[t].index /\ x.token = task[t].token /\ x.out = "finished"
      /\ x.defer = task[t].defer
  BY TaskFacts, MovedFields
<1> HIDE DEF x
<1> QED BY Zenon, <1>1, <1>2, TaskFacts DEF PastLastStage, Busy

LEMMA PastLastStageJ ==
  ASSUME IInv, IInv', JInv, NEW t \in Tasks, PastLastStage(t)
  PROVE  JInv'
<1>1. RowsQuiet
  BY PastLastStageFacts, QuietSetState DEF Unfinished
<1> QED BY <1>1, PastLastStageFacts, OnJ

LEMMA StartSandboxFacts ==
  ASSUME IInv, JInv, NEW t \in Tasks, StartSandbox(t)
  PROVE  /\ task[t].kind = "stage" /\ task[t].pc = "claimed"
         /\ live' = live \cup {task[t].token}
         /\ \E x : /\ task' = [task EXCEPT ![t] = x]
                   /\ x.pc = "executing" /\ x.kind = task[t].kind /\ x.run = task[t].run
                   /\ x.index = task[t].index /\ x.token = task[t].token /\ x.out = task[t].out
                   /\ x.defer = task[t].defer
         /\ UNCHANGED <<sub, exec, wf, outbox, committed, scored>>
<1> DEFINE x == [task[t] EXCEPT !.pc = "executing"]
<1>1. task' = [task EXCEPT ![t] = x]
  BY DEF StartSandbox
<1>2. /\ x.pc = "executing" /\ x.kind = task[t].kind /\ x.run = task[t].run
      /\ x.index = task[t].index /\ x.token = task[t].token /\ x.out = task[t].out
      /\ x.defer = task[t].defer
  BY TaskFacts, MovedFields
<1> HIDE DEF x
<1> QED BY Zenon, <1>1, <1>2 DEF StartSandbox

LEMMA SandboxRanFacts ==
  ASSUME IInv, JInv, NEW t \in Tasks, NEW defer \in BOOLEAN, SandboxRan(t, defer)
  PROVE  /\ task[t].pc = "executing"
         /\ live' = IF defer THEN live ELSE live \ {task[t].token}
         /\ \E x : /\ task' = [task EXCEPT ![t] = x]
                   /\ x.pc = "save" /\ x.kind = task[t].kind /\ x.run = task[t].run
                   /\ x.index = task[t].index /\ x.token = task[t].token /\ x.out = task[t].out
                   /\ x.defer = defer
         /\ UNCHANGED <<sub, exec, wf, outbox, committed, scored>>
<1> DEFINE x == [task[t] EXCEPT !.pc = "save", !.defer = defer]
<1>1. task' = [task EXCEPT ![t] = x]
  BY DEF SandboxRan
<1>2. /\ x.pc = "save" /\ x.kind = task[t].kind /\ x.run = task[t].run
      /\ x.index = task[t].index /\ x.token = task[t].token /\ x.out = task[t].out
      /\ x.defer = defer
  BY TaskFacts, MovedDeferFields
<1> HIDE DEF x
<1> QED BY Zenon, <1>1, <1>2 DEF SandboxRan

(* StageFails, CatchCleanup and CleanupStage. *)
Fails(t, confirmed) == StageFails(t, confirmed) \/ CatchCleanup(t, confirmed) \/ CleanupStage(t, confirmed)

LEMMA FailsFacts ==
  ASSUME IInv, JInv, NEW t \in Tasks, NEW confirmed \in BOOLEAN, Fails(t, confirmed)
  PROVE  /\ task[t].pc \in {"claimed", "executing", "catch", "cleaning"}
         /\ \/ /\ confirmed /\ live' = live \ {task[t].token}
               /\ \E x : /\ task' = [task EXCEPT ![t] = x]
                         /\ x.pc = "releasing" /\ x.kind = task[t].kind /\ x.run = task[t].run
                         /\ x.index = task[t].index /\ x.token = task[t].token
                         /\ x.out \in {"failed", "ok"} /\ x.defer = task[t].defer
            \/ ~confirmed /\ UNCHANGED live /\ task' = [task EXCEPT ![t] = Ended(t, "failed")]
         /\ UNCHANGED <<sub, exec, wf, outbox, committed, scored>>
<1> DEFINE x(out) == [task[t] EXCEPT !.pc = "releasing", !.out = out]
<1>1. /\ task[t].pc \in {"claimed", "executing", "catch", "cleaning"}
      /\ \/ /\ confirmed /\ live' = live \ {task[t].token}
            /\ \E out \in {"failed", "ok"} : task' = [task EXCEPT ![t] = x(out)]
         \/ ~confirmed /\ UNCHANGED live /\ task' = [task EXCEPT ![t] = Ended(t, "failed")]
      /\ UNCHANGED <<sub, exec, wf, outbox, committed, scored>>
  BY DEF Fails, StageFails, CatchCleanup, CleanupStage
<1>2. \A out : /\ x(out).pc = "releasing" /\ x(out).kind = task[t].kind /\ x(out).run = task[t].run
               /\ x(out).index = task[t].index /\ x(out).token = task[t].token /\ x(out).out = out
               /\ x(out).defer = task[t].defer
  BY TaskFacts, MovedFields
<1> HIDE DEF x
<1> QED BY <1>1, <1>2

LEMMA SandboxJ ==
  ASSUME IInv, IInv', JInv, NEW t \in Tasks,
         \/ StartSandbox(t)
         \/ \E b \in BOOLEAN : SandboxRan(t, b) \/ Fails(t, b)
  PROVE  JInv'
<1>1. CASE StartSandbox(t)
  BY <1>1, StartSandboxFacts, QuietUnchanged, OnJ
<1>2. ASSUME NEW b \in BOOLEAN, SandboxRan(t, b) PROVE JInv'
  BY <1>2, SandboxRanFacts, QuietUnchanged, OnJ
<1>3. ASSUME NEW b \in BOOLEAN, Fails(t, b) PROVE JInv'
  <2>1. RowsQuiet /\ UNCHANGED wf /\ Busy(t)
    BY <1>3, FailsFacts, QuietUnchanged DEF Busy
  <2> QED BY <1>3, <2>1, FailsFacts, OnJ, PlainAnswerJ
<1> QED BY <1>1, <1>2, <1>3

LEMMA SaveFacts ==
  ASSUME IInv, JInv, NEW t \in Tasks, NEW compiled \in BOOLEAN, SaveJudgeStage(t, compiled)
  PROVE  LET e == task[t].run.exec
         IN /\ task[t].pc = "save" /\ e \in Execs
            /\ \/ /\ HoldsLease(t) /\ NextCheckpoint(t)
                  /\ exec[e].state \in Unfinished
                  /\ exec'[e].state = IF Final(t, compiled) THEN "finalizing" ELSE "queued"
                  /\ exec'[e].epoch = exec[e].epoch /\ exec'[e].stages = exec[e].stages + 1
                  /\ exec'[e].lease = IF task[t].defer THEN exec[e].lease ELSE NoToken
                  /\ exec'[e].rejudge = exec[e].rejudge
                  /\ exec'[e].oldStatus = exec[e].oldStatus
                  /\ exec'[e].oldScore = exec[e].oldScore
                  /\ \A i \in Execs : i # e => exec'[i] = exec[i]
                  /\ task' = [task EXCEPT ![t] = Ended(t, IF Final(t, compiled) THEN "finished" ELSE "saved")]
               \/ /\ UNCHANGED exec
                  /\ \E x : /\ task' = [task EXCEPT ![t] = x]
                            /\ x.pc = "catch" /\ x.kind = task[t].kind /\ x.run = task[t].run
                            /\ x.index = task[t].index /\ x.token = task[t].token
                            /\ x.out = task[t].out /\ x.defer = task[t].defer
            /\ UNCHANGED <<sub, wf, live, outbox, committed, scored>>
<1> DEFINE e == task[t].run.exec
           row == Checkpointed(exec[e], Final(t, compiled), task[t].defer)
           x == [task[t] EXCEPT !.pc = "catch"]
<1>1. /\ task[t].pc = "save" /\ UNCHANGED <<sub, wf, live, outbox, committed, scored>>
      /\ \/ /\ HoldsLease(t) /\ NextCheckpoint(t)
            /\ exec' = [exec EXCEPT ![e] = row]
            /\ task' = [task EXCEPT ![t] = Ended(t, IF Final(t, compiled) THEN "finished" ELSE "saved")]
         \/ UNCHANGED exec /\ task' = [task EXCEPT ![t] = x]
  BY DEF SaveJudgeStage
<1>2. e \in Execs /\ exec[e].state # "absent" /\ exec[e] \in ExecutionRow
  BY <1>1, TaskFacts DEF Busy, IInv, TypeOK
<1>3. HoldsLease(t) => exec[e].state \in Unfinished
  <2>1. task[t].token \in Tokens /\ NoToken \notin Tokens
    BY <1>1, ParameterAssumption DEF IInv, FenceInv, StagesHaveLeases
  <2>2. HoldsLease(t) => exec[e].state # "completed" /\ exec[e].state # "cancelled"
    BY <1>2, <2>1 DEF IInv, FenceInv, CompletedIsFenced, HoldsLease
  <2> QED BY <1>2, <2>2 DEF ExecutionRow, Terminal
<1>4. /\ x.pc = "catch" /\ x.kind = task[t].kind /\ x.run = task[t].run
      /\ x.index = task[t].index /\ x.token = task[t].token
      /\ x.out = task[t].out /\ x.defer = task[t].defer
  BY TaskFacts, MovedFields
<1>5. /\ row.state = IF Final(t, compiled) THEN "finalizing" ELSE "queued"
      /\ row.epoch = exec[e].epoch /\ row.stages = exec[e].stages + 1
      /\ row.lease = IF task[t].defer THEN exec[e].lease ELSE NoToken
      /\ row.rejudge = exec[e].rejudge /\ row.oldStatus = exec[e].oldStatus
      /\ row.oldScore = exec[e].oldScore
  BY <1>2 DEF Checkpointed, ExecutionRow
<1> HIDE DEF row, x
<1>6. exec' = [exec EXCEPT ![e] = row] => exec'[e] = row /\ \A i \in Execs : i # e => exec'[i] = exec[i]
  BY <1>2 DEF IInv, TypeOK
<1> HIDE DEF e
<1>7. CASE /\ HoldsLease(t) /\ NextCheckpoint(t)
           /\ exec' = [exec EXCEPT ![e] = row]
           /\ task' = [task EXCEPT ![t] = Ended(t, IF Final(t, compiled) THEN "finished" ELSE "saved")]
  BY <1>1, <1>2, <1>3, <1>5, <1>6, <1>7 DEF e
<1>8. CASE UNCHANGED exec /\ task' = [task EXCEPT ![t] = x]
  BY Zenon, <1>1, <1>2, <1>4, <1>8 DEF e
<1> QED BY <1>1, <1>7, <1>8

LEMMA SaveJ ==
  ASSUME IInv, IInv', JInv, NEW t \in Tasks, NEW compiled \in BOOLEAN, SaveJudgeStage(t, compiled)
  PROVE  JInv'
<1> DEFINE e == task[t].run.exec
<1>1. /\ task[t].pc = "save" /\ e \in Execs /\ UNCHANGED <<sub, wf, committed>> /\ Busy(t)
  BY SaveFacts DEF Busy
<1>2. task[t].kind = "stage"
  BY <1>1, TaskFacts DEF PcOk
<1>3. CASE UNCHANGED exec /\ \E x : /\ task' = [task EXCEPT ![t] = x]
                                   /\ x.pc = "catch" /\ x.kind = task[t].kind
                                   /\ x.run = task[t].run /\ x.index = task[t].index
  BY Zenon, <1>1, <1>3, QuietUnchanged, OnJ
<1>4. ASSUME exec[e].state \in Unfinished, exec'[e].state \in Unfinished,
             exec'[e].epoch = exec[e].epoch, exec'[e].stages = exec[e].stages + 1,
             exec'[e].rejudge = exec[e].rejudge, exec'[e].oldStatus = exec[e].oldStatus,
             exec'[e].oldScore = exec[e].oldScore,
             \A i \in Execs : i # e => exec'[i] = exec[i],
             NEW out, task' = [task EXCEPT ![t] = Ended(t, out)]
      PROVE  JInv'
  <2>1. ActivityGo(t)
    BY Zenon, <1>1, <1>2, <1>4, AnswerGo
  <2> HIDE DEF e
  <2>2. \A i \in Execs : /\ exec'[i].epoch = exec[i].epoch /\ exec'[i].stages >= exec[i].stages
                         /\ exec[i].state \in Unfinished => exec'[i].state \in Unfinished
                         /\ exec[i].state \notin Unfinished => exec'[i].state = exec[i].state
                         /\ exec'[i].rejudge = exec[i].rejudge
                         /\ exec'[i].oldStatus = exec[i].oldStatus
                         /\ exec'[i].oldScore = exec[i].oldScore
    BY <1>1, <1>4, IndexesAreNatural
  <2>3. \A i \in Execs : RowGo(i) /\ (exec'[i].state = "completed" => exec[i].state = "completed")
    BY <2>2 DEF RowGo, Unfinished, Terminal
  <2>4. SubmissionGo
    BY <1>1, <2>2 DEF SubmissionGo, Unfinished
  <2> QED BY <1>1, <2>1, <2>2, <2>3, <2>4, OwnerStays, ActivityKeeps DEF JInv
<1> QED BY <1>1, <1>3, <1>4, SaveFacts DEF Unfinished

LEMMA ReleaseJ ==
  ASSUME IInv, IInv', JInv, NEW t \in Tasks, ReleaseJudgeStage(t)
  PROVE  JInv'
<1>1. /\ exec' = Released(task[t].run, task[t].token)
      /\ task' = [task EXCEPT ![t] = Ended(t, task[t].out)]
      /\ UNCHANGED <<sub, wf, committed>> /\ task[t].pc = "releasing" /\ Busy(t)
  BY DEF ReleaseJudgeStage, Busy
<1>2. task[t].kind # "complete"
  BY <1>1, TaskFacts DEF PcOk
<1> QED BY Zenon, <1>1, <1>2, QuietReleased, PlainAnswerJ

LEMMA PreflightFacts ==
  ASSUME IInv, JInv, NEW t \in Tasks, CompletePreflight(t)
  PROVE  /\ task[t].pc = "preflight" /\ task[t].kind = "complete" /\ Busy(t)
         /\ task[t].run.exec \in Execs
         /\ \/ ~StillOwner(t) /\ task' = [task EXCEPT ![t] = Ended(t, "null")]
            \/ /\ StillOwner(t) /\ sub.active = NoRun /\ sub.detail = task[t].run.exec
               /\ task' = [task EXCEPT ![t] = Ended(t, "ok")]
            \/ /\ StillOwner(t) /\ ~(sub.active = NoRun /\ sub.detail = task[t].run.exec)
               /\ \E x : /\ task' = [task EXCEPT ![t] = x]
                         /\ x.pc = "guard" /\ x.kind = task[t].kind /\ x.run = task[t].run
                         /\ x.index = task[t].index /\ x.token = task[t].token
                         /\ x.out = task[t].out
         /\ UNCHANGED <<sub, exec, wf, live, outbox, committed, scored>>
<1> DEFINE x == [task[t] EXCEPT !.pc = "guard"]
           known == sub.active = NoRun /\ sub.detail = task[t].run.exec
<1>1. /\ task[t].pc = "preflight"
      /\ UNCHANGED <<sub, exec, wf, live, outbox, committed, scored>>
  BY DEF CompletePreflight
<1>2. \/ ~StillOwner(t) /\ task' = [task EXCEPT ![t] = Ended(t, "null")]
      \/ StillOwner(t) /\ known /\ task' = [task EXCEPT ![t] = Ended(t, "ok")]
      \/ StillOwner(t) /\ ~known /\ task' = [task EXCEPT ![t] = x]
  <2> DEFINE owner == StillOwner(t)
             okNext == Ended(t, "ok")
             nullNext == Ended(t, "null")
  <2>1. task' = [task EXCEPT ![t] = CASE ~owner -> nullNext [] owner /\ known -> okNext
                                      [] OTHER -> x]
    BY DEF CompletePreflight
  <2>2. owner \in BOOLEAN /\ known \in BOOLEAN
    BY DEF StillOwner
  <2> HIDE DEF owner, known, okNext, nullNext, x
  <2>3. /\ ~owner => (CASE ~owner -> nullNext [] owner /\ known -> okNext [] OTHER -> x) = nullNext
        /\ owner /\ known =>
             (CASE ~owner -> nullNext [] owner /\ known -> okNext [] OTHER -> x) = okNext
        /\ owner /\ ~known =>
             (CASE ~owner -> nullNext [] owner /\ known -> okNext [] OTHER -> x) = x
    BY <2>2
  <2>4. \/ ~owner /\ task' = [task EXCEPT ![t] = nullNext]
        \/ owner /\ known /\ task' = [task EXCEPT ![t] = okNext]
        \/ owner /\ ~known /\ task' = [task EXCEPT ![t] = x]
    BY Zenon, <2>1, <2>2, <2>3
  <2> QED BY <2>4 DEF owner, okNext, nullNext
<1>3. /\ x.pc = "guard" /\ x.kind = task[t].kind /\ x.run = task[t].run
      /\ x.index = task[t].index /\ x.token = task[t].token /\ x.out = task[t].out
  BY TaskFacts, MovedFields
<1>4. task[t].kind = "complete" /\ Busy(t) /\ task[t].run.exec \in Execs
  BY <1>1, TaskFacts DEF PcOk, Busy
<1> HIDE DEF x
<1> QED BY <1>1, <1>2, <1>3, <1>4

LEMMA PreflightJ ==
  ASSUME IInv, IInv', JInv, NEW t \in Tasks, CompletePreflight(t)
  PROVE  JInv'
<1>1. /\ task[t].pc = "preflight" /\ task[t].kind = "complete" /\ Busy(t)
      /\ task[t].run.exec \in Execs /\ UNCHANGED <<sub, exec, wf, committed>>
  BY PreflightFacts
<1>2. RowsQuiet /\ \A f \in Execs : Settled(f) => Settled(f)'
  BY <1>1, QuietUnchanged, QuietGo
<1>3. CASE ~StillOwner(t) /\ task' = [task EXCEPT ![t] = Ended(t, "null")]
  <2>1. Awaited(t) => Settled(task[t].run.exec)
    BY <1>1, <1>3, NoOwnerIsSettled
  <2>2. ActivityGo(t)
    BY Zenon, <1>1, <1>2, <1>3, <2>1, AnswerGo
  <2> QED BY <1>2, <2>2, ActivityQuietJ
<1>4. CASE /\ sub.active = NoRun /\ sub.detail = task[t].run.exec
           /\ task' = [task EXCEPT ![t] = Ended(t, "ok")]
  <2>1. task[t].run.exec \in committed
    BY <1>1, <1>4, ParameterAssumption DEF JInv, OwnerInv, Execs
  <2>2. ActivityGo(t)
    BY Zenon, <1>1, <1>4, <2>1, AnswerGo
  <2> QED BY <1>2, <2>2, ActivityQuietJ
<1>5. CASE \E x : /\ task' = [task EXCEPT ![t] = x]
                  /\ x.pc = "guard" /\ x.kind = task[t].kind /\ x.run = task[t].run
                  /\ x.index = task[t].index /\ x.out = task[t].out
  <2>1. PICK x : /\ task' = [task EXCEPT ![t] = x]
                 /\ x.pc = "guard" /\ x.kind = task[t].kind /\ x.run = task[t].run
                 /\ x.index = task[t].index /\ x.out = task[t].out
    BY Zenon, <1>5
  <2>2. PcOk(x) /\ x.out = "none"
    BY <1>1, <2>1, TaskFacts DEF PcOk
  <2> QED BY Zenon, <1>1, <1>2, <2>1, <2>2, PlainMoveJ
<1> QED BY <1>3, <1>4, <1>5, PreflightFacts

LEMMA GuardFacts ==
  ASSUME IInv, JInv, NEW t \in Tasks, GuardVerdict(t)
  PROVE  /\ task[t].pc = "guard" /\ task[t].kind = "complete" /\ Busy(t)
         /\ task[t].run.exec \in Execs
         /\ \/ /\ sub.active = task[t].run
               /\ \A i \in Execs : SameRow(i) /\ exec'[i].state = exec[i].state
               /\ \E x : /\ task' = [task EXCEPT ![t] = x]
                         /\ x.pc = "commit" /\ x.kind = task[t].kind /\ x.run = task[t].run
                         /\ x.index = task[t].index /\ x.token = task[t].token
                         /\ x.out = task[t].out
            \/ UNCHANGED exec /\ task' = [task EXCEPT ![t] = Ended(t, "failed")]
            \/ /\ UNCHANGED exec /\ sub.active # task[t].run
               /\ task' = [task EXCEPT ![t] = Ended(t, "null")]
         /\ UNCHANGED <<sub, wf, live, outbox, committed, scored>>
<1> DEFINE e == task[t].run.exec
           x == [task[t] EXCEPT !.pc = "commit"]
           row == [exec[e] EXCEPT !.guarded = TRUE]
<1>1. /\ task[t].pc = "guard"
      /\ \/ /\ sub.active = task[t].run /\ exec' = [exec EXCEPT ![e] = row]
            /\ task' = [task EXCEPT ![t] = x]
         \/ UNCHANGED exec /\ task' = [task EXCEPT ![t] = Ended(t, "failed")]
         \/ /\ UNCHANGED exec /\ sub.active # task[t].run
            /\ task' = [task EXCEPT ![t] = Ended(t, "null")]
      /\ UNCHANGED <<sub, wf, live, outbox, committed, scored>>
  BY DEF GuardVerdict
<1>2. task[t].kind = "complete" /\ Busy(t) /\ e \in Execs
  BY <1>1, TaskFacts DEF PcOk, Busy
<1>3. /\ x.pc = "commit" /\ x.kind = task[t].kind /\ x.run = task[t].run
      /\ x.index = task[t].index /\ x.token = task[t].token /\ x.out = task[t].out
  BY TaskFacts, MovedFields
<1>4. /\ row.state = exec[e].state /\ row.epoch = exec[e].epoch /\ row.lease = exec[e].lease
      /\ row.stages = exec[e].stages /\ row.rejudge = exec[e].rejudge
      /\ row.oldStatus = exec[e].oldStatus /\ row.oldScore = exec[e].oldScore
  BY <1>2 DEF IInv, TypeOK, ExecutionRow
<1> HIDE DEF x, row
<1>5. exec' = [exec EXCEPT ![e] = row] =>
        \A i \in Execs : SameRow(i) /\ exec'[i].state = exec[i].state
  BY <1>2, <1>4 DEF IInv, TypeOK, SameRow
<1> QED BY <1>1, <1>2, <1>3, <1>5

LEMMA GuardJ ==
  ASSUME IInv, IInv', JInv, NEW t \in Tasks, GuardVerdict(t)
  PROVE  JInv'
<1>1. /\ task[t].pc = "guard" /\ task[t].kind = "complete" /\ Busy(t)
      /\ task[t].run.exec \in Execs /\ UNCHANGED <<sub, wf, committed>>
  BY GuardFacts
<1>2. RowsQuiet /\ \A f \in Execs : Settled(f) => Settled(f)'
  BY <1>1, GuardFacts, QuietUnchanged, TimedRowsQuiet, QuietGo DEF SameRow
<1>3. CASE task' = [task EXCEPT ![t] = Ended(t, "failed")]
  BY Zenon, <1>1, <1>2, <1>3, PlainAnswerJ
<1>4. CASE sub.active # task[t].run /\ task' = [task EXCEPT ![t] = Ended(t, "null")]
  <2>1. Awaited(t) => Settled(task[t].run.exec)
    BY <1>1, <1>4, NotMineIsSettled
  <2>2. ActivityGo(t)
    BY Zenon, <1>1, <1>2, <1>4, <2>1, AnswerGo
  <2> QED BY <1>2, <2>2, ActivityQuietJ
<1>5. CASE \E x : /\ task' = [task EXCEPT ![t] = x]
                  /\ x.pc = "commit" /\ x.kind = task[t].kind /\ x.run = task[t].run
                  /\ x.index = task[t].index /\ x.out = task[t].out
  <2>1. PICK x : /\ task' = [task EXCEPT ![t] = x]
                 /\ x.pc = "commit" /\ x.kind = task[t].kind /\ x.run = task[t].run
                 /\ x.index = task[t].index /\ x.out = task[t].out
    BY Zenon, <1>5
  <2>2. PcOk(x) /\ x.out = "none"
    BY <1>1, <2>1, TaskFacts DEF PcOk
  <2> QED BY Zenon, <1>1, <1>2, <2>1, <2>2, PlainMoveJ
<1> QED BY <1>3, <1>4, <1>5, GuardFacts

LEMMA CommitFacts ==
  ASSUME IInv, JInv, NEW t \in Tasks, CompleteJudge(t)
  PROVE  LET e == task[t].run.exec
         IN /\ task[t].pc = "commit" /\ task[t].kind = "complete" /\ Busy(t) /\ e \in Execs
            /\ \/ /\ sub.active = task[t].run /\ sub.active # NoRun /\ e = sub.gen
                  /\ task[t].run = This(e) /\ exec[e].state \in Unfinished /\ e \notin committed
                  /\ sub'.gen = sub.gen /\ sub'.active = NoRun /\ sub'.status = "verdict"
                  /\ sub'.score = e /\ sub'.detail = e
                  /\ committed' = committed \cup {e}
                  /\ task' = [task EXCEPT ![t] = Ended(t, "ok")]
               \/ /\ sub.active # task[t].run /\ UNCHANGED <<sub, committed>>
                  /\ task' = [task EXCEPT ![t] = Ended(t, "null")]
            /\ UNCHANGED <<exec, wf, live, outbox, scored>>
<1> DEFINE e == task[t].run.exec
           shown == [sub EXCEPT !.active = NoRun, !.status = "verdict", !.score = e, !.detail = e]
<1>1. /\ task[t].pc = "commit"
      /\ \/ /\ sub.active = task[t].run /\ sub' = shown /\ committed' = committed \cup {e}
            /\ task' = [task EXCEPT ![t] = Ended(t, "ok")]
         \/ /\ sub.active # task[t].run /\ UNCHANGED <<sub, committed>>
            /\ task' = [task EXCEPT ![t] = Ended(t, "null")]
      /\ UNCHANGED <<exec, wf, live, outbox, scored>>
  BY DEF CompleteJudge
<1>2. task[t].kind = "complete" /\ Busy(t) /\ e \in Execs
  BY <1>1, TaskFacts DEF PcOk, Busy
<1>3. /\ shown.gen = sub.gen /\ shown.active = NoRun /\ shown.status = "verdict"
      /\ shown.score = e /\ shown.detail = e
  BY DEF IInv, TypeOK, SubmissionRow
<1> HIDE DEF shown
<1>4. ASSUME sub.active = task[t].run
      PROVE  /\ sub.active # NoRun /\ e = sub.gen /\ task[t].run = This(e)
             /\ exec[e].state \in Unfinished /\ e \notin committed
  <2>1. NoRun.exec = 0 /\ e # 0
    BY <1>2, ParameterAssumption DEF NoRun, Run, Execs
  <2>2. sub.active # NoRun
    BY <1>4, <2>1
  <2>3. /\ sub.active = This(sub.gen) /\ This(sub.gen).exec = sub.gen
        /\ exec[sub.gen].state \in Unfinished /\ sub.gen \notin committed
    BY <2>2 DEF JInv, OwnerInv, This, Run
  <2>4. e = sub.gen
    BY <1>4, <2>3
  <2> QED BY <1>4, <2>2, <2>3, <2>4
<1> QED BY <1>1, <1>2, <1>3, <1>4

LEMMA CompleteJ ==
  ASSUME IInv, IInv', JInv, NEW t \in Tasks, CompleteJudge(t)
  PROVE  JInv'
<1> DEFINE e == task[t].run.exec
<1>1. /\ task[t].kind = "complete" /\ Busy(t) /\ e \in Execs
      /\ UNCHANGED <<exec, wf>> /\ committed \subseteq committed'
  BY CommitFacts
<1>2. \A i \in Execs : RowGo(i) /\ (exec'[i].state = "completed" => exec[i].state = "completed")
  BY <1>1, IndexesAreNatural DEF RowGo
<1>3. \A f \in Execs : Settled(f) => Settled(f)'
  BY <1>1, <1>2, SettledStays
<1>4. CASE UNCHANGED <<sub, committed>> /\ sub.active # task[t].run
           /\ task' = [task EXCEPT ![t] = Ended(t, "null")]
  <2>1. Awaited(t) => Settled(task[t].run.exec)
    BY <1>1, <1>4, NotMineIsSettled
  <2>2. ActivityGo(t)
    BY Zenon, <1>1, <1>3, <1>4, <2>1, AnswerGo
  <2>3. RowsQuiet
    BY <1>1, <1>4, QuietUnchanged
  <2> QED BY <2>2, <2>3, ActivityQuietJ
<1>5. ASSUME e = sub.gen, sub'.gen = sub.gen, sub'.active = NoRun, sub'.status = "verdict",
             sub'.score = e, sub'.detail = e, committed' = committed \cup {e},
             task' = [task EXCEPT ![t] = Ended(t, "ok")]
      PROVE  JInv'
  <2>1. ActivityGo(t)
    BY Zenon, <1>1, <1>5, AnswerGo
  <2>2. SlotInv' /\ SettledInv'
    BY <1>1, <1>2, <2>1, ActivityKeeps
  <2> HIDE DEF e
  <2>3. ResultStaysVisible'
    BY <1>1, <1>5 DEF ResultStaysVisible
  <2>4. \A i \in committed' : i <= sub'.gen
    BY <1>1, <1>5, ParameterAssumption DEF JInv, OwnerInv, Execs
  <2>5. OwnerInv'
    BY <1>1, <1>5, <2>3, <2>4 DEF JInv, OwnerInv
  <2> QED BY <2>2, <2>5 DEF JInv
<1> QED BY <1>4, <1>5, CommitFacts

LEMMA StorageFailsJ ==
  ASSUME IInv, IInv', JInv, NEW t \in Tasks, StorageFails(t)
  PROVE  JInv'
<1> DEFINE x == [task[t] EXCEPT !.pc = "catch"]
<1>1. /\ task[t].pc \in {"save", "preflight", "guard", "commit"} /\ Busy(t)
      /\ \/ task[t].pc = "save" /\ task' = [task EXCEPT ![t] = x]
         \/ task' = [task EXCEPT ![t] = Ended(t, "failed")]
      /\ UNCHANGED <<sub, exec, wf, committed>>
  BY Zenon DEF StorageFails, Busy
<1>2. /\ x.pc = "catch" /\ x.kind = task[t].kind /\ x.run = task[t].run
      /\ x.index = task[t].index
  BY TaskFacts, MovedFields
<1> HIDE DEF x
<1>3. RowsQuiet
  BY <1>1, QuietUnchanged
<1>4. CASE task[t].pc = "save" /\ task' = [task EXCEPT ![t] = x]
  BY Zenon, <1>1, <1>2, <1>3, <1>4, OnJ
<1>5. CASE task' = [task EXCEPT ![t] = Ended(t, "failed")]
  BY Zenon, <1>1, <1>3, <1>5, PlainAnswerJ
<1> QED BY <1>1, <1>4, <1>5

LEMMA CrashFacts ==
  ASSUME IInv, JInv, NEW t \in Tasks, WorkerCrash(t)
  PROVE  /\ Busy(t) /\ UNCHANGED <<sub, exec, wf, live, outbox, committed, scored>>
         /\ \E x : /\ task' = [task EXCEPT ![t] = x]
                   /\ x.pc \in {"done", "lost"} /\ x.out = "none"
                   /\ Awaited(t) => x.kind = task[t].kind
                   /\ x.run = NoRun /\ x.token = NoToken /\ PcOk(x)
<1> DEFINE lost == [FreeTask EXCEPT !.kind = task[t].kind, !.pc = "lost"]
<1>1. /\ task[t].kind # "free" /\ task[t].pc \notin {"done", "lost"}
      /\ task' = [task EXCEPT ![t] = IF Awaited(t) THEN lost ELSE FreeTask]
      /\ UNCHANGED <<sub, exec, wf, live, outbox, committed, scored>>
  BY DEF WorkerCrash
<1>2. /\ lost.pc = "lost" /\ lost.kind = task[t].kind /\ lost.out = "none"
      /\ lost.run = NoRun /\ lost.token = NoToken
      /\ FreeTask.pc = "done" /\ FreeTask.out = "none" /\ FreeTask.run = NoRun
      /\ FreeTask.token = NoToken
  BY DEF FreeTask
<1> HIDE DEF lost
<1>3. PcOk(lost) /\ PcOk(FreeTask)
  BY <1>1, <1>2 DEF PcOk
<1> QED BY Zenon, <1>1, <1>2, <1>3 DEF Busy

LEMMA CrashJ ==
  ASSUME IInv, IInv', JInv, NEW t \in Tasks, WorkerCrash(t)
  PROVE  JInv'
<1>1. Busy(t) /\ UNCHANGED <<sub, exec, wf, committed>>
  BY CrashFacts
<1>2. ActivityGo(t)
  <2>1. PICK x : /\ task' = [task EXCEPT ![t] = x]
                 /\ x.pc \in {"done", "lost"} /\ x.out = "none"
                 /\ Awaited(t) => x.kind = task[t].kind
                 /\ PcOk(x)
    BY CrashFacts
  <2>2. task'[t] = x /\ \A u \in Tasks : u # t => task'[u] = task[u]
    BY Zenon, <2>1, TaskAt
  <2> QED BY <1>1, <2>1, <2>2 DEF ActivityGo, Busy
<1> QED BY <1>1, <1>2, QuietUnchanged, ActivityQuietJ

-----------------------------------------------------------------------------
LEMMA InitJ == Init => JInv
<1> SUFFICES ASSUME Init PROVE JInv
  OBVIOUS
<1>1. /\ \A e \in Execs : exec[e].state = "absent" /\ wf[e] = NoWorkflow /\ ~exec[e].rejudge
      /\ \A e \in Execs : exec[e].epoch = 0 /\ exec[e].stages = 0
      /\ \A t \in Tasks : task[t] = FreeTask
      /\ sub.gen = 0 /\ sub.active = NoRun /\ sub.status = "pending_upload"
      /\ sub.score = 0 /\ sub.detail = 0 /\ committed = {}
  BY DEF Init, NewExecution
<1>2. /\ NoWorkflow.pc = "none" /\ NoWorkflow.idx = 0 /\ ~NoWorkflow.published
      /\ NoWorkflow.task = NoTask /\ NoWorkflow.cleaner = NoTask
      /\ FreeTask.kind = "free" /\ FreeTask.pc = "done"
  BY DEF NoWorkflow, FreeTask
<1>3. \A e \in Execs : e > 0
  BY ParameterAssumption DEF Execs
<1>4. SlotInv
  BY <1>1, <1>2 DEF SlotInv, SlotOk, TaskOk, PcOk, Busy, Slots
<1>5. OwnerInv
  BY <1>1, <1>3 DEF OwnerInv, ResultStaysVisible
<1>6. SettledInv
  BY <1>1, <1>2 DEF SettledInv, SettledOk, PastPublish, CompletedHasVerdict
<1> QED BY <1>4, <1>5, <1>6 DEF JInv

LEMMA WorkflowStepsJ ==
  ASSUME IInv, IInv', JInv, NEW e \in Execs, WorkflowStep(e) \/ WorkflowFault(e)
  PROVE  JInv'
<1>1. CASE WorkflowStep(e)
  BY Zenon, <1>1, ReadStatusJ, ReconcileCheckJ, ReconcileStageJ, SetBlockedJ, StageAnsweredJ,
     CompleteAnsweredJ, ApplyEffectsJ, AwaitCleanupJ, FinishJ, RecoverJ,
     QueueStageJ, StartCompleteJ DEF WorkflowStep
<1>2. CASE WorkflowFault(e)
  BY Zenon, <1>2, StageTimedOutJ, CompleteTimedOutJ, ActivityFailsJ, ReconcileStageJ,
     FinishJ, RecoverJ DEF WorkflowFault
<1> QED BY <1>1, <1>2

LEMMA TaskStepsJ ==
  ASSUME IInv, IInv', JInv, NEW t \in Tasks, TaskStep(t) \/ TaskFault(t)
  PROVE  JInv'
<1>1. CASE TaskStep(t)
  BY Zenon, <1>1, ClaimJ, PastLastStageJ, SandboxJ, ReleaseJ, PreflightJ, GuardJ, CompleteJ, SaveJ
  DEF TaskStep, Fails
<1>2. CASE TaskFault(t)
  BY Zenon, <1>2, CrashJ, StorageFailsJ, SandboxJ DEF TaskFault, Fails
<1> QED BY <1>1, <1>2

LEMMA InductiveJ == IInv /\ JInv /\ [Next]_vars => JInv'
<1> SUFFICES ASSUME IInv, JInv, [Next]_vars PROVE JInv'
  OBVIOUS
<1>0. IInv'
  BY Inductive
<1>1. CASE Accept \/ Rejudge
  BY Zenon, <1>0, <1>1, CreateJ DEF Accept, Rejudge
<1>2. ASSUME NEW e \in Execs,
             \/ CancelRejudge(e) \/ Dispatch(e, TRUE) \/ Dispatch(e, FALSE)
             \/ Redispatch(e) \/ TerminateStalled(e) \/ NewEpoch(e)
             \/ CleanupTerminal(e) \/ LeaseLapses(e)
      PROVE  JInv'
  BY Zenon, <1>0, <1>2, CancelJ, DispatchJ, RowStepsJ, TerminateJ, NewEpochJ
<1>3. CASE UNCHANGED vars
  BY <1>0, <1>3, JUnchanged DEF vars
<1>4. ASSUME NEW t \in Tasks, HeartbeatJudgeStage(t) PROVE JInv'
  <2>1. 1 \in Execs
    BY ParameterAssumption DEF Execs
  <2> QED BY <1>0, <1>4, <2>1, RowStepsJ
<1>5. ASSUME NEW k \in Tokens, ResourcesExpire(k) PROVE JInv'
  BY <1>0, <1>5, JUnchanged DEF ResourcesExpire
<1> QED BY Zenon, <1>0, <1>1, <1>2, <1>3, <1>4, <1>5, WorkflowStepsJ, TaskStepsJ DEF Next

LEMMA InvarianceJ == Spec => [](IInv /\ JInv)
BY InitIInv, InitJ, Inductive, InductiveJ, PTL DEF Spec

(* No execution is completed without its verdict. *)
THEOREM VerdictBeforeCompletion == Spec => []CompletedHasVerdict
<1>1. JInv => CompletedHasVerdict
  BY DEF JInv, SettledInv
<1> QED BY <1>1, InvarianceJ, PTL

(* The old result stays visible. *)
THEOREM ResultIsVisible == Spec => []ResultStaysVisible
<1>1. JInv => ResultStaysVisible
  BY DEF JInv, OwnerInv
<1> QED BY <1>1, InvarianceJ, PTL

-----------------------------------------------------------------------------
(***************************************************************************)
(* What finalizing means, as long as no late claim takes it back: FinalInv. *)
(* Every step is looked at once more; the facts about it are those above.  *)
(***************************************************************************)

(* The execution is past its last stage. *)
Decided(e) == exec[e].state = "finalizing" \/ exec[e].state \in Terminal

(* An activity of the current epoch is committing the verdict of e. *)
Committing(t, e) == task[t].pc \in {"preflight", "guard", "commit"} /\ task[t].run = This(e)

Publishing(e) == e \in committed \/ \E t \in Tasks : Committing(t, e)

(* Where a workflow takes its execution for one that is still being judged. *)
Unpublished(w) == w.pc \in {"queue", "await"}
                  \/ (w.pc \in {"reconcile", "reconciling"} /\ ~w.fin /\ ~w.ended)

FinalOk(e) ==
  /\ wf[e].fin => Decided(e)
  /\ wf[e].ended =>
       /\ exec[e].state \in Terminal /\ ~wf[e].fin
       /\ wf[e].pc \in {"reconcile", "reconciling", "blocked"}
  /\ wf[e].pc \in {"publish", "completing", "effects"} => wf[e].fin
  /\ wf[e].pc \in {"closed", "queue", "await"} => ~wf[e].fin
  /\ wf[e].pc = "await" /\ task[wf[e].task].out = "finished" => Decided(e)
  /\ Publishing(e) => Decided(e)
  /\ Unpublished(wf[e]) => ~Publishing(e)
  /\ exec[e].state = "finalizing" => exec[e].stages > 0

Unstarted(t, e) == task[t].pc = "unstarted" /\ task[t].run = This(e)

(* The activity may still save the next checkpoint of e. *)
CanSave(t, e) ==
  /\ task[t].pc \in {"claimed", "executing", "save"}
  /\ task[t].run = This(e) /\ task[t].token = exec[e].lease
  /\ task[t].index = exec[e].stages /\ task[t].index < NumStages

FinalTask(t, e) ==
  /\ Unstarted(t, e) => ~Publishing(e) /\ (wf[e].task = t \/ wf[e].pc = "closed")
  /\ exec[e].state = "finalizing" => ~CanSave(t, e)

(* What holds as long as no late claim takes finalizing back. *)
FinalInv == \A e \in Execs : FinalOk(e) /\ \A t \in Tasks : FinalTask(t, e)

-----------------------------------------------------------------------------
(* Workflow e moves alone, with slots of its own. *)
WorkflowAlone(e) ==
  /\ \A f \in Execs : f # e => wf'[f] = wf[f] /\ exec'[f] = exec[f]
  /\ \A t \in Tasks : SlotGo(e, t)
  /\ committed' = committed

(* What every step but the dispatch of an epoch, a claim and a checkpoint    *)
(* respects of a row.                                                        *)
StateGo(e) ==
  /\ Decided(e) => Decided(e)'
  /\ exec[e].state \in Terminal => exec'[e].state \in Terminal
  /\ exec'[e].state = "finalizing" => exec[e].state = "finalizing"
  /\ exec'[e].stages = exec[e].stages /\ exec'[e].epoch = exec[e].epoch
  /\ exec'[e].lease \in {exec[e].lease, NoToken}

NoneStarted(e) ==
  \A t \in Tasks : task'[t] = task[t] \/ task'[t].pc \in {"done", "lost", "cleaning"}

LEMMA Elsewhere ==
  ASSUME IInv, JInv, NEW e \in Execs, WorkflowAlone(e), NEW f \in Execs, f # e
  PROVE  /\ wf'[f] = wf[f] /\ exec'[f] = exec[f] /\ This(f)' = This(f)
         /\ \A t \in Slots(f) : task'[t] = task[t]
         /\ \A t \in Tasks : Busy(t)' /\ task'[t].run = This(f) => task'[t] = task[t]
<1>1. wf'[f] = wf[f] /\ exec'[f] = exec[f] /\ This(f)' = This(f)
  BY DEF WorkflowAlone, This
<1>2. \A t \in Slots(f) : t \in Tasks /\ t \notin Slots(e) /\ task[t].kind # "free"
  BY SlotFacts DEF JInv, SlotInv
<1>3. \A t \in Slots(f) : task'[t] = task[t]
  BY <1>2 DEF WorkflowAlone, SlotGo
<1>4. This(e) # This(f)
  BY DEF This, Run
<1>5. \A t \in Tasks : Busy(t)' /\ task'[t].run = This(f) => task'[t] = task[t]
  BY <1>4 DEF WorkflowAlone, SlotGo
<1> QED BY <1>1, <1>3, <1>5

LEMMA FinalElsewhere ==
  ASSUME IInv, JInv, FinalInv, NEW e \in Execs, WorkflowAlone(e), NEW f \in Execs, f # e
  PROVE  FinalOk(f)' /\ \A t \in Tasks : FinalTask(t, f)'
<1>1. /\ wf'[f] = wf[f] /\ exec'[f] = exec[f] /\ This(f)' = This(f)
      /\ \A t \in Slots(f) : task'[t] = task[t]
      /\ \A t \in Tasks : Busy(t)' /\ task'[t].run = This(f) => task'[t] = task[t]
      /\ committed' = committed
  BY Elsewhere DEF WorkflowAlone
<1>2. FinalOk(f) /\ \A t \in Tasks : FinalTask(t, f)
  BY DEF FinalInv
<1>3. Publishing(f)' => Publishing(f)
  BY <1>1 DEF Publishing, Committing, Busy
<1>4. Decided(f)' <=> Decided(f)
  BY <1>1 DEF Decided
<1>5. wf[f].pc = "await" => wf[f].task \in Slots(f)
  BY DEF JInv, SlotInv, SlotOk, Slots
<1>6. FinalOk(f)'
  BY <1>1, <1>2, <1>3, <1>4, <1>5 DEF FinalOk, Unpublished
<1>7. ASSUME NEW t \in Tasks PROVE FinalTask(t, f)'
  <2>1. Unstarted(t, f)' => Unstarted(t, f)
    BY <1>1 DEF Unstarted, Busy
  <2>2. CanSave(t, f)' => CanSave(t, f)
    BY <1>1 DEF CanSave, Busy
  <2> QED BY <1>1, <1>2, <1>3, <2>1, <2>2 DEF FinalTask
<1> QED BY <1>6, <1>7

LEMMA FinalGoes ==
  ASSUME IInv, JInv, FinalInv, NEW e \in Execs, WorkflowAlone(e), FinalOk(e)',
         \A t \in Tasks : FinalTask(t, e)'
  PROVE  FinalInv'
BY FinalElsewhere DEF FinalInv

LEMMA SavesAreNotNew ==
  ASSUME IInv, NEW e \in Execs, StateGo(e), NEW t \in Tasks,
         task'[t].pc \in {"claimed", "executing", "save"} =>
           /\ task[t].pc \in {"claimed", "executing", "save"}
           /\ task'[t].run = task[t].run /\ task'[t].token = task[t].token
           /\ task'[t].index = task[t].index,
         CanSave(t, e)'
  PROVE  CanSave(t, e)
<1>1. task[t].token # NoToken
  BY ParameterAssumption DEF IInv, FenceInv, StagesHaveLeases, CanSave
<1>2. This(e)' = This(e)
  BY DEF This, StateGo
<1> QED BY <1>1, <1>2 DEF CanSave, StateGo

(* A workflow step that starts neither a stage nor a completion. *)
LEMMA OwnFinal ==
  ASSUME IInv, JInv, FinalInv, NEW e \in Execs, StateGo(e), NoneStarted(e), committed' = committed,
         wf[e].pc = "await" => task'[wf[e].task].pc # "unstarted" \/ task'[wf[e].task].run # This(e),
         wf[e].pc = "closed" => wf'[e].pc = "closed"
  PROVE  /\ Publishing(e)' => Publishing(e)
         /\ Publishing(e)' => Decided(e)'
         /\ exec'[e].state = "finalizing" => exec'[e].stages > 0
         /\ \A t \in Tasks : FinalTask(t, e)'
         /\ FinalOk(e)
<1>1. FinalOk(e) /\ \A t \in Tasks : FinalTask(t, e)
  BY DEF FinalInv
<1>2. This(e)' = This(e)
  BY DEF This, StateGo
<1>3. Publishing(e)' => Publishing(e)
  BY <1>2 DEF Publishing, Committing, NoneStarted
<1>4. Publishing(e)' => Decided(e)'
  BY <1>1, <1>3 DEF FinalOk, StateGo
<1>5. exec'[e].state = "finalizing" => exec'[e].stages > 0
  BY <1>1 DEF FinalOk, StateGo
<1>6. ASSUME NEW t \in Tasks PROVE FinalTask(t, e)'
  <2>1. Unstarted(t, e)' => Unstarted(t, e)
    BY <1>2 DEF Unstarted, NoneStarted
  <2>2. CanSave(t, e)' => CanSave(t, e)
    BY SavesAreNotNew DEF NoneStarted
  <2>3. Unstarted(t, e) => wf[e].pc \in {"await", "closed"}
    <3>1. Unstarted(t, e) => wf[e].task = t \/ wf[e].pc = "closed"
      BY <1>1 DEF FinalTask
    <3>2. PcOk(task[t]) /\ SlotOk(e) /\ NoTask \notin Tasks
      BY ParameterAssumption DEF JInv, SlotInv, TaskOk
    <3> QED BY <3>1, <3>2 DEF SlotOk, PcOk, Unstarted
  <2>4. Unstarted(t, e)' => wf'[e].pc = "closed"
    <3>1. CASE wf[e].pc = "await"
      <4>1. Unstarted(t, e)' => wf[e].task = t
        BY <1>1, <2>1, <3>1 DEF FinalTask
      <4> QED BY <1>2, <3>1, <4>1 DEF Unstarted
    <3> QED BY <2>1, <2>3, <3>1
  <2>5. Unstarted(t, e)' => ~Publishing(e)'
    BY <1>1, <1>3, <2>1 DEF FinalTask
  <2>6. exec'[e].state = "finalizing" => ~CanSave(t, e)'
    BY <1>1, <2>2 DEF FinalTask, StateGo
  <2> QED BY <2>4, <2>5, <2>6 DEF FinalTask
<1> QED BY <1>1, <1>3, <1>4, <1>5, <1>6

LEMMA StateGoSame ==
  ASSUME IInv, NEW e \in Execs, exec'[e] = exec[e]
  PROVE  StateGo(e)
BY DEF StateGo, Decided

LEMMA StateGoSet ==
  ASSUME IInv, UNCHANGED committed, NEW e \in Execs, NEW s \in Unfinished, SetState(This(e), s),
         s = "finalizing" => Decided(e)
  PROVE  StateGo(e) /\ \A f \in Execs : f # e => exec'[f] = exec[f]
<1>1. This(e).exec = e
  BY DEF This, Run
<1>2. /\ SameRow(e)
      /\ \/ exec'[e].state = exec[e].state
         \/ /\ exec[e].state \in Unfinished /\ exec[e].state # "finalizing"
            /\ exec'[e].state = s
  BY <1>1, SetStateFacts
<1>3. StateGo(e)
  BY <1>2 DEF StateGo, SameRow, Decided, Terminal, Unfinished
<1>4. \A f \in Execs : f # e => exec'[f] = exec[f]
  BY <1>1 DEF SetState, IInv, TypeOK
<1> QED BY <1>3, <1>4

LEMMA StateGoReleased ==
  ASSUME IInv, NEW run, run.exec \in Execs, NEW k, exec' = Released(run, k)
  PROVE  /\ \A e \in Execs : StateGo(e)
         /\ \A f \in Execs : f # run.exec => exec'[f] = exec[f]
<1> DEFINE e == run.exec
           row == [exec[e] EXCEPT !.lease = NoToken, !.fresh = FALSE]
<1>1. exec' = exec \/ exec' = [exec EXCEPT ![e] = row]
  BY DEF Released
<1>2. /\ row.state = exec[e].state /\ row.epoch = exec[e].epoch /\ row.stages = exec[e].stages
      /\ row.lease = NoToken
  BY ReleasedFields DEF IInv, TypeOK
<1> HIDE DEF row, e
<1>3. \A f \in Execs : exec'[f] = exec[f] \/ (f = e /\ exec'[f] = row)
  BY <1>1 DEF IInv, TypeOK
<1>4. \A f \in Execs : StateGo(f)
  BY <1>2, <1>3 DEF StateGo, Decided
<1> QED BY <1>3, <1>4 DEF e

LEMMA AloneIs ==
  ASSUME IInv, NEW e \in Execs, NEW w, wf' = [wf EXCEPT ![e] = w], UNCHANGED committed,
         \A f \in Execs : f # e => exec'[f] = exec[f], \A t \in Tasks : SlotGo(e, t)
  PROVE  WorkflowAlone(e) /\ wf'[e] = w
BY Zenon, WorkflowAt DEF WorkflowAlone

LEMMA NoneStartedSame ==
  ASSUME IInv, NEW e \in Execs, UNCHANGED task
  PROVE  NoneStarted(e) /\ \A t \in Tasks : SlotGo(e, t)
BY DEF NoneStarted, SlotGo

LEMMA NoneStartedFree ==
  ASSUME IInv, NEW e \in Execs, NEW t \in {wf[e].task, wf[e].cleaner},
         task' \in {task, [task EXCEPT ![t] = FreeTask]}
  PROVE  NoneStarted(e) /\ \A u \in Tasks : SlotGo(e, u)
<1>1. \A u \in Tasks : task'[u] = task[u] \/ task'[u] = FreeTask
  BY DEF IInv, TypeOK
<1> QED BY <1>1, FreeFields, GoFreeOne DEF NoneStarted

(* The conditions on the new state of the workflow itself. *)
LEMMA FinalWorkflow ==
  ASSUME IInv, JInv, FinalInv, NEW e \in Execs, WorkflowAlone(e), StateGo(e), NoneStarted(e),
         wf[e].pc = "await" => task'[wf[e].task].pc # "unstarted" \/ task'[wf[e].task].run # This(e),
         wf[e].pc # "closed",
         wf'[e].fin => Decided(e),
         ~wf'[e].ended,
         wf'[e].pc \in {"publish", "completing", "effects"} => wf'[e].fin,
         wf'[e].pc = "closed" => ~wf'[e].fin,
         wf'[e].pc # "await",
         wf'[e].pc = "queue" => ~wf'[e].fin /\ ~Publishing(e),
         wf'[e].pc \notin {"reconcile", "reconciling"}
  PROVE  FinalInv'
<1>1. /\ Publishing(e)' => Publishing(e)
      /\ Publishing(e)' => Decided(e)'
      /\ exec'[e].state = "finalizing" => exec'[e].stages > 0
      /\ \A t \in Tasks : FinalTask(t, e)'
  BY OwnFinal DEF WorkflowAlone
<1>2. FinalOk(e)'
  BY <1>1 DEF FinalOk, Unpublished, StateGo
<1> QED BY <1>1, <1>2, FinalGoes

LEMMA ReadStatusF ==
  ASSUME IInv, JInv, FinalInv, NEW e \in Execs, ReadStatus(e)
  PROVE  FinalInv'
<1>1. wf[e].pc = "status" /\ UNCHANGED <<sub, exec, task, committed>>
  BY DEF ReadStatus
<1>2. PICK w : /\ wf' = [wf EXCEPT ![e] = w]
               /\ w.fin => exec[e].state = "finalizing"
               /\ w.ended => exec[e].state \in Terminal
               /\ \/ w.pc = "reconcile"
                     /\ (~w.ended /\ ~w.fin => exec[e].state \notin {"finalizing"} \cup Terminal)
                  \/ w.pc = "closed" /\ ~w.ended /\ ~w.fin
                  \/ w.pc = "queue" /\ ~w.ended /\ ~w.fin
                     /\ exec[e].state \notin {"finalizing"} \cup Terminal
                  \/ w.pc = "settle" /\ ~w.ended /\ w.fin
                  \/ w.pc = "publish" /\ ~w.ended /\ w.fin
  BY ReadStatusFacts
<1>3. WorkflowAlone(e) /\ wf'[e] = w /\ NoneStarted(e) /\ StateGo(e)
  BY Zenon, <1>1, <1>2, AloneIs, NoneStartedSame, StateGoSame
<1>4. /\ Publishing(e)' => Publishing(e)
      /\ Publishing(e)' => Decided(e)'
      /\ exec'[e].state = "finalizing" => exec'[e].stages > 0
      /\ \A t \in Tasks : FinalTask(t, e)'
      /\ FinalOk(e)
  BY <1>1, <1>3, OwnFinal
<1>5. ~(w.fin /\ w.ended)
  BY <1>2 DEF Terminal
<1>6. Publishing(e)' => exec[e].state \in {"finalizing"} \cup Terminal
  BY <1>4 DEF FinalOk, Decided
<1>7. FinalOk(e)'
  BY <1>1, <1>2, <1>3, <1>4, <1>5, <1>6 DEF FinalOk, Unpublished, Decided
<1> QED BY <1>3, <1>4, <1>7, FinalGoes

LEMMA ReconcileF ==
  ASSUME IInv, JInv, FinalInv, NEW e \in Execs,
         ReconcileCheck(e) \/ \E safe \in BOOLEAN : ReconcileStage(e, safe)
  PROVE  FinalInv'
<1>1. PICK w : /\ wf' = [wf EXCEPT ![e] = w]
               /\ Carried(wf[e], w)
               /\ \/ Freed(wf[e], w)
                  \/ w.pc \in {"blocked", "reconciling"} /\ w.ended = wf[e].ended
  BY ReconcileCheckFacts, ReconcileStageFacts
<1>2. /\ wf[e].pc \in {"reconcile", "reconciling"} /\ UNCHANGED <<task, committed>>
      /\ exec' = exec \/ exec' = Released(This(e), wf[e].tok)
  BY DEF ReconcileCheck, ReconcileStage
<1>3. StateGo(e) /\ \A f \in Execs : f # e => exec'[f] = exec[f]
  <2>1. This(e).exec = e
    BY DEF This, Run
  <2> QED BY <1>2, <2>1, StateGoSame, StateGoReleased
<1>4. WorkflowAlone(e) /\ wf'[e] = w /\ NoneStarted(e)
  BY Zenon, <1>1, <1>2, <1>3, AloneIs, NoneStartedSame
<1>5. /\ Publishing(e)' => Publishing(e)
      /\ Publishing(e)' => Decided(e)'
      /\ exec'[e].state = "finalizing" => exec'[e].stages > 0
      /\ \A t \in Tasks : FinalTask(t, e)'
      /\ FinalOk(e)
  BY <1>2, <1>3, <1>4, OwnFinal
<1>6. (Decided(e) => Decided(e)') /\ (exec[e].state \in Terminal => exec'[e].state \in Terminal)
  BY <1>3 DEF StateGo
<1>7. CASE Freed(wf[e], w)
  <2>1. FinalOk(e)'
    BY <1>1, <1>2, <1>4, <1>5, <1>6, <1>7 DEF FinalOk, Unpublished, Freed, Carried
  <2> QED BY <1>4, <1>5, <2>1, FinalGoes
<1>8. CASE w.pc \in {"blocked", "reconciling"} /\ w.ended = wf[e].ended
  <2>1. FinalOk(e)'
    BY <1>1, <1>2, <1>4, <1>5, <1>6, <1>8 DEF FinalOk, Unpublished, Carried
  <2> QED BY <1>4, <1>5, <2>1, FinalGoes
<1> QED BY <1>1, <1>7, <1>8

(* Leaving the iteration: to its next one, to its end or to recovery. *)
LEMMA LeavingF ==
  ASSUME IInv, JInv, FinalInv, NEW e \in Execs, WorkflowAlone(e), StateGo(e), NoneStarted(e),
         wf[e].pc = "await" => task'[wf[e].task].pc # "unstarted" \/ task'[wf[e].task].run # This(e),
         wf[e].pc # "closed", Leaving(wf[e], wf'[e]),
         ~wf'[e].ended \/ wf[e].pc \notin {"reconcile", "reconciling", "blocked"}
  PROVE  FinalInv'
<1>1. FinalOk(e)
  BY DEF FinalInv
<1>2. ~wf'[e].ended
  BY <1>1 DEF FinalOk, Leaving
<1>3. (wf'[e].fin => Decided(e)) /\ (wf'[e].pc = "closed" => ~wf'[e].fin)
  BY <1>1 DEF FinalOk, Leaving
<1>4. wf'[e].pc \in {"status", "closed", "recover"}
  BY DEF Leaving
<1> QED BY <1>2, <1>3, <1>4, FinalWorkflow

LEMMA SetBlockedF ==
  ASSUME IInv, JInv, FinalInv, NEW e \in Execs, SetBlocked(e)
  PROVE  FinalInv'
<1>1. /\ wf[e].pc = "blocked" /\ SetState(This(e), "blocked") /\ wf' = [wf EXCEPT ![e] = Loop(e)]
      /\ UNCHANGED <<task, committed>>
  BY DEF SetBlocked
<1>2. StateGo(e) /\ \A f \in Execs : f # e => exec'[f] = exec[f]
  BY <1>1, StateGoSet DEF Unfinished
<1>3. WorkflowAlone(e) /\ wf'[e] = Loop(e) /\ NoneStarted(e)
  BY Zenon, <1>1, <1>2, AloneIs, NoneStartedSame
<1> QED BY Zenon, <1>1, <1>2, <1>3, WorkflowFields, LeavingFields, LeavingF

LEMMA QueueStageF ==
  ASSUME IInv, JInv, FinalInv, NEW e \in Execs, NEW t \in Tasks, QueueStage(e, t)
  PROVE  FinalInv'
<1> DEFINE x == StageTask(e, wf[e].idx)
<1>1. /\ wf[e].pc = "queue" /\ task[t].kind = "free" /\ task' = [task EXCEPT ![t] = x]
      /\ SetState(This(e), "queued") /\ UNCHANGED committed
  BY QueueStageFacts
<1>2. PICK w : /\ wf' = [wf EXCEPT ![e] = w]
               /\ w.pc = "await" /\ w.task = t /\ w.fin = wf[e].fin /\ w.ended = wf[e].ended
  BY QueueStageFacts
<1>3. StateGo(e) /\ \A f \in Execs : f # e => exec'[f] = exec[f]
  BY <1>1, StateGoSet DEF Unfinished
<1>4. FinalOk(e) /\ (\A u \in Tasks : FinalTask(u, e)) /\ SlotOk(e)
  BY DEF FinalInv, JInv, SlotInv
<1>5. /\ x.kind = "stage" /\ x.run = This(e) /\ x.pc = "unstarted" /\ x.index = wf[e].idx
      /\ x.out = "none"
  BY StartedFields
<1> HIDE DEF x
<1>6. \A u \in Tasks : SlotGo(e, u)
  <2>1. PcOk(x) /\ x.index <= exec[e].stages
    BY <1>4, <1>5 DEF PcOk, SlotOk
  <2> QED BY Zenon, <1>1, <1>5, <2>1, GoStart
<1>7. WorkflowAlone(e) /\ wf'[e] = w
  BY Zenon, <1>1, <1>2, <1>3, <1>6, AloneIs
<1>8. task'[t] = x /\ (\A u \in Tasks : u # t => task'[u] = task[u]) /\ This(e)' = This(e)
  BY Zenon, <1>1, <1>3, TaskAt DEF StateGo, This
<1>9. ~Publishing(e) /\ ~Publishing(e)'
  <2>1. ~Publishing(e)
    BY <1>1, <1>4 DEF FinalOk, Unpublished
  <2>2. Publishing(e)' => Publishing(e)
    BY <1>1, <1>5, <1>8 DEF Publishing, Committing
  <2> QED BY <2>1, <2>2
<1>10. exec'[e].state = "finalizing" => exec'[e].stages > 0
  BY <1>3, <1>4 DEF StateGo, FinalOk
<1>11. FinalOk(e)'
  BY <1>1, <1>2, <1>4, <1>5, <1>7, <1>8, <1>9, <1>10 DEF FinalOk, Unpublished
<1>12. ASSUME NEW u \in Tasks PROVE FinalTask(u, e)'
  <2>1. CASE u = t
    BY <1>2, <1>5, <1>7, <1>8, <1>9, <2>1 DEF FinalTask, CanSave
  <2>2. CASE u # t
    <3>1. ~Unstarted(u, e)'
      <4>1. Unstarted(u, e)' => Unstarted(u, e)
        BY <1>8, <2>2 DEF Unstarted
      <4>2. wf[e].task \notin Tasks
        BY <1>1, <1>4, ParameterAssumption DEF SlotOk
      <4> QED BY <1>1, <1>4, <4>1, <4>2 DEF FinalTask
    <3>2. CanSave(u, e)' => CanSave(u, e)
      BY <1>3, <1>8, <2>2, SavesAreNotNew
    <3> QED BY <1>3, <1>4, <3>1, <3>2 DEF FinalTask, StateGo
  <2> QED BY <2>1, <2>2
<1> QED BY <1>7, <1>11, <1>12, FinalGoes

LEMMA StageAnsweredF ==
  ASSUME IInv, JInv, FinalInv, NEW e \in Execs, StageAnswered(e)
  PROVE  FinalInv'
<1> DEFINE t == wf[e].task
           x == CleanupTask(e, task[t].token)
<1>1. /\ wf[e].pc = "await" /\ UNCHANGED <<sub, exec, committed>>
      /\ task' = [task EXCEPT ![t] = x] \/ task' = [task EXCEPT ![t] = FreeTask]
  BY StageAnsweredFacts
<1>2. FinalOk(e) /\ SlotOk(e)
  BY DEF FinalInv, JInv, SlotInv
<1>3. t \in Tasks /\ t \in Slots(e)
  BY <1>1, <1>2, SlotsTypes DEF SlotOk, Slots
<1>4. x.kind = "cleanup" /\ x.run = This(e) /\ x.pc = "cleaning" /\ x.index = 0
  BY StartedFields
<1> HIDE DEF x
<1>5. \A u \in Tasks : SlotGo(e, u)
  <2>1. CASE task' = [task EXCEPT ![t] = x]
    <3>1. PcOk(x) /\ x.index <= exec[e].stages
      BY <1>4, IndexesAreNatural DEF PcOk
    <3> QED BY Zenon, <1>3, <1>4, <2>1, <3>1, GoStart
  <2>2. CASE task' = [task EXCEPT ![t] = FreeTask]
    BY Zenon, <2>2, GoFreeOne
  <2> QED BY <1>1, <2>1, <2>2
<1>6. task'[t] \in {x, FreeTask} /\ \A u \in Tasks : u # t => task'[u] = task[u]
  BY <1>1, <1>3, TaskAt
<1>7. NoneStarted(e) /\ task'[t].pc # "unstarted"
  BY <1>4, <1>6, FreeFields DEF NoneStarted
<1>8. PICK w : /\ wf' = [wf EXCEPT ![e] = w]
               /\ \/ Leaving(wf[e], w)
                  \/ w.pc = "settle" /\ w.fin = wf[e].fin /\ w.ended = wf[e].ended
                  \/ /\ task[t].out = "finished" /\ w.pc \in {"settle", "publish"}
                     /\ w.fin /\ w.ended = wf[e].ended
  BY StageAnsweredFacts
<1>9. WorkflowAlone(e) /\ wf'[e] = w /\ StateGo(e)
  BY Zenon, <1>1, <1>5, <1>8, AloneIs, StateGoSame
<1>10. CASE Leaving(wf[e], w)
  BY <1>1, <1>7, <1>9, <1>10, LeavingF
<1>11. CASE ~Leaving(wf[e], w)
  <2>1. ~w.ended /\ (w.fin => Decided(e)) /\ (w.pc = "publish" => w.fin) /\ w.pc \in {"settle", "publish"}
    BY <1>1, <1>2, <1>8, <1>11 DEF FinalOk
  <2> QED BY <1>1, <1>7, <1>9, <2>1, FinalWorkflow
<1> QED BY <1>10, <1>11

LEMMA StageTimedOutF ==
  ASSUME ~LateClaims, IInv, JInv, FinalInv, NEW e \in Execs, StageTimedOut(e)
  PROVE  FinalInv'
<1> DEFINE t == wf[e].task
<1>1. /\ wf[e].pc = "await" /\ UNCHANGED <<sub, exec, committed>>
      /\ task' \in {task, [task EXCEPT ![t] = FreeTask]}
      /\ task[t].pc = "unstarted" => task' = [task EXCEPT ![t] = FreeTask]
  BY StageTimedOutFacts
<1>2. NoneStarted(e) /\ \A u \in Tasks : SlotGo(e, u)
  BY <1>1, NoneStartedFree
<1>3. PICK w : wf' = [wf EXCEPT ![e] = w] /\ Leaving(wf[e], w)
  BY StageTimedOutFacts
<1>4. WorkflowAlone(e) /\ wf'[e] = w /\ StateGo(e)
  BY Zenon, <1>1, <1>2, <1>3, AloneIs, StateGoSame
<1>5. task'[t].pc # "unstarted"
  <2>1. t \in Tasks
    BY <1>1, SlotsTypes DEF JInv, SlotInv, SlotOk
  <2>2. task'[t] = task[t] \/ task'[t] = FreeTask
    BY <1>1, <2>1, TaskAt
  <2>3. task[t].pc = "unstarted" => task'[t] = FreeTask
    BY <1>1, <2>1, TaskAt
  <2> QED BY <2>2, <2>3, FreeFields
<1> QED BY <1>1, <1>2, <1>3, <1>4, <1>5, LeavingF

LEMMA StartCompleteF ==
  ASSUME IInv, JInv, FinalInv, NEW e \in Execs, NEW t \in Tasks, StartComplete(e, t)
  PROVE  FinalInv'
<1> DEFINE x == CompleteTask(e)
<1>1. /\ wf[e].pc = "publish" /\ task[t].kind = "free" /\ task' = [task EXCEPT ![t] = x]
      /\ UNCHANGED <<sub, exec, committed>>
  BY StartCompleteFacts
<1>2. PICK w : /\ wf' = [wf EXCEPT ![e] = w]
               /\ w.pc = "completing" /\ w.fin = wf[e].fin /\ w.ended = wf[e].ended
  BY StartCompleteFacts
<1>3. FinalOk(e) /\ (\A u \in Tasks : FinalTask(u, e)) /\ SlotOk(e) /\ StateGo(e)
  BY <1>1, StateGoSame DEF FinalInv, JInv, SlotInv
<1>4. x.kind = "complete" /\ x.run = This(e) /\ x.pc = "preflight" /\ x.index = 0 /\ x.out = "none"
  BY StartedFields
<1> HIDE DEF x
<1>5. \A u \in Tasks : SlotGo(e, u)
  <2>1. PcOk(x) /\ x.index <= exec[e].stages
    BY <1>4, IndexesAreNatural DEF PcOk
  <2> QED BY Zenon, <1>1, <1>4, <2>1, GoStart
<1>6. WorkflowAlone(e) /\ wf'[e] = w
  BY Zenon, <1>1, <1>2, <1>5, AloneIs
<1>7. task'[t] = x /\ (\A u \in Tasks : u # t => task'[u] = task[u])
  BY Zenon, <1>1, TaskAt
<1>8. Decided(e)' /\ exec'[e] = exec[e]
  BY <1>1, <1>3 DEF FinalOk, StateGo
<1>9. FinalOk(e)'
  BY <1>1, <1>2, <1>3, <1>6, <1>8 DEF FinalOk, Unpublished
<1>10. ASSUME NEW u \in Tasks PROVE FinalTask(u, e)'
  <2>1. CASE u = t
    BY <1>4, <1>7, <2>1 DEF FinalTask, CanSave, Unstarted
  <2>2. CASE u # t
    <3>1. ~Unstarted(u, e)'
      <4>1. Unstarted(u, e)' => Unstarted(u, e)
        BY <1>7, <1>8, <2>2 DEF Unstarted, This
      <4>2. wf[e].task \notin Tasks
        BY <1>1, <1>3, ParameterAssumption DEF SlotOk
      <4> QED BY <1>1, <1>3, <4>1, <4>2 DEF FinalTask
    <3>2. CanSave(u, e)' => CanSave(u, e)
      BY <1>3, <1>7, <2>2, SavesAreNotNew
    <3> QED BY <1>3, <1>8, <3>1, <3>2 DEF FinalTask
  <2> QED BY <2>1, <2>2
<1> QED BY <1>6, <1>9, <1>10, FinalGoes

LEMMA CompleteAnsweredF ==
  ASSUME IInv, JInv, FinalInv, NEW e \in Execs, CompleteAnswered(e)
  PROVE  FinalInv'
<1>1. /\ wf[e].pc = "completing" /\ UNCHANGED <<sub, exec, committed>>
      /\ task' = [task EXCEPT ![wf[e].task] = FreeTask]
  BY CompleteAnsweredFacts
<1>2. NoneStarted(e) /\ \A u \in Tasks : SlotGo(e, u)
  BY Zenon, <1>1, NoneStartedFree
<1>3. PICK w : /\ wf' = [wf EXCEPT ![e] = w]
               /\ \/ Leaving(wf[e], w)
                  \/ w.pc \in {"effects", "settle"} /\ w.fin = wf[e].fin /\ w.ended = wf[e].ended
  BY CompleteAnsweredFacts
<1>4. WorkflowAlone(e) /\ wf'[e] = w /\ StateGo(e) /\ FinalOk(e)
  BY Zenon, <1>1, <1>2, <1>3, AloneIs, StateGoSame DEF FinalInv
<1>5. CASE Leaving(wf[e], w)
  BY <1>1, <1>2, <1>4, <1>5, LeavingF
<1>6. CASE ~Leaving(wf[e], w)
  <2>1. ~w.ended /\ w.fin /\ Decided(e) /\ w.pc \in {"effects", "settle"}
    BY <1>1, <1>3, <1>4, <1>6 DEF FinalOk
  <2> QED BY <1>1, <1>2, <1>4, <2>1, FinalWorkflow
<1> QED BY <1>5, <1>6

LEMMA CompleteTimedOutF ==
  ASSUME IInv, JInv, FinalInv, NEW e \in Execs, CompleteTimedOut(e)
  PROVE  FinalInv'
<1>1. /\ wf[e].pc = "completing" /\ UNCHANGED <<sub, exec, committed>>
      /\ task' \in {task, [task EXCEPT ![wf[e].task] = FreeTask]}
  BY CompleteTimedOutFacts
<1>2. NoneStarted(e) /\ \A u \in Tasks : SlotGo(e, u)
  BY <1>1, NoneStartedFree
<1>3. PICK w : wf' = [wf EXCEPT ![e] = w] /\ Leaving(wf[e], w)
  BY CompleteTimedOutFacts
<1>4. WorkflowAlone(e) /\ wf'[e] = w /\ StateGo(e)
  BY Zenon, <1>1, <1>2, <1>3, AloneIs, StateGoSame
<1> QED BY <1>1, <1>2, <1>3, <1>4, LeavingF

LEMMA ApplyEffectsF ==
  ASSUME IInv, JInv, FinalInv, NEW e \in Execs, ApplyEffects(e)
  PROVE  FinalInv'
<1>1. wf[e].pc = "effects" /\ UNCHANGED <<sub, exec, task, committed>>
  BY ApplyEffectsFacts
<1>2. PICK w : /\ wf' = [wf EXCEPT ![e] = w]
               /\ w.pc = "settle" /\ w.fin = wf[e].fin /\ w.ended = wf[e].ended
  BY ApplyEffectsFacts
<1>3. /\ WorkflowAlone(e) /\ wf'[e] = w /\ StateGo(e) /\ NoneStarted(e) /\ FinalOk(e)
  BY Zenon, <1>1, <1>2, AloneIs, StateGoSame, NoneStartedSame DEF FinalInv
<1>4. ~w.ended /\ w.fin /\ Decided(e)
  BY <1>1, <1>2, <1>3 DEF FinalOk
<1> QED BY <1>1, <1>2, <1>3, <1>4, FinalWorkflow

LEMMA AwaitCleanupF ==
  ASSUME IInv, JInv, FinalInv, NEW e \in Execs, AwaitCleanup(e)
  PROVE  FinalInv'
<1>1. /\ wf[e].pc = "settle" /\ UNCHANGED <<sub, exec, committed>>
      /\ task' \in {task, [task EXCEPT ![wf[e].cleaner] = FreeTask]}
  BY AwaitCleanupFacts
<1>2. NoneStarted(e) /\ \A u \in Tasks : SlotGo(e, u)
  BY <1>1, NoneStartedFree
<1>3. PICK w : /\ wf' = [wf EXCEPT ![e] = w]
               /\ \/ Leaving(wf[e], w)
                  \/ w.pc = "finish" /\ w.fin = wf[e].fin /\ w.ended = wf[e].ended
  BY AwaitCleanupFacts
<1>4. WorkflowAlone(e) /\ wf'[e] = w /\ StateGo(e) /\ FinalOk(e)
  BY Zenon, <1>1, <1>2, <1>3, AloneIs, StateGoSame DEF FinalInv
<1>5. CASE Leaving(wf[e], w)
  BY <1>1, <1>2, <1>4, <1>5, LeavingF
<1>6. CASE ~Leaving(wf[e], w)
  <2>1. ~w.ended /\ (w.fin => Decided(e)) /\ w.pc = "finish"
    BY <1>1, <1>3, <1>4, <1>6 DEF FinalOk
  <2> QED BY <1>1, <1>2, <1>4, <2>1, FinalWorkflow
<1> QED BY <1>5, <1>6

LEMMA FinishF ==
  ASSUME IInv, JInv, FinalInv, NEW e \in Execs, NEW answered \in BOOLEAN,
         FinishJudgeExecution(e, answered)
  PROVE  FinalInv'
<1>1. /\ wf[e].pc = "finish" /\ UNCHANGED <<sub, task, committed>>
      /\ \/ exec[e].state = "cancelled" /\ UNCHANGED exec
         \/ /\ exec'[e].state = "completed" /\ exec'[e].lease = NoToken
            /\ exec'[e].epoch = exec[e].epoch /\ exec'[e].stages = exec[e].stages
            /\ \A i \in Execs : i # e => exec'[i] = exec[i]
  BY FinishFacts
<1>2. PICK w : wf' = [wf EXCEPT ![e] = w] /\ Leaving(wf[e], w)
  BY FinishFacts
<1>3. StateGo(e) /\ \A f \in Execs : f # e => exec'[f] = exec[f]
  BY <1>1, StateGoSame DEF StateGo, Decided, Terminal
<1>4. WorkflowAlone(e) /\ wf'[e] = w /\ NoneStarted(e)
  BY Zenon, <1>1, <1>2, <1>3, AloneIs, NoneStartedSame
<1> QED BY <1>1, <1>2, <1>3, <1>4, LeavingF

LEMMA ActivityFailsF ==
  ASSUME IInv, JInv, FinalInv, NEW e \in Execs, ActivityFails(e)
  PROVE  FinalInv'
<1>1. /\ wf[e].pc \notin {"await", "closed"} /\ UNCHANGED <<sub, exec, task, committed>>
  BY ActivityFailsFacts
<1>2. PICK w : wf' = [wf EXCEPT ![e] = w] /\ Leaving(wf[e], w) /\ ~w.ended
  BY ActivityFailsFacts
<1>3. WorkflowAlone(e) /\ wf'[e] = w /\ NoneStarted(e) /\ StateGo(e)
  BY Zenon, <1>1, <1>2, AloneIs, NoneStartedSame, StateGoSame
<1> QED BY <1>1, <1>2, <1>3, LeavingF

LEMMA RecoverF ==
  ASSUME IInv, JInv, FinalInv, NEW e \in Execs, NEW recorded \in BOOLEAN, Recover(e, recorded)
  PROVE  FinalInv'
<1>1. /\ wf[e].pc = "recover" /\ UNCHANGED committed
      /\ wf' = [wf EXCEPT ![e] = Loop(e)]
      /\ task' \in {task, [task EXCEPT ![wf[e].cleaner] = FreeTask]}
      /\ \/ \E s \in RecoveryStates(wf[e].fin) : SetState(This(e), s)
         \/ UNCHANGED <<sub, exec>>
  BY RecoverFacts
<1>2. wf[e].fin => Decided(e)
  BY DEF FinalInv, FinalOk
<1>3. StateGo(e) /\ \A f \in Execs : f # e => exec'[f] = exec[f]
  <2>1. CASE UNCHANGED <<sub, exec>>
    BY <2>1, StateGoSame
  <2>2. ASSUME NEW s \in RecoveryStates(wf[e].fin), SetState(This(e), s)
        PROVE  StateGo(e) /\ \A f \in Execs : f # e => exec'[f] = exec[f]
    <3>1. s \in Unfinished /\ (s = "finalizing" => Decided(e))
      BY <1>2, <2>2 DEF RecoveryStates, Unfinished
    <3> QED BY <1>1, <2>2, <3>1, StateGoSet
  <2> QED BY <1>1, <2>1, <2>2
<1>4. NoneStarted(e) /\ \A u \in Tasks : SlotGo(e, u)
  BY <1>1, NoneStartedFree
<1>5. WorkflowAlone(e) /\ wf'[e] = Loop(e)
  BY Zenon, <1>1, <1>3, <1>4, AloneIs
<1> QED BY Zenon, <1>1, <1>3, <1>4, <1>5, LeavingFields, WorkflowFields, LeavingF

LEMMA TerminateF ==
  ASSUME IInv, JInv, FinalInv, NEW e \in Execs, TerminateStalled(e)
  PROVE  FinalInv'
<1>1. /\ wf' = [wf EXCEPT ![e] = Closed]
      /\ \A t \in Tasks : \/ task'[t] = task[t]
                          \/ task'[t] = FreeTask /\ t \in Slots(e) /\ ~Busy(t)
      /\ UNCHANGED <<sub, exec, committed>>
  BY TerminateFacts
<1>2. \A t \in Tasks : SlotGo(e, t)
  BY <1>1, FreeFields DEF SlotGo, Busy
<1>3. WorkflowAlone(e) /\ wf'[e] = Closed /\ This(e)' = This(e)
  BY Zenon, <1>1, <1>2, AloneIs DEF This
<1>4. FinalOk(e) /\ \A t \in Tasks : FinalTask(t, e)
  BY DEF FinalInv
<1>5. Publishing(e)' => Publishing(e)
  BY <1>1, <1>3, FreeFields DEF Publishing, Committing
<1>6. FinalOk(e)'
  BY <1>1, <1>3, <1>4, <1>5, WorkflowFields DEF FinalOk, Unpublished, Decided
<1>7. ASSUME NEW t \in Tasks PROVE FinalTask(t, e)'
  <2>1. (Unstarted(t, e)' => Unstarted(t, e)) /\ (CanSave(t, e)' => CanSave(t, e))
    BY <1>1, <1>3, FreeFields DEF Unstarted, CanSave
  <2> QED BY <1>1, <1>3, <1>4, <1>5, <2>1, WorkflowFields DEF FinalTask
<1> QED BY <1>3, <1>6, <1>7, FinalGoes

LEMMA DispatchF ==
  ASSUME IInv, JInv, FinalInv, NEW e \in Execs, NEW gate \in BOOLEAN, Dispatch(e, gate)
  PROVE  FinalInv'
<1>1. UNCHANGED <<sub, exec, task, committed>>
  BY DispatchFacts
<1>2. FinalOk(e) /\ \A t \in Tasks : FinalTask(t, e)
  BY DEF FinalInv
<1>3. CASE UNCHANGED wf
  BY <1>1, <1>3
  DEF FinalInv, FinalOk, FinalTask, Decided, Publishing, Committing, Unstarted, CanSave, This
<1>4. CASE wf' # wf
  <2>1. PICK w : /\ wf' = [wf EXCEPT ![e] = w] /\ wf[e].pc = "none"
                 /\ w.pc = "status" /\ w.fin = wf[e].fin /\ w.ended = wf[e].ended
    BY <1>4, DispatchFacts
  <2>2. WorkflowAlone(e) /\ wf'[e] = w /\ StateGo(e) /\ NoneStarted(e)
    BY Zenon, <1>1, <2>1, AloneIs, StateGoSame, NoneStartedSame
  <2>3. (w.fin => Decided(e)) /\ ~w.ended
    BY <1>2, <2>1 DEF FinalOk
  <2> QED BY <1>1, <2>1, <2>2, <2>3, FinalWorkflow
<1> QED BY <1>3, <1>4

LEMMA NewEpochF ==
  ASSUME IInv, JInv, FinalInv, NEW e \in Execs, NewEpoch(e)
  PROVE  FinalInv'
<1>1. /\ wf[e].pc = "closed" /\ exec[e].state \in Unfinished
      /\ wf' = [wf EXCEPT ![e] = NoWorkflow]
      /\ exec'[e].epoch = exec[e].epoch + 1
      /\ exec'[e].state = IF exec[e].state = "finalizing" THEN "finalizing" ELSE "recovering"
      /\ exec'[e].stages = exec[e].stages
      /\ \A i \in Execs : i # e => exec'[i] = exec[i]
      /\ UNCHANGED <<task, committed>>
  BY NewEpochFacts
<1>2. WorkflowAlone(e) /\ wf'[e] = NoWorkflow
  BY Zenon, <1>1, AloneIs DEF SlotGo
<1>3. FinalOk(e)
  BY DEF FinalInv
<1>4. \A t \in Tasks : Busy(t) => task[t].run # This(e)'
  <2>1. \A t \in Tasks : Busy(t) => /\ task[t].run.exec \in Execs
                                    /\ task[t].run.epoch <= exec[task[t].run.exec].epoch
    BY DEF IInv, FenceInv, ActivitiesHaveRows, JInv, SlotInv, TaskOk
  <2>2. exec[e].epoch \in Nat /\ This(e)'.exec = e /\ This(e)'.epoch = exec[e].epoch + 1
    BY <1>1, IndexesAreNatural DEF This, Run
  <2> HIDE DEF This
  <2>3. SUFFICES ASSUME NEW t \in Tasks, Busy(t), task[t].run = This(e)' PROVE FALSE
    OBVIOUS
  <2>4. task[t].run.exec = e /\ task[t].run.epoch = exec[e].epoch + 1
    BY <2>2, <2>3
  <2> QED BY <2>1, <2>2, <2>3, <2>4
<1>5. Publishing(e)' => e \in committed
  BY <1>1, <1>4 DEF Publishing, Committing, Busy
<1>6. Decided(e) => Decided(e)'
  BY <1>1 DEF Decided, Terminal, Unfinished
<1>7. NoWorkflow.pc = "none" /\ ~NoWorkflow.fin /\ ~NoWorkflow.ended
  BY DEF NoWorkflow
<1>8. e \in committed => Decided(e)
  BY <1>3 DEF FinalOk, Publishing
<1>9. FinalOk(e)'
  BY <1>1, <1>2, <1>3, <1>5, <1>6, <1>7, <1>8 DEF FinalOk, Unpublished
<1>10. \A t \in Tasks : FinalTask(t, e)'
  BY <1>1, <1>4 DEF FinalTask, Unstarted, CanSave, Busy
<1> QED BY <1>2, <1>9, <1>10, FinalGoes

(* The activity goes on, answers or dies; it begins nothing. *)
Onward(t) ==
  /\ task'[t].pc # "unstarted"
  /\ task'[t].pc \in {"preflight", "guard", "commit"} =>
       task[t].pc \in {"preflight", "guard", "commit"} /\ task'[t].run = task[t].run
  /\ task'[t].pc \in {"claimed", "executing", "save"} =>
       /\ task[t].pc \in {"claimed", "executing", "save"}
       /\ task'[t].run = task[t].run /\ task'[t].token = task[t].token
       /\ task'[t].index = task[t].index
  /\ task'[t].out = "finished" => task[t].out = "finished"

LEMMA QuietF ==
  ASSUME IInv, JInv, FinalInv, UNCHANGED wf, \A e \in Execs : StateGo(e),
         \A t \in Tasks : task'[t] = task[t] \/ Onward(t),
         \A e \in committed' : e \in committed \/ Publishing(e)
  PROVE  FinalInv'
<1> SUFFICES ASSUME NEW e \in Execs PROVE FinalOk(e)' /\ \A t \in Tasks : FinalTask(t, e)'
  BY DEF FinalInv
<1>1. FinalOk(e) /\ (\A t \in Tasks : FinalTask(t, e)) /\ StateGo(e)
  BY DEF FinalInv
<1>2. This(e)' = This(e) /\ (Decided(e) => Decided(e)')
  BY <1>1 DEF This, StateGo
<1>3. \A t \in Tasks : Committing(t, e)' => Committing(t, e)
  BY <1>2 DEF Committing, Onward
<1>4. Publishing(e)' => Publishing(e)
  BY <1>3 DEF Publishing
<1>5. wf[e].pc = "await" => wf[e].task \in Tasks
  BY SlotsTypes DEF JInv, SlotInv, SlotOk
<1>6. FinalOk(e)'
  BY <1>1, <1>2, <1>4, <1>5 DEF FinalOk, Unpublished, StateGo, Onward
<1>7. ASSUME NEW t \in Tasks PROVE FinalTask(t, e)'
  <2>1. Unstarted(t, e)' => Unstarted(t, e)
    BY <1>2 DEF Unstarted, Onward
  <2>2. CanSave(t, e)' => CanSave(t, e)
    BY <1>1, SavesAreNotNew DEF Onward
  <2> QED BY <1>1, <1>4, <2>1, <2>2 DEF FinalTask, StateGo
<1> QED BY <1>6, <1>7

LEMMA OnwardMove ==
  ASSUME IInv, NEW t \in Tasks, NEW x, task' = [task EXCEPT ![t] = x],
         \/ x.pc \in {"catch", "releasing", "done", "lost", "cleaning"}
         \/ x.pc \in {"executing", "save"} /\ task[t].pc \in {"claimed", "executing"}
         \/ x.pc \in {"guard", "commit"} /\ task[t].pc \in {"preflight", "guard"},
         x.pc \in {"executing", "save", "guard", "commit"} =>
           x.run = task[t].run /\ x.token = task[t].token /\ x.index = task[t].index,
         x.out = "finished" => task[t].out = "finished"
  PROVE  \A u \in Tasks : task'[u] = task[u] \/ Onward(u)
BY TaskAt DEF Onward

LEMMA OnwardAnswer ==
  ASSUME IInv, JInv, NEW t \in Tasks, NEW out, task' = [task EXCEPT ![t] = Ended(t, out)],
         out = "finished" => task[t].out = "finished"
  PROVE  \A u \in Tasks : task'[u] = task[u] \/ Onward(u)
<1> DEFINE x == Ended(t, out)
<1>1. x.pc = "done" /\ (x.out = "finished" => out = "finished") /\ task' = [task EXCEPT ![t] = x]
  BY EndedFields, FreeFields
<1> HIDE DEF x
<1> QED BY Zenon, <1>1, OnwardMove

LEMMA SameRowsGo ==
  ASSUME IInv, \A e \in Execs : SameRow(e) /\ exec'[e].state = exec[e].state
  PROVE  \A e \in Execs : StateGo(e)
BY DEF StateGo, SameRow, Decided

LEMMA RowStepsF ==
  ASSUME IInv, JInv, FinalInv, NEW e \in Execs,
         \/ CleanupTerminal(e) \/ LeaseLapses(e) \/ Redispatch(e) \/ CancelRejudge(e)
         \/ \E t \in Tasks : HeartbeatJudgeStage(t)
  PROVE  FinalInv'
<1>1. CASE CleanupTerminal(e)
  <2>1. \A i \in Execs : StateGo(i)
    BY <1>1, CleanupTerminalFacts DEF StateGo, Decided
  <2> QED BY <1>1, <2>1, CleanupTerminalFacts, QuietF
<1>2. CASE LeaseLapses(e)
  <2>1. \A i \in Execs : StateGo(i)
    BY <1>2, FreshFacts DEF LeaseLapses, StateGo, Decided
  <2> QED BY <1>2, <2>1, QuietF DEF LeaseLapses
<1>3. CASE Redispatch(e)
  BY <1>3, StateGoSame, QuietF DEF Redispatch
<1>4. CASE CancelRejudge(e)
  <2>1. \A i \in Execs : StateGo(i)
    BY <1>4, CancelFacts DEF StateGo, Decided, SameRow, Terminal
  <2> QED BY <1>4, <2>1, CancelFacts, QuietF
<1>5. ASSUME NEW t \in Tasks, HeartbeatJudgeStage(t) PROVE FinalInv'
  <2>1. \A i \in Execs : StateGo(i)
    BY Zenon, <1>5, FreshFacts DEF HeartbeatJudgeStage, StateGo, Decided
  <2> QED BY <1>5, <2>1, QuietF DEF HeartbeatJudgeStage
<1> QED BY <1>1, <1>2, <1>3, <1>4, <1>5

LEMMA CreateF ==
  ASSUME IInv, JInv, FinalInv, NEW rejudge \in BOOLEAN, CreateJudgeExecution(rejudge)
  PROVE  FinalInv'
<1> DEFINE n == sub.gen + 1
<1>1. /\ n \in Execs /\ exec'[n].state = "queued" /\ exec'[n].epoch = 0 /\ exec'[n].stages = 0
      /\ \A i \in Execs : exec[i].state # "finalizing"
      /\ UNCHANGED <<wf, task, committed>>
  BY CreateFacts
<1>2. \A i \in Execs : i # n =>
        /\ exec[i].state \in Unfinished => exec'[i].state = "cancelled"
        /\ exec[i].state \notin Unfinished => exec'[i] = exec[i]
        /\ exec'[i].epoch = exec[i].epoch /\ exec'[i].stages = exec[i].stages
        /\ exec'[i].lease = exec[i].lease
  BY CreateFacts, SupersededFields DEF IInv, TypeOK
<1>3. exec[n].state = "absent" /\ n \notin committed
  <2>1. sub.gen \in Nat /\ n > sub.gen
    BY ParameterAssumption DEF IInv, TypeOK, SubmissionRow
  <2> QED BY <1>1, <2>1 DEF JInv, OwnerInv
<1>4. wf[n] = NoWorkflow
  BY <1>1, <1>3 DEF IInv, FenceInv, ActivitiesHaveRows, JInv, SlotInv, SlotOk
<1>5. NoWorkflow.pc = "none" /\ ~NoWorkflow.fin /\ ~NoWorkflow.ended
  BY DEF NoWorkflow
<1>6. \A t \in Tasks : Busy(t) => task[t].run.exec # n
  BY <1>3 DEF IInv, FenceInv, ActivitiesHaveRows
<1> HIDE DEF n
<1>7. ASSUME NEW e \in Execs PROVE FinalOk(e)' /\ \A t \in Tasks : FinalTask(t, e)'
  <2>1. CASE e = n
    <3>1. This(e)'.exec = n
      BY <2>1 DEF This, Run
    <3>2. \A t \in Tasks : ~Committing(t, e)' /\ ~Unstarted(t, e)'
      <4> HIDE DEF This
      <4> QED BY <1>1, <1>6, <3>1 DEF Committing, Unstarted, Busy
    <3>3. ~Publishing(e)'
      BY <1>1, <1>3, <2>1, <3>2 DEF Publishing
    <3> QED BY <1>1, <1>4, <1>5, <2>1, <3>2, <3>3 DEF FinalOk, FinalTask, Unpublished
  <2>2. CASE e # n
    <3>1. FinalOk(e) /\ \A t \in Tasks : FinalTask(t, e)
      BY DEF FinalInv
    <3>2. This(e)' = This(e)
      BY <1>2, <2>2 DEF This
    <3>3. (Decided(e) => Decided(e)') /\ exec'[e].state # "finalizing"
      BY <1>1, <1>2, <2>2 DEF Decided, Terminal, Unfinished
    <3>4. exec[e].state \in Terminal => exec'[e].state \in Terminal
      BY <1>2, <2>2 DEF Terminal, Unfinished
    <3>5. (Publishing(e)' => Publishing(e)) /\ \A t \in Tasks : Unstarted(t, e)' => Unstarted(t, e)
      BY <1>1, <3>2 DEF Publishing, Committing, Unstarted
    <3> QED BY <1>1, <3>1, <3>2, <3>3, <3>4, <3>5 DEF FinalOk, FinalTask, Unpublished
  <2> QED BY <2>1, <2>2
<1> QED BY <1>7 DEF FinalInv

-----------------------------------------------------------------------------
(* Steps of the activities that leave every row's state alone. *)
LEMMA QuietActivitiesF ==
  ASSUME IInv, JInv, FinalInv, NEW t \in Tasks,
         \/ StartSandbox(t) \/ ReleaseJudgeStage(t) \/ CompletePreflight(t) \/ GuardVerdict(t)
         \/ CompleteJudge(t) \/ WorkerCrash(t) \/ StorageFails(t)
         \/ \E b \in BOOLEAN : SandboxRan(t, b) \/ Fails(t, b)
  PROVE  FinalInv'
<1>1. CASE StartSandbox(t)
  <2>1. UNCHANGED <<exec, wf, committed>> /\ \A u \in Tasks : task'[u] = task[u] \/ Onward(u)
    BY <1>1, StartSandboxFacts, OnwardMove
  <2> QED BY <2>1, StateGoSame, QuietF
<1>2. CASE ReleaseJudgeStage(t)
  <2>1. /\ UNCHANGED <<wf, committed>> /\ exec' = Released(task[t].run, task[t].token)
        /\ task' = [task EXCEPT ![t] = Ended(t, task[t].out)] /\ Busy(t)
    BY <1>2 DEF ReleaseJudgeStage, Busy
  <2>2. \A u \in Tasks : task'[u] = task[u] \/ Onward(u)
    BY Zenon, <2>1, OnwardAnswer
  <2>3. \A e \in Execs : StateGo(e)
    BY <2>1, TaskFacts, StateGoReleased
  <2> QED BY <2>1, <2>2, <2>3, QuietF
<1>3. CASE CompletePreflight(t)
  <2>1. UNCHANGED <<exec, wf, committed>> /\ task[t].pc = "preflight"
    BY <1>3, PreflightFacts
  <2>2. \A u \in Tasks : task'[u] = task[u] \/ Onward(u)
    BY <1>3, TaskFacts, PreflightFacts, OnwardAnswer, OnwardMove
  <2> QED BY <2>1, <2>2, StateGoSame, QuietF
<1>4. CASE GuardVerdict(t)
  <2>1. UNCHANGED <<wf, committed>> /\ task[t].pc = "guard"
    BY <1>4, GuardFacts
  <2>2. \A e \in Execs : SameRow(e) /\ exec'[e].state = exec[e].state
    BY <1>4, GuardFacts DEF SameRow
  <2>3. \A u \in Tasks : task'[u] = task[u] \/ Onward(u)
    BY <1>4, TaskFacts, GuardFacts, OnwardAnswer, OnwardMove
  <2> QED BY <2>1, <2>2, <2>3, SameRowsGo, QuietF
<1>5. CASE CompleteJudge(t)
  <2>1. UNCHANGED <<exec, wf>> /\ task[t].pc = "commit"
    BY <1>5, CommitFacts
  <2>2. \A e \in committed' : e \in committed \/ Publishing(e)
    BY <1>5, CommitFacts DEF Publishing, Committing
  <2>3. \A u \in Tasks : task'[u] = task[u] \/ Onward(u)
    BY <1>5, TaskFacts, CommitFacts, OnwardAnswer
  <2> QED BY <2>1, <2>2, <2>3, StateGoSame, QuietF
<1>6. CASE WorkerCrash(t)
  <2>1. UNCHANGED <<exec, wf, committed>> /\ \A u \in Tasks : task'[u] = task[u] \/ Onward(u)
    BY <1>6, CrashFacts, OnwardMove
  <2> QED BY <2>1, StateGoSame, QuietF
<1>7. CASE StorageFails(t)
  <2> DEFINE x == [task[t] EXCEPT !.pc = "catch"]
  <2>1. /\ UNCHANGED <<exec, wf, committed>>
        /\ task' \in {[task EXCEPT ![t] = x], [task EXCEPT ![t] = Ended(t, "failed")]}
    BY Zenon, <1>7 DEF StorageFails
  <2>2. x.pc = "catch" /\ x.out = task[t].out
    BY TaskFacts, MovedFields
  <2> HIDE DEF x
  <2>3. \A u \in Tasks : task'[u] = task[u] \/ Onward(u)
    BY <2>1, <2>2, OnwardAnswer, OnwardMove
  <2> QED BY <2>1, <2>3, StateGoSame, QuietF
<1>8. ASSUME NEW b \in BOOLEAN, SandboxRan(t, b) PROVE FinalInv'
  <2>1. UNCHANGED <<exec, wf, committed>> /\ \A u \in Tasks : task'[u] = task[u] \/ Onward(u)
    BY <1>8, SandboxRanFacts, OnwardMove
  <2> QED BY <2>1, StateGoSame, QuietF
<1>9. ASSUME NEW b \in BOOLEAN, Fails(t, b) PROVE FinalInv'
  <2>1. UNCHANGED <<exec, wf, committed>>
    BY <1>9, FailsFacts
  <2>2. \A u \in Tasks : task'[u] = task[u] \/ Onward(u)
    BY <1>9, FailsFacts, OnwardAnswer, OnwardMove
  <2> QED BY <2>1, <2>2, StateGoSame, QuietF
<1> QED BY <1>1, <1>2, <1>3, <1>4, <1>5, <1>6, <1>7, <1>8, <1>9

(* A claim takes nothing back: nobody is publishing yet. *)
Claims(t, e) ==
  /\ task[t].kind = "stage" /\ task[t].pc = "unstarted" /\ task[t].run = This(e)
  /\ UNCHANGED <<wf, committed>>
  /\ exec[e].state \in Unfinished /\ exec'[e].state = "running"
  /\ exec'[e].epoch = exec[e].epoch /\ exec'[e].stages = exec[e].stages
  /\ \A i \in Execs : i # e => exec'[i] = exec[i]
  /\ \E x : /\ task' = [task EXCEPT ![t] = x]
            /\ x.pc = "claimed" /\ x.run = task[t].run /\ x.out = task[t].out

LEMMA ClaimedF ==
  ASSUME IInv, JInv, FinalInv, NEW t \in Tasks, NEW e \in Execs, Claims(t, e)
  PROVE  FinalInv'
<1>0. PICK x : /\ task' = [task EXCEPT ![t] = x]
               /\ x.pc = "claimed" /\ x.run = task[t].run /\ x.out = task[t].out
  BY Zenon DEF Claims
<1>1. task'[t] = x /\ \A u \in Tasks : u # t => task'[u] = task[u]
  BY Zenon, <1>0, TaskAt
<1>2. task[t].out = "none"
  BY TaskFacts DEF PcOk, Claims
<1>3. \A f \in Execs : This(f)' = This(f)
  BY DEF This, Claims
<1>4. \A f \in Execs : FinalOk(f) /\ \A u \in Tasks : FinalTask(u, f)
  BY DEF FinalInv
<1>5. ~Publishing(e) /\ (wf[e].task = t \/ wf[e].pc = "closed")
  BY <1>4 DEF FinalTask, Unstarted, Claims
<1>6. \A f \in Execs : Publishing(f)' => Publishing(f)
  BY <1>0, <1>1, <1>3 DEF Publishing, Committing, Claims
<1>7. \A u \in Tasks, f \in Execs : Unstarted(u, f)' => Unstarted(u, f)
  BY <1>0, <1>1, <1>3 DEF Unstarted
<1>8. wf[e].pc \in {"await", "closed"}
  BY <1>5, ParameterAssumption DEF JInv, SlotInv, SlotOk, TaskOk, PcOk, Claims
<1>9. FinalOk(e)'
  <2>1. wf[e].pc = "await" => task'[wf[e].task].out # "finished"
    BY <1>0, <1>1, <1>2, <1>5, <1>8
  <2>2. ~wf[e].fin /\ ~wf[e].ended
    BY <1>4, <1>8 DEF FinalOk
  <2>3. ~Publishing(e)'
    BY <1>5, <1>6
  <2> QED BY <1>8, <2>1, <2>2, <2>3 DEF FinalOk, Claims
<1>10. ASSUME NEW u \in Tasks PROVE FinalTask(u, e)'
  <2>1. Unstarted(u, e)' => wf'[e].task = u \/ wf'[e].pc = "closed"
    BY <1>4, <1>7 DEF FinalTask, Claims
  <2> QED BY <1>5, <1>6, <2>1 DEF FinalTask, Claims
<1>11. ASSUME NEW f \in Execs, f # e PROVE FinalOk(f)' /\ \A u \in Tasks : FinalTask(u, f)'
  <2>1. exec'[f] = exec[f] /\ This(f) # This(e)
    BY <1>11 DEF This, Run, Claims
  <2>2. wf[f].pc = "await" => task'[wf[f].task].out = task[wf[f].task].out
    BY <1>0, <1>1, SlotsTypes DEF JInv, SlotInv, SlotOk
  <2>3. \A u \in Tasks : CanSave(u, f)' => CanSave(u, f)
    BY <1>0, <1>1, <1>3, <2>1 DEF CanSave, Claims
  <2> QED BY <1>4, <1>6, <1>7, <2>1, <2>2, <2>3 DEF FinalOk, FinalTask, Unpublished, Decided, Claims
<1> QED BY <1>9, <1>10, <1>11 DEF FinalInv

LEMMA ClaimF ==
  ASSUME IInv, JInv, FinalInv, NEW t \in Tasks, ClaimJudgeLease(t)
  PROVE  FinalInv'
<1>1. PICK e \in Execs : e = task[t].run.exec
  BY Zenon, ClaimFacts
<1>2. /\ task[t].kind = "stage" /\ task[t].pc = "unstarted"
      /\ UNCHANGED <<wf, committed>> /\ task[t] \in Task
  BY Zenon, ClaimFacts, TaskFacts
<1>3. CASE /\ UNCHANGED <<sub, exec>>
           /\ \E out \in {"obsolete", "cleanup"} : task' = [task EXCEPT ![t] = Ended(t, out)]
  <2>1. \A u \in Tasks : task'[u] = task[u] \/ Onward(u)
    BY Zenon, <1>3, OnwardAnswer
  <2> QED BY <1>2, <1>3, <2>1, StateGoSame, QuietF
<1>4. ASSUME exec[e].epoch = task[t].run.epoch, exec[e].state \in Unfinished,
             NEW k \in Tokens, exec'[e].state = "running", exec'[e].lease = k,
             exec'[e].epoch = exec[e].epoch, exec'[e].stages = exec[e].stages,
             \A i \in Execs : i # e => exec'[i] = exec[i],
             task' = [task EXCEPT ![t] = [@ EXCEPT !.pc = "claimed", !.token = k]]
      PROVE  FinalInv'
  <2>1. PICK x : /\ task' = [task EXCEPT ![t] = x]
                 /\ x.pc = "claimed" /\ x.run = task[t].run /\ x.out = task[t].out
    <3> DEFINE y == [task[t] EXCEPT !.pc = "claimed", !.token = k]
    <3>1. task' = [task EXCEPT ![t] = y]
      BY <1>4
    <3>2. y.pc = "claimed" /\ y.run = task[t].run /\ y.out = task[t].out
      BY TaskFacts, MovedTokenFields
    <3> HIDE DEF y
    <3> QED BY Zenon, <3>1, <3>2
  <2>2. task[t].run = This(e)
    BY <1>1, <1>2, <1>4 DEF This, Run, Task
  <2>3. Claims(t, e)
    BY Zenon, <1>2, <1>4, <2>1, <2>2 DEF Claims
  <2> QED BY <2>3, ClaimedF
<1> QED BY Zenon, <1>1, <1>3, <1>4, ClaimFacts

(* Activities for another epoch or another execution do not notice. *)
LEMMA PastLastStageF ==
  ASSUME IInv, JInv, FinalInv, NEW t \in Tasks, PastLastStage(t)
  PROVE  FinalInv'
<1>0. PICK e \in Execs : e = task[t].run.exec
  BY PastLastStageFacts
<1>1. /\ task[t].pc = "claimed" /\ task[t].index >= NumStages /\ Busy(t)
      /\ SetState(task[t].run, "finalizing") /\ UNCHANGED <<wf, committed>>
  BY PastLastStageFacts DEF Busy
<1>2. PICK x : /\ task' = [task EXCEPT ![t] = x]
               /\ x.pc = "releasing" /\ x.run = task[t].run /\ x.out = "finished"
  BY PastLastStageFacts
<1>3. task'[t] = x /\ \A u \in Tasks : u # t => task'[u] = task[u]
  BY Zenon, <1>2, TaskAt
<1>4. \A i \in Execs :
        /\ SameRow(i)
        /\ \/ exec'[i].state = exec[i].state
           \/ /\ exec[i].state \in Unfinished /\ exec[i].state # "finalizing"
              /\ exec'[i].state = "finalizing" /\ This(i) = task[t].run
  <2>1. This(e) = task[t].run \/ exec[e].epoch # task[t].run.epoch
    BY <1>0, <1>1, TaskFacts DEF This, Run, IInv, TypeOK, Task
  <2>2. \A i \in Execs :
        /\ SameRow(i)
        /\ \/ exec'[i].state = exec[i].state
           \/ /\ exec[i].state \in Unfinished /\ exec[i].state # "finalizing"
              /\ exec'[i].state = "finalizing"
              /\ Run(i, exec[i].epoch) = Run(task[t].run.exec, task[t].run.epoch)
    BY <1>0, <1>1, SetStateFacts DEF Unfinished
  <2>3. \A i \in Execs : Run(i, exec[i].epoch) = Run(task[t].run.exec, task[t].run.epoch) =>
          This(i) = task[t].run
    BY <1>0, <1>1, TaskFacts DEF This, Run, IInv, TypeOK, Task
  <2> QED BY <2>2, <2>3
<1> SUFFICES ASSUME NEW f \in Execs PROVE FinalOk(f)' /\ \A u \in Tasks : FinalTask(u, f)'
  BY DEF FinalInv
<1>5. FinalOk(f) /\ \A u \in Tasks : FinalTask(u, f)
  BY DEF FinalInv
<1>6. This(f)' = This(f) /\ exec'[f].stages = exec[f].stages /\ exec'[f].lease = exec[f].lease
  BY <1>4 DEF This, SameRow
<1>7. (Decided(f) => Decided(f)') /\ (exec[f].state \in Terminal => exec'[f].state \in Terminal)
  BY <1>4 DEF Decided, Terminal, Unfinished
<1>8. (Publishing(f)' => Publishing(f)) /\ \A u \in Tasks : Unstarted(u, f)' => Unstarted(u, f)
  BY <1>1, <1>2, <1>3, <1>6 DEF Publishing, Committing, Unstarted
<1>9. \A u \in Tasks : CanSave(u, f)' => CanSave(u, f)
  BY <1>1, <1>2, <1>3, <1>6 DEF CanSave
<1>10. This(f) = task[t].run => exec[f].stages = NumStages
  <2>1. This(f) = task[t].run => task[t].run.exec = f
    BY DEF This, Run
  <2>2. TaskOk(t) /\ task[t].index \in Nat /\ exec[f].stages \in 0 .. NumStages
    BY TaskFacts DEF JInv, SlotInv, IInv, TypeOK, Task, ExecutionRow
  <2> HIDE DEF This
  <2> QED BY <1>1, <2>1, <2>2, ParameterAssumption DEF TaskOk
<1>11. exec'[f].state = "finalizing" => exec'[f].stages > 0
  BY <1>4, <1>5, <1>6, <1>10, ParameterAssumption DEF FinalOk
<1>12. exec'[f].state = "finalizing" => \A u \in Tasks : ~CanSave(u, f)'
  <2>1. CASE This(f) = task[t].run
    BY <1>6, <1>10, <2>1, IndexesAreNatural, ParameterAssumption DEF CanSave
  <2>2. CASE This(f) # task[t].run
    BY <1>4, <1>5, <1>9, <2>2 DEF FinalTask
  <2> QED BY <2>1, <2>2
<1>13. wf[f].pc = "await" /\ task'[wf[f].task].out = "finished" => Decided(f)'
  <2>1. CASE wf[f].pc = "await" /\ wf[f].task = t
    <3>1. task[t].run = This(f) /\ exec[f].state # "absent"
      BY <1>1, <2>1, ParameterAssumption
      DEF JInv, SlotInv, SlotOk, IInv, FenceInv, ActivitiesHaveRows
    <3>2. e = f /\ exec[f].epoch = task[t].run.epoch /\ exec[f] \in ExecutionRow
      BY <1>0, <3>1 DEF This, Run, IInv, TypeOK
    <3>3. exec[f].state \in Unfinished => exec'[f].state = "finalizing"
      <4>1. exec[f].state \in Unfinished => Settable(task[t].run)
        BY <1>0, <3>2 DEF Settable
      <4>2. Settable(task[t].run) =>
              exec' = [exec EXCEPT ![e] = [exec[e] EXCEPT !.state = NextState(e, "finalizing")]]
        BY <1>0, <1>1 DEF SetState
      <4>3. NextState(e, "finalizing") = "finalizing"
        BY DEF NextState
      <4>4. [exec[f] EXCEPT !.state = "finalizing"].state = "finalizing"
        BY <3>2 DEF ExecutionRow
      <4>5. exec[f].state \in Unfinished =>
              exec' = [exec EXCEPT ![f] = [exec[f] EXCEPT !.state = "finalizing"]]
        BY <3>2, <4>1, <4>2, <4>3
      <4> QED BY Zenon, <4>4, <4>5 DEF IInv, TypeOK
    <3>4. exec[f].state \in Unfinished \cup Terminal
      BY <3>1, <3>2 DEF ExecutionRow
    <3> QED BY <1>7, <3>3, <3>4 DEF Decided
  <2>2. CASE wf[f].pc = "await" /\ wf[f].task # t
    BY <1>3, <1>5, <1>7, <2>2, SlotsTypes DEF FinalOk, JInv, SlotInv, SlotOk
  <2> QED BY <2>1, <2>2
<1>14. FinalOk(f)'
  BY <1>1, <1>5, <1>7, <1>8, <1>11, <1>13 DEF FinalOk, Unpublished
<1>15. ASSUME NEW u \in Tasks PROVE FinalTask(u, f)'
  BY <1>1, <1>5, <1>8, <1>12 DEF FinalTask
<1> QED BY <1>14, <1>15

(* The checkpoint that the lease of t guards is saved. *)
Saves(t, e, final, out) ==
  /\ task[t].pc = "save" /\ task[t].run = This(e)
  /\ task[t].token = exec[e].lease /\ task[t].index = exec[e].stages
  /\ UNCHANGED <<wf, committed>>
  /\ exec[e].state \in Unfinished
  /\ exec'[e].state = IF final THEN "finalizing" ELSE "queued"
  /\ exec'[e].epoch = exec[e].epoch /\ exec'[e].stages = exec[e].stages + 1
  /\ \A i \in Execs : i # e => exec'[i] = exec[i]
  /\ task' = [task EXCEPT ![t] = Ended(t, out)]
  /\ out = "finished" => final

LEMMA SavedF ==
  ASSUME IInv, JInv, FinalInv, NEW t \in Tasks, NEW e \in Execs, NEW final \in BOOLEAN,
         NEW out, Saves(t, e, final, out)
  PROVE  FinalInv'
<1>1. PICK x : /\ task' = [task EXCEPT ![t] = x] /\ x.pc = "done"
               /\ x.out = "finished" => final
  <2> DEFINE y == Ended(t, out)
  <2>1. task' = [task EXCEPT ![t] = y]
    BY DEF Saves
  <2>2. y.pc = "done" /\ (y.out = "finished" => final)
    BY EndedFields, FreeFields DEF Saves
  <2> HIDE DEF y
  <2> QED BY Zenon, <2>1, <2>2
<1>2. task'[t] = x /\ \A u \in Tasks : u # t => task'[u] = task[u]
  BY Zenon, <1>1, TaskAt
<1>3. Busy(t) /\ CanSave(t, e)
  <2>1. task[t].index < NumStages
    BY DEF IInv, FenceInv, StagesHaveLeases, Saves
  <2> QED BY <2>1 DEF CanSave, Saves, Busy
<1>4. \A f \in Execs : FinalOk(f) /\ \A u \in Tasks : FinalTask(u, f)
  BY DEF FinalInv
<1>5. ~Decided(e)
  BY <1>3, <1>4 DEF Decided, FinalTask, Terminal, Unfinished, Saves
<1>6. \A f \in Execs : This(f)' = This(f) /\ exec[f].stages \in Nat
  BY IndexesAreNatural DEF This, Saves
<1>7. \A f \in Execs : Publishing(f)' => Publishing(f)
  BY <1>1, <1>2, <1>6 DEF Publishing, Committing, Saves
<1>8. \A u \in Tasks, f \in Execs : Unstarted(u, f)' => Unstarted(u, f)
  BY <1>1, <1>2, <1>6 DEF Unstarted
<1>9. ASSUME NEW f \in Execs, f # e PROVE FinalOk(f)' /\ \A u \in Tasks : FinalTask(u, f)'
  <2>1. exec'[f] = exec[f] /\ This(f) # This(e)
    BY <1>9 DEF This, Run, Saves
  <2>2. wf[f].pc = "await" => wf[f].task # t /\ wf[f].task \in Tasks
    <3>1. SlotOk(f) /\ NoTask \notin Tasks
      BY ParameterAssumption DEF JInv, SlotInv
    <3>2. task[t].run # This(f)
      BY <2>1 DEF Saves
    <3> QED BY <1>3, <3>1, <3>2, SlotsTypes DEF SlotOk
  <2>3. wf[f].pc = "await" => task'[wf[f].task].out = task[wf[f].task].out
    BY <1>2, <2>2
  <2>4. \A u \in Tasks : CanSave(u, f)' => CanSave(u, f)
    BY <1>1, <1>2, <1>6, <2>1 DEF CanSave
  <2> QED BY <1>4, <1>7, <1>8, <2>1, <2>3, <2>4
      DEF FinalOk, FinalTask, Unpublished, Decided, Saves
<1>10. ~Publishing(e)
  BY <1>4, <1>5 DEF FinalOk
<1>11. \A u \in Tasks : ~CanSave(u, e)'
  <2> SUFFICES ASSUME NEW u \in Tasks, CanSave(u, e)' PROVE FALSE
    OBVIOUS
  <2>1. u # t
    BY <1>1, <1>2 DEF CanSave
  <2>2. task[u].run = This(e) /\ task[u].index = exec[e].stages + 1 /\ Busy(u)
    BY <1>2, <1>6, <2>1 DEF CanSave, Busy, Saves
  <2>3. task[u].run.exec = e
    BY <2>2 DEF This, Run
  <2>4. task[u].index <= exec[e].stages
    BY <2>2, <2>3 DEF JInv, SlotInv, TaskOk
  <2>5. exec[e].stages \in Nat
    BY <1>6
  <2> QED BY <2>2, <2>4, <2>5
<1>12. wf[e].pc = "await" /\ task'[wf[e].task].out = "finished" => Decided(e)'
  <2>1. CASE wf[e].pc = "await" /\ wf[e].task = t
    BY <1>1, <1>2, <2>1 DEF Decided, Saves
  <2>2. CASE wf[e].pc = "await" /\ wf[e].task # t
    <3>1. wf[e].task \in Tasks
      BY <2>2, SlotsTypes, ParameterAssumption DEF JInv, SlotInv, SlotOk
    <3> QED BY <1>2, <1>4, <1>5, <2>2, <3>1 DEF FinalOk
  <2> QED BY <2>1, <2>2
<1>13. FinalOk(e)'
  <2>1. ~wf[e].fin /\ ~wf[e].ended
    BY <1>4, <1>5 DEF FinalOk, Decided
  <2>2. exec'[e].stages > 0
    BY <1>6 DEF Saves
  <2>3. wf'[e] = wf[e] /\ ~Publishing(e)'
    BY <1>7, <1>10 DEF Saves
  <2> QED BY <1>4, <1>12, <2>1, <2>2, <2>3 DEF FinalOk
<1>14. ASSUME NEW u \in Tasks PROVE FinalTask(u, e)'
  <2>1. Unstarted(u, e)' => wf'[e].task = u \/ wf'[e].pc = "closed"
    BY <1>4, <1>8 DEF FinalTask, Saves
  <2> QED BY <1>7, <1>10, <1>11, <2>1 DEF FinalTask
<1> QED BY <1>9, <1>13, <1>14 DEF FinalInv

LEMMA SaveF ==
  ASSUME IInv, JInv, FinalInv, NEW t \in Tasks, NEW compiled \in BOOLEAN, SaveJudgeStage(t, compiled)
  PROVE  FinalInv'
<1>1. PICK e \in Execs : e = task[t].run.exec
  BY SaveFacts
<1>2. task[t].pc = "save" /\ UNCHANGED <<wf, committed>> /\ task[t] \in Task
  BY SaveFacts, TaskFacts
<1>3. CASE UNCHANGED exec /\ \E x : /\ task' = [task EXCEPT ![t] = x]
                                    /\ x.pc = "catch" /\ x.out = task[t].out
  <2>1. \A u \in Tasks : task'[u] = task[u] \/ Onward(u)
    BY Zenon, <1>3, OnwardMove
  <2> QED BY <1>2, <1>3, <2>1, StateGoSame, QuietF
<1>4. ASSUME HoldsLease(t), NextCheckpoint(t), exec[e].state \in Unfinished,
             NEW final \in BOOLEAN, NEW out, out = "finished" => final,
             exec'[e].state = IF final THEN "finalizing" ELSE "queued",
             exec'[e].epoch = exec[e].epoch, exec'[e].stages = exec[e].stages + 1,
             \A i \in Execs : i # e => exec'[i] = exec[i],
             task' = [task EXCEPT ![t] = Ended(t, out)]
      PROVE  FinalInv'
  <2>1. /\ task[t].run = This(e) /\ task[t].token = exec[e].lease
        /\ task[t].index = exec[e].stages
    BY <1>1, <1>2, <1>4 DEF This, Run, Task, HoldsLease, NextCheckpoint
  <2>2. Saves(t, e, final, out)
    BY <1>2, <1>4, <2>1 DEF Saves
  <2> QED BY <2>2, SavedF
<1>5. CASE /\ HoldsLease(t) /\ NextCheckpoint(t) /\ exec[e].state \in Unfinished
           /\ exec'[e].state = IF Final(t, compiled) THEN "finalizing" ELSE "queued"
           /\ exec'[e].epoch = exec[e].epoch /\ exec'[e].stages = exec[e].stages + 1
           /\ \A i \in Execs : i # e => exec'[i] = exec[i]
           /\ task' = [task EXCEPT ![t] = Ended(t, IF Final(t, compiled) THEN "finished" ELSE "saved")]
  <2>1. PICK final \in BOOLEAN : final = Final(t, compiled)
    BY Zenon DEF Final
  <2>2. PICK out : out = IF Final(t, compiled) THEN "finished" ELSE "saved"
    OBVIOUS
  <2>3. out = "finished" => final
    BY <2>1, <2>2
  <2>4. /\ task' = [task EXCEPT ![t] = Ended(t, out)]
        /\ exec'[e].state = IF final THEN "finalizing" ELSE "queued"
    BY <1>5, <2>1, <2>2
  <2> QED BY Zenon, <1>4, <1>5, <2>3, <2>4
<1> QED BY <1>1, <1>3, <1>5, SaveFacts

LEMMA InitF == Init => FinalInv
<1> SUFFICES ASSUME Init PROVE FinalInv
  OBVIOUS
<1>1. /\ \A e \in Execs : exec[e].state = "absent" /\ wf[e] = NoWorkflow
      /\ \A t \in Tasks : task[t] = FreeTask
      /\ committed = {}
  BY DEF Init, NewExecution
<1>2. /\ NoWorkflow.pc = "none" /\ ~NoWorkflow.fin /\ ~NoWorkflow.ended
      /\ FreeTask.pc = "done"
  BY DEF NoWorkflow, FreeTask
<1> QED BY <1>1, <1>2
    DEF FinalInv, FinalOk, FinalTask, Unpublished, Publishing, Committing, Unstarted, CanSave

LEMMA WorkflowStepsF ==
  ASSUME ~LateClaims, IInv, JInv, FinalInv, NEW e \in Execs, WorkflowStep(e) \/ WorkflowFault(e)
  PROVE  FinalInv'
<1>1. CASE WorkflowStep(e)
  BY Zenon, <1>1, ReadStatusF, ReconcileF, SetBlockedF, StageAnsweredF, CompleteAnsweredF, ApplyEffectsF,
     AwaitCleanupF, FinishF, RecoverF, QueueStageF, StartCompleteF DEF WorkflowStep
<1>2. CASE WorkflowFault(e)
  BY Zenon, <1>2, StageTimedOutF, CompleteTimedOutF, ActivityFailsF, ReconcileF, FinishF, RecoverF
  DEF WorkflowFault
<1> QED BY <1>1, <1>2

LEMMA TaskStepsF ==
  ASSUME IInv, JInv, FinalInv, NEW t \in Tasks, TaskStep(t) \/ TaskFault(t)
  PROVE  FinalInv'
<1>1. CASE TaskStep(t)
  BY Zenon, <1>1, ClaimF, PastLastStageF, QuietActivitiesF, SaveF DEF TaskStep, Fails
<1>2. CASE TaskFault(t)
  BY Zenon, <1>2, QuietActivitiesF DEF TaskFault, Fails
<1> QED BY <1>1, <1>2

LEMMA FinalUnchanged ==
  ASSUME IInv, JInv, FinalInv, UNCHANGED <<exec, wf, task, committed>>
  PROVE  FinalInv'
BY StateGoSame, QuietF

(* Without late claims, an execution that publishes has been decided.        *)
LEMMA InductiveF ==
  ASSUME ~LateClaims
  PROVE  IInv /\ JInv /\ FinalInv /\ [Next]_vars => FinalInv'
<1> SUFFICES ASSUME IInv, JInv, FinalInv, [Next]_vars PROVE FinalInv'
  OBVIOUS
<1>1. CASE Accept \/ Rejudge
  BY Zenon, <1>1, CreateF DEF Accept, Rejudge
<1>2. ASSUME NEW e \in Execs,
             \/ CancelRejudge(e) \/ Dispatch(e, TRUE) \/ Dispatch(e, FALSE)
             \/ Redispatch(e) \/ TerminateStalled(e) \/ NewEpoch(e)
             \/ CleanupTerminal(e) \/ LeaseLapses(e)
      PROVE  FinalInv'
  BY Zenon, <1>2, RowStepsF, DispatchF, TerminateF, NewEpochF
<1>3. CASE UNCHANGED vars
  BY <1>3, FinalUnchanged DEF vars
<1>4. ASSUME NEW t \in Tasks, HeartbeatJudgeStage(t) PROVE FinalInv'
  <2>1. 1 \in Execs
    BY ParameterAssumption DEF Execs
  <2> QED BY <1>4, <2>1, RowStepsF
<1>5. ASSUME NEW k \in Tokens, ResourcesExpire(k) PROVE FinalInv'
  BY <1>5, FinalUnchanged DEF ResourcesExpire
<1> QED BY Zenon, <1>1, <1>2, <1>3, <1>4, <1>5, WorkflowStepsF, TaskStepsF DEF Next

-----------------------------------------------------------------------------
(* Rows that stay where they are on the way to a verdict. *)
Steady ==
  /\ sub'.detail = sub.detail /\ committed' = committed
  /\ \A i \in Execs :
       /\ exec[i].state \in Unfinished => exec'[i].state \in Unfinished
       /\ exec[i].state \notin Unfinished => exec'[i].state = exec[i].state

LEMMA QuietIsSteady == RowsQuiet => Steady
BY DEF RowsQuiet, SubmissionGo, Steady

LEMMA SameIsSteady == UNCHANGED <<sub, exec, committed>> => Steady
BY DEF Steady

LEMMA SteadyWorkflow ==
  ASSUME IInv, JInv, NEW e \in Execs, WorkflowStep(e) \/ WorkflowFault(e)
  PROVE  Steady \/ \E answered \in BOOLEAN : FinishJudgeExecution(e, answered)
<1>1. This(e).exec = e
  BY DEF This, Run
<1>2. ASSUME NEW s \in Unfinished, SetState(This(e), s), UNCHANGED committed PROVE Steady
  BY <1>1, <1>2, QuietSetState, QuietIsSteady
<1>3. SetBlocked(e) => Steady
  BY <1>2 DEF SetBlocked, Unfinished
<1>4. ASSUME NEW t \in Tasks, QueueStage(e, t) PROVE Steady
  BY <1>2, <1>4 DEF QueueStage, Unfinished
<1>5. ASSUME NEW recorded \in BOOLEAN, Recover(e, recorded) PROVE Steady
  <2>1. CASE recorded
    <3>1. RecoveryStates(wf[e].fin) \subseteq Unfinished
      BY DEF RecoveryStates, Unfinished
    <3> QED BY <1>2, <1>5, <2>1, <3>1 DEF Recover
  <2>2. CASE ~recorded
    BY <1>5, <2>2, SameIsSteady DEF Recover
  <2> QED BY <2>1, <2>2
<1>6. ASSUME NEW safe \in BOOLEAN, ReconcileStage(e, safe) PROVE Steady
  BY <1>6, QuietReleased, QuietIsSteady, SameIsSteady DEF ReconcileStage
<1>7. ASSUME \/ ReadStatus(e) \/ ReconcileCheck(e) \/ StageAnswered(e) \/ CompleteAnswered(e)
             \/ ApplyEffects(e) \/ AwaitCleanup(e) \/ StageTimedOut(e) \/ CompleteTimedOut(e)
             \/ ActivityFails(e) \/ \E t \in Tasks : StartComplete(e, t)
      PROVE  Steady
  BY Zenon, <1>7, SameIsSteady DEF ReadStatus, ReconcileCheck, StageAnswered, CompleteAnswered, ApplyEffects,
     AwaitCleanup, StageTimedOut, CompleteTimedOut, ActivityFails, StartComplete
<1>8. CASE WorkflowStep(e)
  BY Zenon, <1>3, <1>4, <1>5, <1>6, <1>7, <1>8 DEF WorkflowStep
<1>9. CASE WorkflowFault(e)
  BY Zenon, <1>5, <1>6, <1>7, <1>9 DEF WorkflowFault
<1> QED BY <1>8, <1>9

LEMMA SteadyTask ==
  ASSUME IInv, JInv, NEW t \in Tasks, TaskStep(t) \/ TaskFault(t) \/ HeartbeatJudgeStage(t)
  PROVE  Steady \/ CompleteJudge(t)
<1>1. ASSUME \/ StartSandbox(t) \/ CompletePreflight(t) \/ StorageFails(t) \/ WorkerCrash(t)
             \/ \E b \in BOOLEAN : SandboxRan(t, b) \/ Fails(t, b)
      PROVE  Steady
  BY Zenon, <1>1, SameIsSteady DEF StartSandbox, CompletePreflight, StorageFails, WorkerCrash, SandboxRan,
     Fails, StageFails, CatchCleanup, CleanupStage
<1>2. ReleaseJudgeStage(t) => Steady
  BY QuietReleased, QuietIsSteady DEF ReleaseJudgeStage
<1>3. GuardVerdict(t) => Steady
  BY GuardFacts DEF GuardVerdict, Steady
<1>4. ClaimJudgeLease(t) => Steady
  <2> SUFFICES ASSUME ClaimJudgeLease(t) PROVE Steady
    OBVIOUS
  <2>1. PICK e \in Execs : e = task[t].run.exec
    BY Zenon, ClaimFacts
  <2> QED BY Zenon, <2>1, ClaimFacts DEF Steady, Unfinished
<1>5. ASSUME NEW compiled \in BOOLEAN, SaveJudgeStage(t, compiled) PROVE Steady
  <2>1. PICK e \in Execs : e = task[t].run.exec
    BY <1>5, SaveFacts
  <2> QED BY <1>5, <2>1, SaveFacts DEF Steady, Unfinished
<1>6. PastLastStage(t) => Steady
  BY PastLastStageFacts, QuietSetState, QuietIsSteady DEF Unfinished
<1>7. HeartbeatJudgeStage(t) => Steady
  BY FreshFacts DEF HeartbeatJudgeStage, Steady
<1>8. CASE TaskStep(t)
  BY Zenon, <1>1, <1>2, <1>3, <1>4, <1>5, <1>6, <1>8 DEF TaskStep, Fails
<1>9. CASE TaskFault(t)
  BY Zenon, <1>1, <1>9 DEF TaskFault, Fails
<1> QED BY <1>7, <1>8, <1>9

LEMMA SteadyOther ==
  ASSUME IInv, JInv, NEW e \in Execs,
         \/ Dispatch(e, TRUE) \/ Dispatch(e, FALSE) \/ Redispatch(e) \/ TerminateStalled(e)
         \/ NewEpoch(e) \/ CleanupTerminal(e) \/ LeaseLapses(e)
  PROVE  Steady
<1>1. NewEpoch(e) => Steady
  <2> SUFFICES ASSUME NewEpoch(e) PROVE Steady
    OBVIOUS
  <2>1. sub'.detail = sub.detail
    BY NewEpochFacts
  <2>2. exec[e].state \in Unfinished /\ exec'[e].state \in Unfinished
    BY NewEpochFacts DEF Unfinished
  <2> QED BY <2>1, <2>2, NewEpochFacts DEF Steady
<1>2. CleanupTerminal(e) => Steady
  BY CleanupTerminalFacts DEF CleanupTerminal, Steady
<1>3. LeaseLapses(e) => Steady
  BY FreshFacts DEF LeaseLapses, Steady
<1>4. \/ Dispatch(e, TRUE) \/ Dispatch(e, FALSE) \/ Redispatch(e) \/ TerminateStalled(e)
      => Steady
  BY SameIsSteady DEF Dispatch, Redispatch, TerminateStalled
<1> QED BY Zenon, <1>1, <1>2, <1>3, <1>4

-----------------------------------------------------------------------------
(* The promise of judging. *)

LEMMA PhaseFacts ==
  ASSUME IInv, JInv, NEW e \in Execs
  PROVE  /\ PhaseOf(e) = "absent" <=> exec[e].state = "absent"
         /\ PhaseOf(e) = "open" <=> exec[e].state \in Unfinished /\ e \notin committed
         /\ PhaseOf(e) = "committed" <=> exec[e].state \in Unfinished /\ e \in committed
         /\ PhaseOf(e) = "void" <=> exec[e].state = "cancelled"
         /\ PhaseOf(e) = "finalized" <=> exec[e].state = "completed"
<1>1. exec[e].state \in {"absent"} \cup Unfinished \cup Terminal
  BY DEF IInv, TypeOK, ExecutionRow
<1> QED BY <1>1 DEF PhaseOf, Unfinished, Terminal

LEMMA SteadyStutters ==
  ASSUME IInv, JInv, Steady
  PROVE  UNCHANGED Promise!vars
<1>1. ASSUME NEW e \in Execs PROVE PhaseOf(e)' = PhaseOf(e)
  <2>1. exec[e].state \in {"absent"} \cup Unfinished \cup Terminal
    BY DEF IInv, TypeOK, ExecutionRow
  <2>2. CASE exec[e].state \in Unfinished
    BY <2>2 DEF PhaseOf, Unfinished, Steady
  <2>3. CASE exec[e].state \notin Unfinished
    BY <2>1, <2>3 DEF PhaseOf, Steady, Terminal
  <2> QED BY <2>2, <2>3
<1>2. [e \in Execs |-> PhaseOf(e)]' = [e \in Execs |-> PhaseOf(e)]
  BY <1>1
<1>3. sub'.detail = sub.detail
  BY DEF Steady
<1> QED BY <1>2, <1>3 DEF Promise!vars

(* A verdict that is committed and not finalized belongs to a finalizing     *)
(* execution.                                                                *)
LEMMA CommittedIsFinalizing ==
  ASSUME FinalInv, NEW e \in Execs, e \in committed, exec[e].state \in Unfinished
  PROVE  exec[e].state = "finalizing"
BY DEF FinalInv, FinalOk, Publishing, Decided, Unfinished, Terminal

LEMMA CreateOpens ==
  ASSUME IInv, JInv, FinalInv, NEW rejudge \in BOOLEAN, CreateJudgeExecution(rejudge)
  PROVE  Promise!Next
<1>1. PICK n \in Execs : n = sub.gen + 1
  BY CreateFacts
<1>2. /\ exec'[n].state = "queued" /\ sub'.detail = sub.detail /\ committed' = committed
      /\ \A i \in Execs : exec[i].state # "finalizing"
      /\ \A i \in Execs : i # n => exec'[i] = Superseded(exec[i])
  BY <1>1, CreateFacts
<1>3. sub.gen \in Nat
  BY ParameterAssumption DEF IInv, TypeOK, SubmissionRow
<1>4. exec[n].state = "absent" /\ n \notin committed
  BY <1>1, <1>3 DEF JInv, OwnerInv
<1>5. \A i \in Execs : i < n => exec[i].state # "absent"
  BY <1>1, <1>3 DEF JInv, OwnerInv, Execs
<1>6. \A i \in Execs : ~(exec[i].state \in Unfinished /\ i \in committed)
  BY <1>2, CommittedIsFinalizing
<1>7. PhaseOf(n)' = "open"
  BY <1>2, <1>4 DEF PhaseOf
<1>8. ASSUME NEW i \in Execs, i # n
      PROVE  PhaseOf(i)' = IF PhaseOf(i) = "open" THEN "void" ELSE PhaseOf(i)
  <2>1. CASE exec[i].state \in Unfinished
    <3>1. PhaseOf(i) = "open"
      BY <1>6, <2>1, PhaseFacts
    <3>2. exec'[i].state = "cancelled"
      BY <1>2, <1>8, <2>1, SupersededFields DEF IInv, TypeOK
    <3> QED BY <3>1, <3>2 DEF PhaseOf
  <2>2. CASE exec[i].state \notin Unfinished
    <3>1. PhaseOf(i) # "open"
      BY <2>2, PhaseFacts
    <3>2. exec'[i] = exec[i]
      BY <1>2, <1>8, <2>2, SupersededFields DEF IInv, TypeOK
    <3> QED BY <1>2, <3>1, <3>2 DEF PhaseOf
  <2> QED BY <2>1, <2>2
<1> DEFINE phase == [e \in Execs |-> PhaseOf(e)]
<1>9. Promise!Open(n)
  <2>1. phase[n] = "absent"
    BY <1>4, PhaseFacts
  <2>2. \A i \in Execs : i < n => phase[i] # "absent"
    BY <1>5, PhaseFacts
  <2>3. \A i \in Execs : phase[i] # "committed"
    BY <1>6, PhaseFacts
  <2>4. phase' = [i \in Execs |-> CASE i = n -> "open"
                                    [] i # n /\ phase[i] = "open" -> "void"
                                    [] OTHER -> phase[i]]
    BY <1>7, <1>8
  <2> QED BY <1>2, <2>1, <2>2, <2>3, <2>4 DEF Promise!Open, Promise!Execs, Execs
<1> QED BY <1>9 DEF Promise!Next, Promise!Execs, Execs

LEMMA CancelVoids ==
  ASSUME IInv, JInv, FinalInv, NEW e \in Execs, CancelRejudge(e)
  PROVE  Promise!Next
<1>1. /\ exec[e].state \in Unfinished /\ exec'[e].state = "cancelled"
      /\ \A i \in Execs : i # e => exec'[i] = exec[i]
      /\ sub'.detail = sub.detail /\ committed' = committed /\ ~CommittedFinalizing(e)
  BY CancelFacts
<1>2. e \notin committed
  <2> SUFFICES ASSUME e \in committed PROVE FALSE
    OBVIOUS
  <2>1. exec[e].state = "finalizing" /\ sub.gen = e
    BY <1>1, CommittedIsFinalizing DEF IInv, FenceInv, OpenExecutionOwnsSubmission
  <2>2. sub.active = NoRun
    BY <2>1 DEF JInv, OwnerInv
  <2> QED BY <1>1, <2>1, <2>2 DEF CommittedFinalizing
<1> DEFINE phase == [i \in Execs |-> PhaseOf(i)]
<1>3. phase[e] = "open"
  BY <1>1, <1>2, PhaseFacts
<1>4. phase' = [phase EXCEPT ![e] = "void"]
  BY Zenon, <1>1 DEF PhaseOf
<1> QED BY Zenon, <1>1, <1>3, <1>4 DEF Promise!Next, Promise!Void, Promise!Execs, Execs

LEMMA CommitCommits ==
  ASSUME IInv, JInv, NEW t \in Tasks, CompleteJudge(t)
  PROVE  Promise!Next \/ UNCHANGED Promise!vars
<1>1. PICK e \in Execs : e = task[t].run.exec
  BY CommitFacts
<1>2. CASE UNCHANGED <<sub, committed>>
  BY <1>2, CommitFacts, SameIsSteady, SteadyStutters
<1>3. CASE /\ exec[e].state \in Unfinished /\ e \notin committed
           /\ sub'.detail = e /\ committed' = committed \cup {e}
  <2> DEFINE phase == [i \in Execs |-> PhaseOf(i)]
  <2>1. phase[e] = "open"
    BY <1>3, PhaseFacts
  <2>2. exec' = exec
    BY CommitFacts
  <2>3. PhaseOf(e)' = "committed" /\ \A i \in Execs : i # e => PhaseOf(i)' = PhaseOf(i)
    BY <1>3, <2>2 DEF PhaseOf, Unfinished
  <2>4. phase' = [phase EXCEPT ![e] = "committed"]
    BY Zenon, <2>3
  <2> QED BY Zenon, <1>3, <2>1, <2>4 DEF Promise!Next, Promise!Commit, Promise!Execs, Execs
<1> QED BY <1>1, <1>2, <1>3, CommitFacts

LEMMA FinishFinalizes ==
  ASSUME IInv, JInv, NEW e \in Execs, NEW answered \in BOOLEAN, FinishJudgeExecution(e, answered)
  PROVE  Promise!Next \/ UNCHANGED Promise!vars
<1>1. UNCHANGED <<sub, committed>>
  BY FinishFacts
<1>2. CASE exec[e].state \in Terminal
  <2>1. \A i \in Execs : exec'[i].state = exec[i].state
    BY <1>2, FinishFacts DEF Terminal
  <2>2. Steady
    BY <1>1, <2>1 DEF Steady
  <2> QED BY <2>2, SteadyStutters
<1>3. CASE exec[e].state \notin Terminal
  <2>1. e \in committed /\ exec[e].state # "absent"
    BY <1>3, FinishFacts
    DEF JInv, SettledInv, SettledOk, PastPublish, Settled, IInv, FenceInv, ActivitiesHaveRows
  <2>2. exec[e].state \in Unfinished
    BY <1>3, <2>1 DEF IInv, TypeOK, ExecutionRow
  <2>3. exec'[e].state = "completed" /\ \A i \in Execs : i # e => exec'[i] = exec[i]
    BY <1>3, FinishFacts DEF Terminal
  <2> DEFINE phase == [i \in Execs |-> PhaseOf(i)]
  <2>4. phase[e] = "committed"
    BY <2>1, <2>2, PhaseFacts
  <2>5. PhaseOf(e)' = "finalized" /\ \A i \in Execs : i # e => PhaseOf(i)' = PhaseOf(i)
    BY <1>1, <2>3 DEF PhaseOf
  <2>6. phase' = [phase EXCEPT ![e] = "finalized"]
    BY Zenon, <2>5
  <2> QED BY Zenon, <1>1, <2>4, <2>6 DEF Promise!Next, Promise!Finalize, Promise!Execs, Execs
<1> QED BY <1>2, <1>3

LEMMA PromiseInit == Init => Promise!Init
BY DEF Init, NewExecution, Promise!Init, PhaseOf, Promise!Execs, Execs

LEMMA PromiseNext == IInv /\ JInv /\ FinalInv /\ [Next]_vars => [Promise!Next]_(Promise!vars)
<1> SUFFICES ASSUME IInv, JInv, FinalInv, [Next]_vars
             PROVE  Promise!Next \/ UNCHANGED Promise!vars
  OBVIOUS
<1>1. CASE Accept \/ Rejudge
  BY Zenon, <1>1, CreateOpens DEF Accept, Rejudge
<1>2. ASSUME NEW e \in Execs, CancelRejudge(e) PROVE Promise!Next
  BY <1>2, CancelVoids
<1>3. ASSUME NEW e \in Execs,
             \/ Dispatch(e, TRUE) \/ Dispatch(e, FALSE) \/ Redispatch(e) \/ TerminateStalled(e)
             \/ NewEpoch(e) \/ CleanupTerminal(e) \/ LeaseLapses(e)
      PROVE  UNCHANGED Promise!vars
  BY Zenon, <1>3, SteadyOther, SteadyStutters
<1>4. ASSUME NEW e \in Execs, WorkflowStep(e) \/ WorkflowFault(e)
      PROVE  Promise!Next \/ UNCHANGED Promise!vars
  BY <1>4, SteadyWorkflow, SteadyStutters, FinishFinalizes
<1>5. ASSUME NEW t \in Tasks, TaskStep(t) \/ TaskFault(t) \/ HeartbeatJudgeStage(t)
      PROVE  Promise!Next \/ UNCHANGED Promise!vars
  BY <1>5, SteadyTask, SteadyStutters, CommitCommits
<1>6. ASSUME NEW k \in Tokens, ResourcesExpire(k) PROVE UNCHANGED Promise!vars
  BY <1>6, SameIsSteady, SteadyStutters DEF ResourcesExpire
<1>7. CASE UNCHANGED vars
  BY <1>7, SameIsSteady, SteadyStutters DEF vars
<1> QED BY Zenon, <1>1, <1>2, <1>3, <1>4, <1>5, <1>6, <1>7 DEF Next

(* A commit finds its execution finalizing. *)
LEMMA CommitDecided ==
  ASSUME IInv, JInv, FinalInv, [Next]_vars, NEW e \in committed' \ committed
  PROVE  exec[e].state = "finalizing" /\ exec[e].stages > 0
<1>1. CASE Steady
  BY <1>1 DEF Steady
<1>2. ASSUME NEW t \in Tasks, CompleteJudge(t)
      PROVE  exec[e].state = "finalizing" /\ exec[e].stages > 0
  <2>1. PICK f \in Execs : f = task[t].run.exec
    BY <1>2, CommitFacts
  <2>2. /\ f = e /\ task[t].pc = "commit" /\ task[t].run = This(e) /\ exec[e].state \in Unfinished
    BY <1>2, <2>1, CommitFacts
  <2>3. Publishing(e)
    BY <2>2 DEF Publishing, Committing
  <2> QED BY <2>1, <2>2, <2>3 DEF FinalInv, FinalOk, Decided, Unfinished, Terminal
<1>3. CASE Accept \/ Rejudge
  BY Zenon, <1>3, CreateFacts DEF Accept, Rejudge
<1>4. CASE \E i \in Execs : CancelRejudge(i)
  BY <1>4, CancelFacts
<1>5. CASE \E i \in Execs, answered \in BOOLEAN : FinishJudgeExecution(i, answered)
  BY <1>5, FinishFacts
<1>6. CASE UNCHANGED vars \/ \E k \in Tokens : ResourcesExpire(k)
  BY <1>6 DEF vars, ResourcesExpire
<1> QED BY Zenon, <1>1, <1>2, <1>3, <1>4, <1>5, <1>6, SteadyWorkflow, SteadyTask, SteadyOther DEF Next

(* A verdict is committed from a finalizing execution only. *)
THEOREM VerdictIsDecided ==
  ASSUME ~LateClaims PROVE Spec => VerdictFromFinalizing
<1>1. IInv /\ JInv /\ FinalInv /\ [Next]_vars =>
        [\A e \in committed' \ committed : exec[e].state = "finalizing" /\ exec[e].stages > 0]_vars
  BY CommitDecided
<1>2. IInv /\ JInv /\ FinalInv /\ [Next]_vars => FinalInv'
  BY InductiveF
<1> QED BY <1>1, <1>2, InitF, InvarianceJ, PTL DEF Spec, VerdictFromFinalizing

(* Judging keeps its promise: JudgePromise is implemented. *)
THEOREM PromiseIsKept ==
  ASSUME ~LateClaims PROVE Spec => KeepsPromise
<1>1. IInv /\ JInv /\ FinalInv /\ [Next]_vars => FinalInv'
  BY InductiveF
<1> QED BY <1>1, PromiseInit, PromiseNext, InitF, InvarianceJ, PTL DEF Spec, KeepsPromise, Promise!Spec

-----------------------------------------------------------------------------
(***************************************************************************)
(* The effects of a verdict, as long as no late commit goes past a         *)
(* workflow: ScoredInv.                                                    *)
(***************************************************************************)

(* The effects of e were applied, or nobody is to apply them any more. *)
Scored(e) == e \in scored \/ exec[e].state \in Terminal

(* What the completion that workflow e waits for has found out. *)
ScoredTask(e) ==
  /\ task[wf[e].task].out = "null" => exec[e].state \in Terminal
  /\ task[wf[e].task].pc \in {"guard", "commit"} => e \notin committed \/ exec[e].state \in Terminal

ScoredOk(e) ==
  /\ PastPublish(wf[e]) => Scored(e)
  /\ wf[e].pc = "completing" => ScoredTask(e)
  /\ \A t \in Tasks : Committing(t, e) => wf[e].task = t \/ wf[e].pc = "closed"

(* What holds as long as no late commit goes past a workflow. *)
ScoredInv == CompletedIsScored /\ \A e \in Execs : ScoredOk(e)

-----------------------------------------------------------------------------
LEMMA CompletingWaits ==
  ASSUME IInv, JInv, NEW e \in Execs, wf[e].pc = "completing"
  PROVE  /\ wf[e].task \in Tasks /\ wf[e].task \in Slots(e)
         /\ task[wf[e].task].kind = "complete"
         /\ Busy(wf[e].task) => task[wf[e].task].run = This(e)
BY SlotsTypes DEF JInv, SlotInv, SlotOk, Slots

(* A completion of the current epoch belongs to the workflow that waits for  *)
(* it, or to one that was terminated.                                        *)
LEMMA CommittingWhere ==
  ASSUME IInv, JInv, ScoredInv, NEW e \in Execs, NEW t \in Tasks, Committing(t, e)
  PROVE  wf[e].pc = "closed" \/ (wf[e].pc = "completing" /\ wf[e].task = t)
BY ParameterAssumption DEF ScoredInv, ScoredOk, Committing, JInv, SlotInv, SlotOk, TaskOk, PcOk

LEMMA ScoredElsewhere ==
  ASSUME IInv, JInv, ScoredInv, NEW e \in Execs, WorkflowAlone(e), scored \subseteq scored',
         NEW f \in Execs, f # e
  PROVE  ScoredOk(f)' /\ (exec'[f].state = "completed" => f \in scored')
<1>1. /\ wf'[f] = wf[f] /\ exec'[f] = exec[f] /\ This(f)' = This(f)
      /\ \A t \in Slots(f) : task'[t] = task[t]
      /\ \A t \in Tasks : Busy(t)' /\ task'[t].run = This(f) => task'[t] = task[t]
      /\ committed' = committed
  BY Elsewhere DEF WorkflowAlone
<1>2. ScoredOk(f) /\ CompletedIsScored
  BY DEF ScoredInv
<1>3. \A t \in Tasks : Committing(t, f)' => Committing(t, f)
  BY <1>1 DEF Committing, Busy
<1>4. wf[f].pc = "completing" => ScoredTask(f)'
  BY <1>1, <1>2, CompletingWaits DEF ScoredOk, ScoredTask
<1>5. PastPublish(wf[f]) => Scored(f)'
  BY <1>1, <1>2 DEF ScoredOk, Scored
<1> QED BY <1>1, <1>2, <1>3, <1>4, <1>5 DEF ScoredOk, CompletedIsScored

LEMMA ScoredGoes ==
  ASSUME IInv, JInv, ScoredInv, NEW e \in Execs, WorkflowAlone(e), scored \subseteq scored',
         ScoredOk(e)', exec'[e].state = "completed" => e \in scored'
  PROVE  ScoredInv'
BY ScoredElsewhere DEF ScoredInv, CompletedIsScored

NoneCommits == \A t \in Tasks : task'[t] = task[t] \/ task'[t].pc \notin {"preflight", "guard", "commit"}

LEMMA StartsNone ==
  ASSUME NEW e \in Execs, NoneStarted(e)
  PROVE  NoneCommits
BY DEF NoneStarted, NoneCommits

(* A workflow step that starts no completion. *)
LEMMA ScoredWorkflow ==
  ASSUME IInv, JInv, ScoredInv, NEW e \in Execs, WorkflowAlone(e), scored \subseteq scored',
         NoneCommits, exec'[e].epoch = exec[e].epoch,
         wf[e].pc # "closed", wf'[e].pc # "completing",
         PastPublish(wf'[e]) => Scored(e)',
         \A t \in Tasks : wf[e].task = t /\ Committing(t, e)' => wf'[e].pc = "closed",
         exec'[e].state = "completed" => exec[e].state = "completed" \/ e \in scored'
  PROVE  ScoredInv'
<1>1. This(e)' = This(e)
  BY DEF This
<1>2. ASSUME NEW t \in Tasks, Committing(t, e)' PROVE wf'[e].pc = "closed"
  <2>1. Committing(t, e)
    BY <1>1, <1>2 DEF Committing, NoneCommits
  <2> QED BY <1>2, <2>1, CommittingWhere
<1>3. ScoredOk(e)'
  BY <1>2 DEF ScoredOk
<1> QED BY <1>3, ScoredGoes DEF ScoredInv, CompletedIsScored

LEMMA ScoredLeaving ==
  ASSUME IInv, JInv, ScoredInv, NEW e \in Execs, WorkflowAlone(e), scored \subseteq scored',
         NoneCommits, RowsQuiet, wf[e].pc # "closed", Leaving(wf[e], wf'[e]),
         \A t \in Tasks : wf[e].task = t /\ Committing(t, e)' => wf'[e].pc = "closed"
  PROVE  ScoredInv'
<1>1. PastPublish(wf'[e]) => PastPublish(wf[e])
  BY DEF Leaving, PastPublish
<1>2. Scored(e) => Scored(e)'
  BY DEF Scored, RowsQuiet, Terminal, Unfinished
<1>3. exec'[e].state = "completed" => exec[e].state = "completed"
  BY DEF RowsQuiet, Unfinished
<1>4. exec'[e].epoch = exec[e].epoch /\ wf'[e].pc # "completing"
  BY DEF RowsQuiet, Leaving
<1> QED BY <1>1, <1>2, <1>3, <1>4, ScoredWorkflow DEF ScoredInv, ScoredOk

-----------------------------------------------------------------------------
LEMMA WaitsForNone ==
  ASSUME JInv, NEW e \in Execs, wf[e].pc \notin {"await", "completing"}
  PROVE  \A t \in Tasks : wf[e].task # t
BY ParameterAssumption DEF JInv, SlotInv, SlotOk

LEMMA ReadStatusS ==
  ASSUME IInv, JInv, ScoredInv, NEW e \in Execs, ReadStatus(e)
  PROVE  ScoredInv'
<1>1. wf[e].pc = "status" /\ UNCHANGED <<sub, exec, task, committed, scored>>
  BY DEF ReadStatus
<1>2. PICK w : /\ wf' = [wf EXCEPT ![e] = w]
               /\ w.more = wf[e].more /\ w.published = wf[e].published
               /\ w.pc \in {"reconcile", "closed", "queue", "settle", "publish"}
               /\ w.pc = "settle" => w.published
  BY ReadStatusFacts
<1>3. WorkflowAlone(e) /\ wf'[e] = w /\ NoneCommits
  BY Zenon, <1>1, <1>2, AloneIs, NoneStartedSame, StartsNone
<1>4. PastPublish(w) => Scored(e)'
  BY <1>1, <1>2 DEF PastPublish, Scored, ScoredInv, ScoredOk
<1> QED BY <1>1, <1>2, <1>3, <1>4, WaitsForNone, ScoredWorkflow

LEMMA ReconcileS ==
  ASSUME IInv, JInv, ScoredInv, NEW e \in Execs,
         ReconcileCheck(e) \/ \E safe \in BOOLEAN : ReconcileStage(e, safe)
  PROVE  ScoredInv'
<1>1. /\ wf[e].pc \in {"reconcile", "reconciling"} /\ UNCHANGED <<task, committed, scored>>
      /\ \A f \in Execs : f # e => exec'[f] = exec[f]
      /\ RowsQuiet
  <2>1. CASE ReconcileCheck(e)
    BY <2>1, QuietUnchanged DEF ReconcileCheck
  <2>2. ASSUME NEW safe \in BOOLEAN, ReconcileStage(e, safe)
        PROVE  /\ wf[e].pc \in {"reconcile", "reconciling"} /\ UNCHANGED <<task, committed, scored>>
               /\ \A f \in Execs : f # e => exec'[f] = exec[f]
               /\ RowsQuiet
    <3>1. This(e).exec = e
      BY DEF This, Run
    <3>2. UNCHANGED exec \/ exec' = Released(This(e), wf[e].tok)
      BY <2>2, ReconcileStageFacts
    <3>3. \A f \in Execs : f # e => exec'[f] = exec[f]
      BY <3>1, <3>2, StateGoReleased
    <3>4. wf[e].pc = "reconciling" /\ UNCHANGED <<sub, task, committed, scored>>
      BY <2>2, ReconcileStageFacts
    <3> QED BY <3>2, <3>3, <3>4, QuietUnchanged, QuietReleased
  <2> QED BY <2>1, <2>2
<1>2. PICK w : /\ wf' = [wf EXCEPT ![e] = w] /\ Carried(wf[e], w)
               /\ Freed(wf[e], w) \/ w.pc \in {"blocked", "reconciling"}
  BY ReconcileCheckFacts, ReconcileStageFacts
<1>3. WorkflowAlone(e) /\ wf'[e] = w /\ NoneCommits
  BY Zenon, <1>1, <1>2, AloneIs, NoneStartedSame, StartsNone
<1>4. /\ w.pc \in {"blocked", "reconciling", "closed", "queue", "settle", "publish"}
      /\ w.pc = "settle" => w.published
  BY <1>2, SlotsTypes DEF Carried, Freed, WorkflowState
<1>5. PastPublish(w) => Scored(e)'
  BY <1>1, <1>2, <1>4
  DEF PastPublish, Scored, ScoredInv, ScoredOk, Carried, RowsQuiet, Terminal, Unfinished
<1>6. exec'[e].epoch = exec[e].epoch /\ (exec'[e].state = "completed" => exec[e].state = "completed")
  BY <1>1 DEF RowsQuiet, Unfinished
<1> QED BY <1>1, <1>3, <1>4, <1>5, <1>6, WaitsForNone, ScoredWorkflow

LEMMA SetStateAlone ==
  ASSUME IInv, NEW e \in Execs, NEW s \in Unfinished, SetState(This(e), s), UNCHANGED committed
  PROVE  RowsQuiet /\ \A f \in Execs : f # e => exec'[f] = exec[f]
<1>1. This(e).exec = e
  BY DEF This, Run
<1>2. \A f \in Execs : f # e => exec'[f] = exec[f]
  BY <1>1 DEF SetState, IInv, TypeOK
<1> QED BY <1>1, <1>2, QuietSetState

LEMMA SetBlockedS ==
  ASSUME IInv, JInv, ScoredInv, NEW e \in Execs, SetBlocked(e)
  PROVE  ScoredInv'
<1>1. /\ wf[e].pc = "blocked" /\ wf' = [wf EXCEPT ![e] = Loop(e)]
      /\ UNCHANGED <<task, committed, scored>>
      /\ RowsQuiet /\ \A f \in Execs : f # e => exec'[f] = exec[f]
  BY SetStateAlone DEF SetBlocked, Unfinished
<1>2. WorkflowAlone(e) /\ wf'[e] = Loop(e) /\ NoneCommits
  BY Zenon, <1>1, AloneIs, NoneStartedSame, StartsNone
<1> QED BY Zenon, <1>1, <1>2, LeavingFields, WaitsForNone, ScoredLeaving

LEMMA QueueStageS ==
  ASSUME IInv, JInv, ScoredInv, NEW e \in Execs, NEW t \in Tasks, QueueStage(e, t)
  PROVE  ScoredInv'
<1> DEFINE x == StageTask(e, wf[e].idx)
<1>1. /\ wf[e].pc = "queue" /\ task[t].kind = "free" /\ task' = [task EXCEPT ![t] = x]
      /\ UNCHANGED <<committed, scored>>
      /\ RowsQuiet /\ \A f \in Execs : f # e => exec'[f] = exec[f]
  BY QueueStageFacts, SetStateAlone DEF Unfinished
<1>2. PICK w : /\ wf' = [wf EXCEPT ![e] = w] /\ w.pc = "await"
               /\ w.more = wf[e].more /\ w.published = wf[e].published
  BY QueueStageFacts
<1>3. /\ x.kind = "stage" /\ x.run = This(e) /\ x.pc = "unstarted" /\ x.index = wf[e].idx
      /\ x.out = "none"
  BY StartedFields
<1> HIDE DEF x
<1>4. \A u \in Tasks : SlotGo(e, u)
  <2>1. PcOk(x) /\ x.index <= exec[e].stages
    BY <1>3 DEF PcOk, JInv, SlotInv, SlotOk
  <2> QED BY Zenon, <1>1, <1>3, <2>1, GoStart
<1>5. WorkflowAlone(e) /\ wf'[e] = w
  BY Zenon, <1>1, <1>2, <1>4, AloneIs
<1>6. NoneCommits
  BY <1>1, <1>3, TaskAt DEF NoneCommits
<1>7. PastPublish(w) => Scored(e)'
  BY <1>1, <1>2 DEF PastPublish, Scored, ScoredInv, ScoredOk, RowsQuiet, Terminal, Unfinished
<1>8. exec'[e].epoch = exec[e].epoch /\ (exec'[e].state = "completed" => exec[e].state = "completed")
  BY <1>1 DEF RowsQuiet, Unfinished
<1> QED BY <1>1, <1>2, <1>5, <1>6, <1>7, <1>8, WaitsForNone, ScoredWorkflow

(* The stage did not end by starting a completion. *)
LEMMA StageAnsweredS ==
  ASSUME IInv, JInv, ScoredInv, NEW e \in Execs, StageAnswered(e)
  PROVE  ScoredInv'
<1> DEFINE t == wf[e].task
           x == CleanupTask(e, task[t].token)
<1>1. /\ wf[e].pc = "await" /\ UNCHANGED <<sub, exec, committed, scored>>
      /\ task' = [task EXCEPT ![t] = x] \/ task' = [task EXCEPT ![t] = FreeTask]
  BY StageAnsweredFacts
<1>2. t \in Tasks /\ t \in Slots(e)
  BY <1>1, SlotsTypes DEF JInv, SlotInv, SlotOk, Slots
<1>3. x.kind = "cleanup" /\ x.run = This(e) /\ x.pc = "cleaning" /\ x.index = 0
  BY StartedFields
<1> HIDE DEF x
<1>4. \A u \in Tasks : SlotGo(e, u)
  <2>1. CASE task' = [task EXCEPT ![t] = x]
    <3>1. PcOk(x) /\ x.index <= exec[e].stages
      BY <1>3, IndexesAreNatural DEF PcOk
    <3> QED BY Zenon, <1>2, <1>3, <2>1, <3>1, GoStart
  <2>2. CASE task' = [task EXCEPT ![t] = FreeTask]
    BY Zenon, <2>2, GoFreeOne
  <2> QED BY <1>1, <2>1, <2>2
<1>5. NoneCommits
  BY <1>1, <1>2, <1>3, TaskAt, FreeFields DEF NoneCommits
<1>6. PICK w : /\ wf' = [wf EXCEPT ![e] = w]
               /\ \/ Leaving(wf[e], w)
                  \/ w.pc = "settle" /\ w.more /\ w.published = wf[e].published
                  \/ /\ w.pc \in {"settle", "publish"} /\ (w.pc = "settle" => w.published)
                     /\ w.published = wf[e].published
  BY StageAnsweredFacts, SlotsTypes DEF WorkflowState
<1>7. WorkflowAlone(e) /\ wf'[e] = w
  BY Zenon, <1>1, <1>4, <1>6, AloneIs
<1>8. PastPublish(w) => PastPublish(wf[e])
  BY <1>6 DEF PastPublish, Leaving
<1>9. PastPublish(w) => Scored(e)'
  BY <1>1, <1>8 DEF Scored, ScoredInv, ScoredOk
<1>10. w.pc # "completing"
  BY <1>6 DEF Leaving
<1>11. \A u \in Tasks : wf[e].task = u => ~Committing(u, e)'
  BY <1>1, <1>2, <1>3, TaskAt, FreeFields DEF Committing
<1> QED BY <1>1, <1>5, <1>7, <1>9, <1>10, <1>11, ScoredWorkflow

LEMMA StageTimedOutS ==
  ASSUME IInv, JInv, ScoredInv, NEW e \in Execs, StageTimedOut(e)
  PROVE  ScoredInv'
<1>1. /\ wf[e].pc = "await" /\ UNCHANGED <<sub, exec, committed, scored>>
      /\ task' \in {task, [task EXCEPT ![wf[e].task] = FreeTask]}
  BY StageTimedOutFacts
<1>2. NoneCommits /\ \A u \in Tasks : SlotGo(e, u)
  BY <1>1, NoneStartedFree, StartsNone
<1>3. PICK w : wf' = [wf EXCEPT ![e] = w] /\ Leaving(wf[e], w)
  BY StageTimedOutFacts
<1>4. WorkflowAlone(e) /\ wf'[e] = w /\ RowsQuiet
  BY Zenon, <1>1, <1>2, <1>3, AloneIs, QuietUnchanged
<1>5. ASSUME NEW t \in Tasks, wf[e].task = t PROVE ~Committing(t, e)'
  <2>1. task[t].kind = "stage" /\ PcOk(task[t]) /\ (task'[t] = task[t] \/ task'[t] = FreeTask)
    BY Zenon, <1>1, <1>5, TaskAt DEF JInv, SlotInv, SlotOk, TaskOk
  <2> QED BY <2>1, FreeFields DEF Committing, PcOk
<1> QED BY <1>1, <1>2, <1>3, <1>4, <1>5, ScoredLeaving

LEMMA StartCompleteS ==
  ASSUME IInv, JInv, ScoredInv, NEW e \in Execs, NEW t \in Tasks, StartComplete(e, t)
  PROVE  ScoredInv'
<1> DEFINE x == CompleteTask(e)
<1>1. /\ wf[e].pc = "publish" /\ task[t].kind = "free" /\ task' = [task EXCEPT ![t] = x]
      /\ UNCHANGED <<sub, exec, committed, scored>>
  BY StartCompleteFacts
<1>2. PICK w : /\ wf' = [wf EXCEPT ![e] = w]
               /\ w.pc = "completing" /\ w.task = t /\ w.published = wf[e].published
  BY StartCompleteFacts
<1>3. x.kind = "complete" /\ x.run = This(e) /\ x.pc = "preflight" /\ x.index = 0 /\ x.out = "none"
  BY StartedFields
<1> HIDE DEF x
<1>4. \A u \in Tasks : SlotGo(e, u)
  <2>1. PcOk(x) /\ x.index <= exec[e].stages
    BY <1>3, IndexesAreNatural DEF PcOk
  <2> QED BY Zenon, <1>1, <1>3, <2>1, GoStart
<1>5. WorkflowAlone(e) /\ wf'[e] = w
  BY Zenon, <1>1, <1>2, <1>4, AloneIs
<1>6. task'[t] = x /\ \A u \in Tasks : u # t => task'[u] = task[u]
  BY Zenon, <1>1, TaskAt
<1>7. PastPublish(w) => Scored(e)'
  BY <1>1, <1>2 DEF PastPublish, Scored, ScoredInv, ScoredOk
<1>8. ScoredTask(e)'
  BY <1>2, <1>3, <1>5, <1>6 DEF ScoredTask
<1>9. ASSUME NEW u \in Tasks, Committing(u, e)', u # t PROVE FALSE
  <2>1. Committing(u, e)
    BY <1>1, <1>6, <1>9 DEF Committing, This
  <2> QED BY <1>1, <2>1, CommittingWhere
<1>10. ScoredOk(e)'
  BY <1>2, <1>5, <1>7, <1>8, <1>9 DEF ScoredOk
<1> QED BY <1>1, <1>5, <1>10, ScoredGoes DEF ScoredInv, CompletedIsScored

LEMMA FreedTask ==
  ASSUME IInv, NEW e \in Execs, NEW t \in Tasks, task' = [task EXCEPT ![t] = FreeTask]
  PROVE  ~Committing(t, e)'
BY Zenon, TaskAt, FreeFields DEF Committing

LEMMA CompleteAnsweredS ==
  ASSUME IInv, JInv, ScoredInv, NEW e \in Execs, CompleteAnswered(e)
  PROVE  ScoredInv'
<1>1. /\ wf[e].pc = "completing" /\ UNCHANGED <<sub, exec, committed, scored>>
      /\ task' = [task EXCEPT ![wf[e].task] = FreeTask]
  BY CompleteAnsweredFacts
<1>2. NoneCommits /\ \A u \in Tasks : SlotGo(e, u)
  BY Zenon, <1>1, NoneStartedFree, StartsNone
<1>3. PICK w : /\ wf' = [wf EXCEPT ![e] = w]
               /\ \/ Leaving(wf[e], w)
                  \/ w.pc = "effects" /\ w.published = wf[e].published
                  \/ task[wf[e].task].out = "null" /\ w.pc = "settle"
  BY CompleteAnsweredFacts
<1>4. WorkflowAlone(e) /\ wf'[e] = w /\ w.pc # "completing"
  BY Zenon, <1>1, <1>2, <1>3, AloneIs DEF Leaving
<1>5. \A t \in Tasks : wf[e].task = t => ~Committing(t, e)'
  BY Zenon, <1>1, FreedTask
<1>6. PastPublish(w) => Scored(e)'
  BY <1>1, <1>3 DEF PastPublish, Leaving, Scored, ScoredInv, ScoredOk, ScoredTask
<1> QED BY <1>1, <1>2, <1>4, <1>5, <1>6, ScoredWorkflow

LEMMA CompleteTimedOutS ==
  ASSUME ~LateCommits, IInv, JInv, ScoredInv, NEW e \in Execs, CompleteTimedOut(e)
  PROVE  ScoredInv'
<1>1. /\ wf[e].pc = "completing" /\ UNCHANGED <<sub, exec, committed, scored>>
      /\ task' = [task EXCEPT ![wf[e].task] = FreeTask]
  BY CompleteTimedOutFacts
<1>2. NoneCommits /\ \A u \in Tasks : SlotGo(e, u)
  BY Zenon, <1>1, NoneStartedFree, StartsNone
<1>3. PICK w : wf' = [wf EXCEPT ![e] = w] /\ Leaving(wf[e], w)
  BY CompleteTimedOutFacts
<1>4. WorkflowAlone(e) /\ wf'[e] = w /\ RowsQuiet
  BY Zenon, <1>1, <1>2, <1>3, AloneIs, QuietUnchanged
<1>5. \A t \in Tasks : wf[e].task = t => ~Committing(t, e)'
  BY Zenon, <1>1, FreedTask
<1> QED BY <1>1, <1>2, <1>3, <1>4, <1>5, ScoredLeaving

LEMMA ApplyEffectsS ==
  ASSUME IInv, JInv, ScoredInv, NEW e \in Execs, ApplyEffects(e)
  PROVE  ScoredInv'
<1>1. /\ wf[e].pc = "effects" /\ UNCHANGED <<sub, exec, task, committed>> /\ scored' = scored \cup {e}
  BY ApplyEffectsFacts
<1>2. PICK w : wf' = [wf EXCEPT ![e] = w] /\ w.pc = "settle"
  BY ApplyEffectsFacts
<1>3. WorkflowAlone(e) /\ wf'[e] = w /\ NoneCommits
  BY Zenon, <1>1, <1>2, AloneIs, NoneStartedSame, StartsNone
<1>4. \A t \in Tasks : wf[e].task # t
  BY <1>1, WaitsForNone
<1> QED BY <1>1, <1>2, <1>3, <1>4, ScoredWorkflow DEF Scored

LEMMA AwaitCleanupS ==
  ASSUME IInv, JInv, ScoredInv, NEW e \in Execs, AwaitCleanup(e)
  PROVE  ScoredInv'
<1>1. /\ wf[e].pc = "settle" /\ UNCHANGED <<sub, exec, committed, scored>>
      /\ task' \in {task, [task EXCEPT ![wf[e].cleaner] = FreeTask]}
  BY AwaitCleanupFacts
<1>2. NoneCommits /\ \A u \in Tasks : SlotGo(e, u)
  BY <1>1, NoneStartedFree, StartsNone
<1>3. PICK w : /\ wf' = [wf EXCEPT ![e] = w]
               /\ Leaving(wf[e], w) \/ (w.pc = "finish" /\ ~wf[e].more)
  BY AwaitCleanupFacts
<1>4. WorkflowAlone(e) /\ wf'[e] = w /\ w.pc # "completing"
  BY Zenon, <1>1, <1>2, <1>3, AloneIs DEF Leaving
<1>5. PastPublish(w) => PastPublish(wf[e])
  BY <1>1, <1>3 DEF PastPublish, Leaving
<1>6. PastPublish(w) => Scored(e)'
  BY <1>1, <1>5 DEF Scored, ScoredInv, ScoredOk
<1>7. \A t \in Tasks : wf[e].task # t
  BY <1>1, WaitsForNone
<1> QED BY <1>1, <1>2, <1>4, <1>6, <1>7, ScoredWorkflow

LEMMA FinishS ==
  ASSUME IInv, JInv, ScoredInv, NEW e \in Execs, NEW answered \in BOOLEAN,
         FinishJudgeExecution(e, answered)
  PROVE  ScoredInv'
<1>1. wf[e].pc = "finish" /\ UNCHANGED <<sub, task, committed, scored>>
  BY FinishFacts
<1>2. PICK w : /\ wf' = [wf EXCEPT ![e] = w] /\ Leaving(wf[e], w)
  BY FinishFacts
<1>3. /\ exec'[e].epoch = exec[e].epoch
      /\ \A i \in Execs : i # e => exec'[i] = exec[i]
      /\ exec[e].state \in Terminal => exec'[e].state = exec[e].state
  BY FinishFacts DEF Terminal
<1>4. WorkflowAlone(e) /\ wf'[e] = w /\ NoneCommits
  BY Zenon, <1>1, <1>2, <1>3, AloneIs, NoneStartedSame, StartsNone
<1>5. Scored(e)
  BY <1>1 DEF ScoredInv, ScoredOk, PastPublish
<1>6. Scored(e)' /\ (exec'[e].state = "completed" => exec[e].state = "completed" \/ e \in scored')
  BY <1>1, <1>3, <1>5 DEF Scored, Terminal
<1>7. \A t \in Tasks : wf[e].task # t
  BY <1>1, WaitsForNone
<1> QED BY <1>1, <1>2, <1>3, <1>4, <1>6, <1>7, ScoredWorkflow DEF Leaving

LEMMA ActivityFailsS ==
  ASSUME IInv, JInv, ScoredInv, NEW e \in Execs, ActivityFails(e)
  PROVE  ScoredInv'
<1>1. /\ wf[e].pc \notin {"closed", "await", "completing"}
      /\ UNCHANGED <<sub, exec, task, committed, scored>>
  BY ActivityFailsFacts
<1>2. PICK w : wf' = [wf EXCEPT ![e] = w] /\ Leaving(wf[e], w)
  BY ActivityFailsFacts
<1>3. WorkflowAlone(e) /\ wf'[e] = w /\ NoneCommits /\ RowsQuiet
  BY Zenon, <1>1, <1>2, AloneIs, NoneStartedSame, StartsNone, QuietUnchanged
<1>4. \A t \in Tasks : wf[e].task # t
  BY <1>1, WaitsForNone
<1> QED BY <1>1, <1>2, <1>3, <1>4, ScoredLeaving

LEMMA RecoverS ==
  ASSUME IInv, JInv, ScoredInv, NEW e \in Execs, NEW recorded \in BOOLEAN, Recover(e, recorded)
  PROVE  ScoredInv'
<1>1. /\ wf[e].pc = "recover" /\ wf' = [wf EXCEPT ![e] = Loop(e)] /\ UNCHANGED <<committed, scored>>
      /\ task' \in {task, [task EXCEPT ![wf[e].cleaner] = FreeTask]}
  BY RecoverFacts
<1>2. RowsQuiet /\ \A f \in Execs : f # e => exec'[f] = exec[f]
  <2>1. RecoveryStates(wf[e].fin) \subseteq Unfinished
    BY DEF RecoveryStates, Unfinished
  <2> QED BY <2>1, RecoverFacts, SetStateAlone, QuietUnchanged
<1>3. NoneCommits /\ \A u \in Tasks : SlotGo(e, u)
  BY <1>1, NoneStartedFree, StartsNone
<1>4. WorkflowAlone(e) /\ wf'[e] = Loop(e)
  BY Zenon, <1>1, <1>2, <1>3, AloneIs
<1>5. \A t \in Tasks : wf[e].task # t
  BY <1>1, WaitsForNone
<1> QED BY Zenon, <1>1, <1>2, <1>3, <1>4, <1>5, LeavingFields, ScoredLeaving

LEMMA TerminateS ==
  ASSUME IInv, JInv, ScoredInv, NEW e \in Execs, TerminateStalled(e)
  PROVE  ScoredInv'
<1>1. /\ wf[e].pc # "closed" /\ wf' = [wf EXCEPT ![e] = Closed]
      /\ UNCHANGED <<sub, exec, committed, scored>>
  BY Zenon, TerminateFacts DEF TerminateStalled
<1>2. NoneCommits /\ \A t \in Tasks : SlotGo(e, t)
  BY TerminateFacts, FreeFields DEF NoneCommits, SlotGo, Busy
<1>3. WorkflowAlone(e) /\ wf'[e] = Closed /\ RowsQuiet
  BY Zenon, <1>1, <1>2, AloneIs, QuietUnchanged
<1> QED BY Zenon, <1>1, <1>2, <1>3, LeavingFields, WorkflowFields, ScoredLeaving

(* Nothing is completed, and no end is taken back. *)
RowStays(e) ==
  /\ exec'[e].epoch = exec[e].epoch
  /\ exec[e].state \in Terminal => exec'[e].state \in Terminal
  /\ exec'[e].state = "completed" => exec[e].state = "completed"

(* Who commits has begun to commit before. *)
CommitsOn(t) ==
  task'[t].pc \in {"preflight", "guard", "commit"} =>
    task[t].pc \in {"preflight", "guard", "commit"} /\ task'[t].run = task[t].run

LEMMA QuietS ==
  ASSUME IInv, JInv, ScoredInv, UNCHANGED <<wf, scored>>, \A e \in Execs : RowStays(e),
         \A t \in Tasks : task'[t] = task[t] \/ CommitsOn(t),
         \A e \in Execs : wf[e].pc = "completing" => ScoredTask(e)'
  PROVE  ScoredInv'
<1>1. ASSUME NEW e \in Execs PROVE ScoredOk(e)'
  <2>1. This(e)' = This(e) /\ (Scored(e) => Scored(e)')
    BY DEF This, RowStays, Scored
  <2>2. \A t \in Tasks : Committing(t, e)' => Committing(t, e)
    BY <2>1 DEF Committing, CommitsOn
  <2> QED BY <2>1, <2>2 DEF ScoredInv, ScoredOk
<1> QED BY <1>1 DEF ScoredInv, CompletedIsScored, RowStays

(* An activity moves that finds out nothing about a verdict. *)
Going(t) ==
  /\ CommitsOn(t)
  /\ task'[t].out = "null" => task[t].out = "null"
  /\ task'[t].pc \in {"guard", "commit"} => task[t].pc \in {"guard", "commit"}

LEMMA QuietGoing ==
  ASSUME IInv, JInv, ScoredInv, UNCHANGED <<wf, committed, scored>>, \A e \in Execs : RowStays(e),
         \A t \in Tasks : task'[t] = task[t] \/ Going(t)
  PROVE  ScoredInv'
<1>1. ASSUME NEW e \in Execs, wf[e].pc = "completing" PROVE ScoredTask(e)'
  <2>1. wf[e].task \in Tasks /\ ScoredTask(e)
    BY <1>1, CompletingWaits DEF ScoredInv, ScoredOk
  <2> QED BY <2>1 DEF ScoredTask, Going, RowStays
<1> QED BY <1>1, QuietS DEF Going

LEMMA GoingMove ==
  ASSUME IInv, NEW t \in Tasks, NEW x, task' = [task EXCEPT ![t] = x],
         \/ x.pc \notin {"preflight", "guard", "commit"}
         \/ x.pc \in {"guard", "commit"} /\ task[t].pc = "guard" /\ x.run = task[t].run,
         x.out = "null" => task[t].out = "null"
  PROVE  \A u \in Tasks : task'[u] = task[u] \/ Going(u)
BY TaskAt DEF Going, CommitsOn

LEMMA GoingAnswer ==
  ASSUME IInv, NEW t \in Tasks, NEW out, task' = [task EXCEPT ![t] = Ended(t, out)],
         out = "null" => task[t].out = "null"
  PROVE  \A u \in Tasks : task'[u] = task[u] \/ Going(u)
<1> DEFINE x == Ended(t, out)
<1>1. x.pc = "done" /\ (x.out = "null" => out = "null") /\ task' = [task EXCEPT ![t] = x]
  BY EndedFields, FreeFields
<1> HIDE DEF x
<1> QED BY Zenon, <1>1, GoingMove

LEMMA StaysUnchanged ==
  ASSUME UNCHANGED exec
  PROVE  \A e \in Execs : RowStays(e)
BY DEF RowStays

LEMMA StaysQuiet ==
  ASSUME RowsQuiet
  PROVE  \A e \in Execs : RowStays(e)
BY DEF RowsQuiet, RowStays, Terminal, Unfinished

-----------------------------------------------------------------------------
LEMMA RowStepsS ==
  ASSUME IInv, JInv, ScoredInv, NEW e \in Execs,
         \/ CleanupTerminal(e) \/ LeaseLapses(e) \/ Redispatch(e) \/ CancelRejudge(e)
         \/ \E t \in Tasks : HeartbeatJudgeStage(t)
  PROVE  ScoredInv'
<1>1. CASE CleanupTerminal(e)
  <2>1. \A i \in Execs : RowStays(i)
    BY <1>1, CleanupTerminalFacts DEF RowStays
  <2> QED BY <1>1, <2>1, CleanupTerminalFacts, QuietGoing
<1>2. CASE LeaseLapses(e)
  <2>1. \A i \in Execs : RowStays(i)
    BY <1>2, FreshFacts DEF LeaseLapses, RowStays
  <2> QED BY <1>2, <2>1, QuietGoing DEF LeaseLapses
<1>3. CASE Redispatch(e)
  BY <1>3, StaysUnchanged, QuietGoing DEF Redispatch
<1>4. CASE CancelRejudge(e)
  <2>1. \A i \in Execs : RowStays(i)
    BY <1>4, CancelFacts DEF RowStays, SameRow, Terminal
  <2> QED BY <1>4, <2>1, CancelFacts, QuietGoing
<1>5. ASSUME NEW t \in Tasks, HeartbeatJudgeStage(t) PROVE ScoredInv'
  <2>1. \A i \in Execs : RowStays(i)
    BY Zenon, <1>5, FreshFacts DEF HeartbeatJudgeStage, RowStays
  <2> QED BY <1>5, <2>1, QuietGoing DEF HeartbeatJudgeStage
<1> QED BY <1>1, <1>2, <1>3, <1>4, <1>5

LEMMA StageStepsS ==
  ASSUME IInv, JInv, ScoredInv, NEW t \in Tasks,
         \/ ClaimJudgeLease(t) \/ PastLastStage(t) \/ StartSandbox(t) \/ ReleaseJudgeStage(t)
         \/ WorkerCrash(t) \/ StorageFails(t)
         \/ \E b \in BOOLEAN : SandboxRan(t, b) \/ Fails(t, b) \/ SaveJudgeStage(t, b)
  PROVE  ScoredInv'
<1>1. CASE ClaimJudgeLease(t)
  <2>1. PICK e \in Execs : e = task[t].run.exec
    BY Zenon, <1>1, ClaimFacts
  <2>2. UNCHANGED <<wf, committed, scored>>
    BY Zenon, <1>1, ClaimFacts
  <2>3. \A i \in Execs : RowStays(i)
    BY Zenon, <1>1, <2>1, ClaimFacts DEF RowStays, Unfinished, Terminal
  <2>4. CASE \E out \in {"obsolete", "cleanup"} : task' = [task EXCEPT ![t] = Ended(t, out)]
    BY Zenon, <2>2, <2>3, <2>4, GoingAnswer, QuietGoing
  <2>5. ASSUME NEW k \in Tokens, task' = [task EXCEPT ![t] = [@ EXCEPT !.pc = "claimed", !.token = k]]
        PROVE  ScoredInv'
    <3> DEFINE x == [task[t] EXCEPT !.pc = "claimed", !.token = k]
    <3>1. x.pc = "claimed" /\ x.out = task[t].out /\ task' = [task EXCEPT ![t] = x]
      BY <2>5, TaskFacts, MovedTokenFields
    <3> HIDE DEF x
    <3> QED BY Zenon, <2>2, <2>3, <3>1, GoingMove, QuietGoing
  <2> QED BY Zenon, <1>1, <2>4, <2>5, ClaimFacts
<1>2. CASE PastLastStage(t)
  <2>1. UNCHANGED <<wf, committed, scored>> /\ RowsQuiet
    BY <1>2, PastLastStageFacts, QuietSetState DEF Unfinished
  <2>2. \A u \in Tasks : task'[u] = task[u] \/ Going(u)
    BY <1>2, PastLastStageFacts, GoingMove
  <2> QED BY <2>1, <2>2, StaysQuiet, QuietGoing
<1>3. CASE StartSandbox(t)
  BY <1>3, StartSandboxFacts, GoingMove, StaysUnchanged, QuietGoing
<1>4. CASE ReleaseJudgeStage(t)
  <2>1. /\ UNCHANGED <<wf, committed, scored, sub>> /\ exec' = Released(task[t].run, task[t].token)
        /\ task' = [task EXCEPT ![t] = Ended(t, task[t].out)] /\ Busy(t)
    BY <1>4 DEF ReleaseJudgeStage, Busy
  <2>2. RowsQuiet
    BY <2>1, TaskFacts, QuietReleased
  <2> QED BY Zenon, <2>1, <2>2, GoingAnswer, StaysQuiet, QuietGoing
<1>5. CASE WorkerCrash(t)
  BY <1>5, CrashFacts, GoingMove, StaysUnchanged, QuietGoing
<1>6. CASE StorageFails(t)
  <2> DEFINE x == [task[t] EXCEPT !.pc = "catch"]
  <2>1. /\ UNCHANGED <<exec, wf, committed, scored>>
        /\ task' \in {[task EXCEPT ![t] = x], [task EXCEPT ![t] = Ended(t, "failed")]}
    BY Zenon, <1>6 DEF StorageFails
  <2>2. x.pc = "catch" /\ x.out = task[t].out
    BY TaskFacts, MovedFields
  <2> HIDE DEF x
  <2>3. \A u \in Tasks : task'[u] = task[u] \/ Going(u)
    BY <2>1, <2>2, GoingAnswer, GoingMove
  <2> QED BY <2>1, <2>3, StaysUnchanged, QuietGoing
<1>7. ASSUME NEW b \in BOOLEAN, SandboxRan(t, b) PROVE ScoredInv'
  BY <1>7, SandboxRanFacts, GoingMove, StaysUnchanged, QuietGoing
<1>8. ASSUME NEW b \in BOOLEAN, Fails(t, b) PROVE ScoredInv'
  <2>1. UNCHANGED <<exec, wf, committed, scored>>
    BY <1>8, FailsFacts
  <2>2. \A u \in Tasks : task'[u] = task[u] \/ Going(u)
    BY <1>8, FailsFacts, GoingAnswer, GoingMove
  <2> QED BY <2>1, <2>2, StaysUnchanged, QuietGoing
<1>9. ASSUME NEW b \in BOOLEAN, SaveJudgeStage(t, b) PROVE ScoredInv'
  <2>1. PICK e \in Execs : e = task[t].run.exec
    BY <1>9, SaveFacts
  <2>2. UNCHANGED <<wf, committed, scored>>
    BY <1>9, SaveFacts
  <2>3. \A i \in Execs : RowStays(i)
    BY <1>9, <2>1, SaveFacts DEF RowStays, Unfinished, Terminal
  <2>4. \A u \in Tasks : task'[u] = task[u] \/ Going(u)
    BY <1>9, SaveFacts, GoingAnswer, GoingMove
  <2> QED BY <2>2, <2>3, <2>4, QuietGoing
<1> QED BY <1>1, <1>2, <1>3, <1>4, <1>5, <1>6, <1>7, <1>8, <1>9

-----------------------------------------------------------------------------
(* The completion of an execution asks whose result it is. *)
LEMMA AwaitedCompletion ==
  ASSUME IInv, JInv, NEW t \in Tasks, Busy(t), NEW f \in Execs, wf[f].pc = "completing",
         wf[f].task = t
  PROVE  /\ Awaited(t) /\ task[t].kind = "complete"
         /\ task[t].run = This(f) /\ task[t].run.exec = f
         /\ exec[f].state \in Unfinished \cup Terminal
<1>1. Awaited(t) /\ task[t].kind = "complete" /\ task[t].run = This(f)
  BY CompletingWaits DEF Awaited
<1>2. exec[f].state # "absent"
  BY DEF IInv, FenceInv, ActivitiesHaveRows
<1>3. exec[f].state \in Unfinished \cup Terminal
  BY <1>2 DEF IInv, TypeOK, ExecutionRow
<1> QED BY <1>1, <1>3 DEF This, Run

(* A workflow that waits for another activity than the one that moves. *)
LEMMA OtherCompletions ==
  ASSUME IInv, JInv, ScoredInv, NEW t \in Tasks, NEW x, task' = [task EXCEPT ![t] = x],
         UNCHANGED <<wf, committed>>, \A e \in Execs : RowStays(e),
         NEW f \in Execs, wf[f].pc = "completing", wf[f].task # t
  PROVE  ScoredTask(f)'
<1>1. wf[f].task \in Tasks /\ ScoredTask(f)
  BY CompletingWaits DEF ScoredInv, ScoredOk
<1> QED BY <1>1, TaskAt DEF ScoredTask, RowStays

LEMMA NullAnswer ==
  ASSUME IInv, JInv, ScoredInv, NEW t \in Tasks, Busy(t), task' = [task EXCEPT ![t] = Ended(t, "null")],
         UNCHANGED <<wf, exec, committed, scored>>,
         \A f \in Execs : wf[f].pc = "completing" /\ wf[f].task = t => exec[f].state \in Terminal
  PROVE  ScoredInv'
<1> DEFINE x == Ended(t, "null")
<1>1. x.pc = "done" /\ task' = [task EXCEPT ![t] = x]
  BY EndedFields
<1> HIDE DEF x
<1>2. \A u \in Tasks : task'[u] = task[u] \/ CommitsOn(u)
  BY <1>1, TaskAt DEF CommitsOn
<1>3. ASSUME NEW f \in Execs, wf[f].pc = "completing" PROVE ScoredTask(f)'
  <2>1. CASE wf[f].task = t
    BY <1>1, <1>3, <2>1, TaskAt DEF ScoredTask
  <2> QED BY Zenon, <1>1, <1>3, <2>1, StaysUnchanged, OtherCompletions
<1> QED BY <1>2, <1>3, StaysUnchanged, QuietS

LEMMA CompletePreflightS ==
  ASSUME IInv, JInv, ScoredInv, NEW t \in Tasks, CompletePreflight(t)
  PROVE  ScoredInv'
<1>1. /\ task[t].pc = "preflight" /\ task[t].kind = "complete" /\ Busy(t)
      /\ UNCHANGED <<sub, exec, wf, committed, scored>>
  BY PreflightFacts
<1>2. CASE ~StillOwner(t) /\ task' = [task EXCEPT ![t] = Ended(t, "null")]
  <2>1. \A f \in Execs : wf[f].pc = "completing" /\ wf[f].task = t => exec[f].state \in Terminal
    BY <1>1, <1>2, AwaitedCompletion, NoOwnerIsSettled
  <2> QED BY Zenon, <1>1, <1>2, <2>1, NullAnswer
<1>3. CASE task' = [task EXCEPT ![t] = Ended(t, "ok")]
  BY Zenon, <1>1, <1>3, GoingAnswer, StaysUnchanged, QuietGoing
<1>4. ASSUME StillOwner(t), ~(sub.active = NoRun /\ sub.detail = task[t].run.exec),
             NEW x, task' = [task EXCEPT ![t] = x], x.pc = "guard", x.run = task[t].run,
             x.out = task[t].out
      PROVE  ScoredInv'
  <2>1. \A u \in Tasks : task'[u] = task[u] \/ CommitsOn(u)
    BY <1>1, <1>4, TaskAt DEF CommitsOn
  <2>2. ASSUME NEW f \in Execs, wf[f].pc = "completing" PROVE ScoredTask(f)'
    <3>1. ASSUME wf[f].task = t PROVE ScoredTask(f)'
      <4>1. task'[t] = x /\ ScoredTask(f)
        BY Zenon, <1>4, <2>2, TaskAt DEF ScoredInv, ScoredOk
      <4>2. f \notin committed \/ exec[f].state \in Terminal
        <5> SUFFICES ASSUME f \in committed, exec[f].state \in Unfinished PROVE FALSE
          BY <1>1, <2>2, <3>1, AwaitedCompletion
        <5>1. sub.gen = f /\ sub.active = NoRun
          BY DEF IInv, FenceInv, OpenExecutionOwnsSubmission, JInv, OwnerInv
        <5>2. sub.detail = f
          BY <5>1 DEF JInv, OwnerInv
        <5> QED BY <1>1, <1>4, <2>2, <3>1, <5>1, <5>2, AwaitedCompletion
      <4> QED BY <1>1, <1>4, <3>1, <4>1, <4>2 DEF ScoredTask
    <3> QED BY Zenon, <1>1, <1>4, <2>2, <3>1, StaysUnchanged, OtherCompletions
  <2> QED BY <1>1, <2>1, <2>2, StaysUnchanged, QuietS
<1> QED BY <1>2, <1>3, <1>4, PreflightFacts

(* Whoever finds the submission with another owner after the preflight was   *)
(* superseded: it has not committed itself.                                  *)
LEMMA LateNull ==
  ASSUME IInv, JInv, ScoredInv, NEW t \in Tasks, task[t].pc \in {"guard", "commit"},
         sub.active # task[t].run, NEW f \in Execs, wf[f].pc = "completing", wf[f].task = t
  PROVE  exec[f].state \in Terminal
<1>1. Busy(t)
  BY DEF Busy
<1>2. f \notin committed \/ exec[f].state \in Terminal
  BY DEF ScoredInv, ScoredOk, ScoredTask
<1>3. Settled(f)
  BY <1>1, AwaitedCompletion, NotMineIsSettled
<1> QED BY <1>2, <1>3 DEF Settled

LEMMA GuardVerdictS ==
  ASSUME IInv, JInv, ScoredInv, NEW t \in Tasks, GuardVerdict(t)
  PROVE  ScoredInv'
<1>1. task[t].pc = "guard" /\ Busy(t) /\ UNCHANGED <<sub, wf, committed, scored>>
  BY GuardFacts
<1>2. \A i \in Execs : RowStays(i)
  BY GuardFacts DEF RowStays, SameRow
<1>3. CASE \E x : /\ task' = [task EXCEPT ![t] = x] /\ x.pc = "commit" /\ x.run = task[t].run
                  /\ x.out = task[t].out
  BY Zenon, <1>1, <1>2, <1>3, GoingMove, QuietGoing
<1>4. CASE task' = [task EXCEPT ![t] = Ended(t, "failed")]
  BY Zenon, <1>1, <1>2, <1>4, GoingAnswer, QuietGoing
<1>5. CASE UNCHANGED exec /\ sub.active # task[t].run /\ task' = [task EXCEPT ![t] = Ended(t, "null")]
  BY Zenon, <1>1, <1>5, LateNull, NullAnswer
<1> QED BY <1>3, <1>4, <1>5, GuardFacts

LEMMA CompleteJudgeS ==
  ASSUME IInv, JInv, ScoredInv, NEW t \in Tasks, CompleteJudge(t)
  PROVE  ScoredInv'
<1>1. task[t].pc = "commit" /\ Busy(t) /\ UNCHANGED <<exec, wf, scored>>
  BY CommitFacts
<1>2. PICK e \in Execs : e = task[t].run.exec
  BY CommitFacts
<1>3. CASE UNCHANGED committed /\ sub.active # task[t].run /\ task' = [task EXCEPT ![t] = Ended(t, "null")]
  BY Zenon, <1>1, <1>3, LateNull, NullAnswer
<1>4. ASSUME task[t].run = This(e), committed' = committed \cup {e},
             task' = [task EXCEPT ![t] = Ended(t, "ok")]
      PROVE  ScoredInv'
  <2> DEFINE x == Ended(t, "ok")
  <2>1. x.pc = "done" /\ x.out # "null" /\ task' = [task EXCEPT ![t] = x]
    BY <1>4, EndedFields, FreeFields
  <2> HIDE DEF x
  <2>2. task'[t] = x /\ \A u \in Tasks : u # t => task'[u] = task[u]
    BY Zenon, <2>1, TaskAt
  <2>3. \A u \in Tasks : task'[u] = task[u] \/ CommitsOn(u)
    BY <2>1, <2>2 DEF CommitsOn
  <2>4. wf[e].pc = "completing" => wf[e].task = t
    BY <1>1, <1>4, CommittingWhere DEF Committing
  <2>5. ASSUME NEW f \in Execs, wf[f].pc = "completing" PROVE ScoredTask(f)'
    <3>1. CASE wf[f].task = t
      BY <1>1, <2>1, <2>2, <3>1 DEF ScoredTask
    <3>2. CASE wf[f].task # t
      <4>1. wf[f].task \in Tasks /\ ScoredTask(f) /\ f # e
        BY <2>4, <2>5, <3>2, CompletingWaits DEF ScoredInv, ScoredOk
      <4> QED BY <1>1, <1>4, <2>2, <3>2, <4>1 DEF ScoredTask
    <3> QED BY <3>1, <3>2
  <2> QED BY <1>1, <2>3, <2>5, StaysUnchanged, QuietS
<1> QED BY <1>2, <1>3, <1>4, CommitFacts

-----------------------------------------------------------------------------
LEMMA CreateS ==
  ASSUME IInv, JInv, ScoredInv, NEW rejudge \in BOOLEAN, CreateJudgeExecution(rejudge)
  PROVE  ScoredInv'
<1>1. PICK n \in Execs : n = sub.gen + 1
  BY CreateFacts
<1>2. /\ exec'[n].state = "queued" /\ UNCHANGED <<wf, task, committed, scored>>
      /\ \A i \in Execs : i # n => exec'[i] = Superseded(exec[i])
  BY <1>1, CreateFacts
<1>3. \A i \in Execs : i # n => RowStays(i)
  BY <1>2, SupersededFields DEF IInv, TypeOK, RowStays, Terminal, Unfinished
<1>4. exec[n].state = "absent"
  <2>1. sub.gen \in Nat /\ n > sub.gen
    BY <1>1, ParameterAssumption DEF IInv, TypeOK, SubmissionRow
  <2> QED BY <2>1 DEF JInv, OwnerInv
<1>5. wf[n].pc = "none" /\ ~wf[n].published
  <2>1. wf[n] = NoWorkflow
    BY <1>4 DEF IInv, FenceInv, ActivitiesHaveRows, JInv, SlotInv, SlotOk
  <2> QED BY <2>1 DEF NoWorkflow
<1>6. \A t \in Tasks : Busy(t) => task[t].run.exec # n
  BY <1>4 DEF IInv, FenceInv, ActivitiesHaveRows
<1>7. ASSUME NEW e \in Execs PROVE ScoredOk(e)'
  <2>1. CASE e = n
    <3>1. This(e)'.exec = n
      BY <2>1 DEF This, Run
    <3>2. \A t \in Tasks : ~Committing(t, e)'
      <4> HIDE DEF This
      <4> QED BY <1>2, <1>6, <3>1 DEF Committing, Busy
    <3> QED BY <1>2, <1>5, <2>1, <3>2 DEF ScoredOk, PastPublish
  <2>2. CASE e # n
    <3>1. This(e)' = This(e) /\ RowStays(e) /\ ScoredOk(e)
      BY <1>3, <2>2 DEF This, RowStays, ScoredInv
    <3>2. \A t \in Tasks : Committing(t, e)' => Committing(t, e)
      BY <1>2, <3>1 DEF Committing
    <3> QED BY <1>2, <3>1, <3>2 DEF ScoredOk, ScoredTask, Scored, RowStays
  <2> QED BY <2>1, <2>2
<1> QED BY <1>2, <1>3, <1>7 DEF ScoredInv, CompletedIsScored, RowStays

LEMMA NewEpochS ==
  ASSUME IInv, JInv, ScoredInv, NEW e \in Execs, NewEpoch(e)
  PROVE  ScoredInv'
<1>1. /\ wf' = [wf EXCEPT ![e] = NoWorkflow] /\ UNCHANGED <<task, committed, scored>>
      /\ exec'[e].epoch = exec[e].epoch + 1 /\ exec'[e].state # "completed"
      /\ \A i \in Execs : i # e => exec'[i] = exec[i]
  BY NewEpochFacts
<1>2. wf'[e] = NoWorkflow /\ \A f \in Execs : f # e => wf'[f] = wf[f]
  BY <1>1 DEF IInv, TypeOK
<1>3. NoWorkflow.pc = "none" /\ ~NoWorkflow.published
  BY DEF NoWorkflow
<1>4. ASSUME NEW t \in Tasks, Committing(t, e)' PROVE FALSE
  <2>1. This(e)'.exec = e /\ This(e)'.epoch = exec'[e].epoch
    BY DEF This, Run
  <2>2. Busy(t) /\ task[t].run.exec = e /\ task[t].run.epoch = exec'[e].epoch
    <3> HIDE DEF This
    <3> QED BY <1>1, <1>4, <2>1 DEF Committing, Busy
  <2>3. task[t].run.epoch <= exec[e].epoch
    BY <2>2 DEF JInv, SlotInv, TaskOk
  <2> QED BY <1>1, <2>2, <2>3, IndexesAreNatural
<1>5. ScoredOk(e)'
  BY <1>2, <1>3, <1>4 DEF ScoredOk, PastPublish
<1>6. ASSUME NEW f \in Execs, f # e PROVE ScoredOk(f)'
  <2>1. This(f)' = This(f) /\ ScoredOk(f) /\ exec'[f] = exec[f]
    BY <1>1, <1>6 DEF This, ScoredInv
  <2>2. \A t \in Tasks : Committing(t, f)' => Committing(t, f)
    BY <1>1, <2>1 DEF Committing
  <2> QED BY <1>1, <1>2, <1>6, <2>1, <2>2 DEF ScoredOk, ScoredTask, Scored
<1> QED BY <1>1, <1>5, <1>6 DEF ScoredInv, CompletedIsScored

LEMMA DispatchS ==
  ASSUME IInv, JInv, ScoredInv, NEW e \in Execs, NEW gate \in BOOLEAN, Dispatch(e, gate)
  PROVE  ScoredInv'
<1>1. UNCHANGED <<sub, exec, task, committed, scored>>
  BY DispatchFacts
<1>2. CASE UNCHANGED wf
  BY <1>1, <1>2, StaysUnchanged, QuietGoing
<1>3. ASSUME wf[e].pc = "none", NEW w, wf' = [wf EXCEPT ![e] = w], w.pc = "status",
             w.published = wf[e].published
      PROVE  ScoredInv'
  <2>1. WorkflowAlone(e) /\ wf'[e] = w /\ NoneCommits
    BY Zenon, <1>1, <1>3, AloneIs, NoneStartedSame, StartsNone
  <2>2. PastPublish(w) => Scored(e)'
    BY <1>1, <1>3 DEF PastPublish, Scored, ScoredInv, ScoredOk
  <2> QED BY <1>1, <1>3, <2>1, <2>2, WaitsForNone, ScoredWorkflow
<1> QED BY <1>2, <1>3, DispatchFacts

-----------------------------------------------------------------------------
LEMMA InitS == Init => ScoredInv
<1> SUFFICES ASSUME Init PROVE ScoredInv
  OBVIOUS
<1>1. /\ \A e \in Execs : exec[e].state = "absent" /\ wf[e] = NoWorkflow
      /\ \A t \in Tasks : task[t] = FreeTask
  BY DEF Init, NewExecution
<1>2. NoWorkflow.pc = "none" /\ ~NoWorkflow.published /\ FreeTask.pc = "done"
  BY DEF NoWorkflow, FreeTask
<1> QED BY <1>1, <1>2 DEF ScoredInv, ScoredOk, CompletedIsScored, PastPublish, Committing

LEMMA WorkflowStepsS ==
  ASSUME ~LateCommits, IInv, JInv, ScoredInv, NEW e \in Execs, WorkflowStep(e) \/ WorkflowFault(e)
  PROVE  ScoredInv'
<1>1. CASE WorkflowStep(e)
  BY Zenon, <1>1, ReadStatusS, ReconcileS, SetBlockedS, StageAnsweredS, CompleteAnsweredS, ApplyEffectsS,
     AwaitCleanupS, FinishS, RecoverS, QueueStageS, StartCompleteS DEF WorkflowStep
<1>2. CASE WorkflowFault(e)
  BY Zenon, <1>2, StageTimedOutS, CompleteTimedOutS, ActivityFailsS, ReconcileS, FinishS, RecoverS
  DEF WorkflowFault
<1> QED BY <1>1, <1>2

LEMMA TaskStepsS ==
  ASSUME IInv, JInv, ScoredInv, NEW t \in Tasks, TaskStep(t) \/ TaskFault(t)
  PROVE  ScoredInv'
<1>1. CASE TaskStep(t)
  BY Zenon, <1>1, StageStepsS, CompletePreflightS, GuardVerdictS, CompleteJudgeS DEF TaskStep, Fails
<1>2. CASE TaskFault(t)
  BY Zenon, <1>2, StageStepsS DEF TaskFault, Fails
<1> QED BY <1>1, <1>2

(* Without late commits, whoever completes has applied the effects. *)
LEMMA InductiveS ==
  ASSUME ~LateCommits
  PROVE  IInv /\ JInv /\ ScoredInv /\ [Next]_vars => ScoredInv'
<1> SUFFICES ASSUME IInv, JInv, ScoredInv, [Next]_vars PROVE ScoredInv'
  OBVIOUS
<1>1. CASE Accept \/ Rejudge
  BY Zenon, <1>1, CreateS DEF Accept, Rejudge
<1>2. ASSUME NEW e \in Execs,
             \/ CancelRejudge(e) \/ Dispatch(e, TRUE) \/ Dispatch(e, FALSE)
             \/ Redispatch(e) \/ TerminateStalled(e) \/ NewEpoch(e)
             \/ CleanupTerminal(e) \/ LeaseLapses(e)
      PROVE  ScoredInv'
  BY Zenon, <1>2, RowStepsS, DispatchS, TerminateS, NewEpochS
<1>3. CASE UNCHANGED vars
  BY <1>3, StaysUnchanged, QuietGoing DEF vars
<1>4. ASSUME NEW t \in Tasks, HeartbeatJudgeStage(t) PROVE ScoredInv'
  <2>1. 1 \in Execs
    BY ParameterAssumption DEF Execs
  <2> QED BY <1>4, <2>1, RowStepsS
<1>5. ASSUME NEW k \in Tokens, ResourcesExpire(k) PROVE ScoredInv'
  BY <1>5, StaysUnchanged, QuietGoing DEF ResourcesExpire
<1> QED BY Zenon, <1>1, <1>2, <1>3, <1>4, <1>5, WorkflowStepsS, TaskStepsS DEF Next

(* No execution completes before its score effects were applied, provided no *)
(* completePinnedJudge runs on after its workflow stopped waiting for it.    *)
THEOREM EffectsBeforeCompletion ==
  ASSUME ~LateCommits PROVE Spec => []CompletedIsScored
<1>1. IInv /\ JInv /\ ScoredInv /\ [Next]_vars => ScoredInv'
  BY InductiveS
<1>2. ScoredInv => CompletedIsScored
  BY DEF ScoredInv
<1> QED BY <1>1, <1>2, InitS, InvarianceJ, PTL DEF Spec

-----------------------------------------------------------------------------
(***************************************************************************)
(* A lease leaves its row after the sandbox resources of its token:        *)
(* TokenInv, and, as long as no late claim takes a lease behind the back   *)
(* of the workflow, LeaseInv.                                              *)
(***************************************************************************)

(* What an activity that is about to give up its lease, or answered, still has. *)
TokenOk(x, l) ==
  /\ x.pc \in {"claimed", "releasing"} \/ (x.pc = "save" /\ ~x.defer) => x.token \notin l
  /\ x.pc \in {"done", "lost"} =>
       x.token = NoToken \/ (x.defer /\ x.out \in {"saved", "finished"})

(* No two activities share a token. *)
TokenInv ==
  /\ \A t \in Tasks : TokenOk(task[t], live)
  /\ \A t, u \in Tasks : t # u /\ task[t].token = task[u].token => task[t].token = NoToken

LEMMA TokenMove ==
  ASSUME IInv, IInv', TokenInv, NEW t \in Tasks, NEW x, task' = [task EXCEPT ![t] = x],
         x.token \in {task[t].token, NoToken}, live' \subseteq live \cup {task[t].token},
         TokenOk(x, live')
  PROVE  TokenInv'
<1>1. task'[t] = x /\ \A u \in Tasks : u # t => task'[u] = task[u]
  BY Zenon, TaskAt
<1>2. ASSUME NEW u \in Tasks, u # t PROVE TokenOk(task[u], live')
  <2>1. NoToken \notin live'
    BY ParameterAssumption DEF IInv, TypeOK
  <2>2. TokenOk(task[u], live) /\ (task[t].token = task[u].token => task[u].token = NoToken)
    BY <1>2 DEF TokenInv
  <2>3. task[u].token \in live' => task[u].token \in live
    BY <2>1, <2>2
  <2> QED BY <2>2, <2>3 DEF TokenOk
<1> QED BY <1>1, <1>2 DEF TokenInv

LEMMA TokenFreed ==
  ASSUME IInv, TokenInv, \A t \in Tasks : task'[t] \in {task[t], FreeTask}, live' \subseteq live
  PROVE  TokenInv'
<1>1. FreeTask.pc = "done" /\ FreeTask.token = NoToken
  BY DEF FreeTask
<1>2. ASSUME NEW t \in Tasks PROVE TokenOk(task'[t], live')
  BY <1>1 DEF TokenInv, TokenOk
<1> QED BY <1>1, <1>2 DEF TokenInv

LEMMA TokenSame ==
  ASSUME IInv, TokenInv, UNCHANGED task, live' \subseteq live
  PROVE  TokenInv'
BY TokenFreed

LEMMA EndedToken ==
  ASSUME IInv, NEW t \in Tasks, NEW out
  PROVE  LET x == Ended(t, out)
         IN /\ x.pc = "done"
            /\ \/ x.token = NoToken
               \/ x.token = task[t].token /\ x.defer /\ x.out \in {"saved", "finished"}
            /\ x.out \in {"saved", "finished", "ok"} => Awaited(t) /\ x.out = out
<1>1. task[t] \in Task
  BY DEF IInv, TypeOK
<1>2. CASE Ended(t, out) = FreeTask
  BY <1>2 DEF FreeTask
<1>3. CASE Awaited(t) /\ task[t].defer /\ out \in {"saved", "finished"}
  <2> DEFINE x == [task[t] EXCEPT !.pc = "done", !.index = 0, !.out = out]
  <2>1. Ended(t, out) = x
    BY <1>3 DEF Ended
  <2>2. x.pc = "done" /\ x.token = task[t].token /\ x.defer = task[t].defer /\ x.out = out
    BY <1>1 DEF Task
  <2> HIDE DEF x
  <2> QED BY <1>3, <2>1, <2>2
<1>4. CASE Awaited(t) /\ Ended(t, out) = [FreeTask EXCEPT !.kind = task[t].kind, !.out = out]
  BY <1>4 DEF FreeTask
<1> QED BY <1>2, <1>3, <1>4 DEF Ended

LEMMA TokenAnswer ==
  ASSUME IInv, IInv', TokenInv, NEW t \in Tasks, NEW out, task' = [task EXCEPT ![t] = Ended(t, out)],
         live' \subseteq live
  PROVE  TokenInv'
<1> DEFINE x == Ended(t, out)
<1>1. /\ task' = [task EXCEPT ![t] = x] /\ x.pc = "done"
      /\ \/ x.token = NoToken
         \/ x.token = task[t].token /\ x.defer /\ x.out \in {"saved", "finished"}
  BY EndedToken
<1> HIDE DEF x
<1>2. TokenOk(x, live')
  BY <1>1 DEF TokenOk
<1> QED BY <1>1, <1>2, TokenMove

-----------------------------------------------------------------------------
LEMMA WorkflowTokens ==
  ASSUME IInv, IInv', JInv, TokenInv, NEW e \in Execs,
         \/ WorkflowStep(e) \/ WorkflowFault(e) \/ TerminateStalled(e)
  PROVE  TokenInv'
<1>1. ASSUME live' \subseteq live, task' = task \/ \E t : task' = [task EXCEPT ![t] = FreeTask]
      PROVE  TokenInv'
  <2>1. \A t \in Tasks : task'[t] \in {task[t], FreeTask}
    BY <1>1 DEF IInv, TypeOK
  <2> QED BY <1>1, <2>1, TokenFreed
<1>2. ASSUME \/ ReadStatus(e) \/ ReconcileCheck(e) \/ SetBlocked(e) \/ ApplyEffects(e)
             \/ ActivityFails(e) \/ \E b \in BOOLEAN : FinishJudgeExecution(e, b)
      PROVE  TokenInv'
  BY <1>2, TokenSame DEF ReadStatus, ReconcileCheck, SetBlocked, ApplyEffects, ActivityFails,
     FinishJudgeExecution
<1>3. ASSUME NEW safe \in BOOLEAN, ReconcileStage(e, safe) PROVE TokenInv'
  BY <1>3, ReconcileStageFacts, TokenSame
<1>4. ASSUME \/ CompleteAnswered(e) \/ StageTimedOut(e) \/ CompleteTimedOut(e) \/ AwaitCleanup(e)
             \/ \E b \in BOOLEAN : Recover(e, b)
      PROVE  TokenInv'
  <2>1. UNCHANGED live /\ (task' = task \/ \E t : task' = [task EXCEPT ![t] = FreeTask])
    BY Zenon, <1>4, CompleteAnsweredFacts, StageTimedOutFacts, CompleteTimedOutFacts, AwaitCleanupFacts,
       RecoverFacts
  <2> QED BY <1>1, <2>1
<1>5. ASSUME NEW t \in Tasks, NEW x, task' = [task EXCEPT ![t] = x], UNCHANGED live,
             x.pc \in {"unstarted", "preflight", "cleaning"}, x.token \in {task[t].token, NoToken}
      PROVE  TokenInv'
  BY <1>5, TokenMove DEF TokenOk
<1>6. ASSUME NEW t \in Tasks, QueueStage(e, t) \/ StartComplete(e, t) PROVE TokenInv'
  <2>1. CASE QueueStage(e, t)
    <3> DEFINE x == StageTask(e, wf[e].idx)
    <3>1. task' = [task EXCEPT ![t] = x] /\ UNCHANGED live
      BY <2>1, QueueStageFacts
    <3>2. x.pc = "unstarted" /\ x.token = NoToken
      BY StartedFields
    <3> HIDE DEF x
    <3> QED BY <1>5, <3>1, <3>2
  <2>2. CASE StartComplete(e, t)
    <3> DEFINE x == CompleteTask(e)
    <3>1. x.pc = "preflight" /\ x.token = NoToken /\ task' = [task EXCEPT ![t] = x] /\ UNCHANGED live
      BY <2>2, StartCompleteFacts, StartedFields
    <3> HIDE DEF x
    <3> QED BY Zenon, <1>5, <3>1
  <2> QED BY <1>6, <2>1, <2>2
<1>7. CASE StageAnswered(e)
  <2> DEFINE t == wf[e].task
             x == CleanupTask(e, task[t].token)
  <2>1. /\ t \in Tasks /\ UNCHANGED live
        /\ task' = [task EXCEPT ![t] = x] \/ task' = [task EXCEPT ![t] = FreeTask]
    BY <1>7, StageAnsweredFacts, SlotsTypes DEF JInv, SlotInv, SlotOk
  <2>2. x.pc = "cleaning" /\ x.token = task[t].token
    BY StartedFields
  <2> HIDE DEF x, t
  <2>3. CASE task' = [task EXCEPT ![t] = x]
    BY Zenon, <1>5, <2>1, <2>2, <2>3
  <2> QED BY <1>1, <2>1, <2>3
<1>8. CASE TerminateStalled(e)
  BY <1>8, TerminateFacts, TokenFreed
<1> QED BY Zenon, <1>2, <1>3, <1>4, <1>6, <1>7, <1>8 DEF WorkflowStep, WorkflowFault

LEMMA TaskTokens ==
  ASSUME IInv, IInv', JInv, TokenInv, NEW t \in Tasks, TaskStep(t) \/ TaskFault(t)
  PROVE  TokenInv'
<1>1. ASSUME NEW x, task' = [task EXCEPT ![t] = x], x.token = task[t].token,
             live' \subseteq live \cup {x.token},
             \/ x.pc \in {"executing", "catch", "guard", "commit"}
             \/ x.pc = "save" /\ (x.defer \/ x.token \notin live')
             \/ x.pc = "releasing" /\ x.token \notin live'
      PROVE  TokenInv'
  BY <1>1, TokenMove DEF TokenOk
<1>2. CASE ClaimJudgeLease(t)
  <2>1. ASSUME NEW out, task' = [task EXCEPT ![t] = Ended(t, out)], UNCHANGED live PROVE TokenInv'
    BY <2>1, TokenAnswer
  <2>2. ASSUME NEW k \in Tokens, FreshToken(k), UNCHANGED live,
               task' = [task EXCEPT ![t] = [@ EXCEPT !.pc = "claimed", !.token = k]]
        PROVE  TokenInv'
    <3> DEFINE x == [task[t] EXCEPT !.pc = "claimed", !.token = k]
    <3>1. x.pc = "claimed" /\ x.token = k /\ task' = [task EXCEPT ![t] = x]
      BY <2>2, TaskFacts, MovedTokenFields
    <3> HIDE DEF x
    <3>2. task'[t] = x /\ \A u \in Tasks : u # t => task'[u] = task[u]
      BY Zenon, <3>1, TaskAt
    <3>3. k \notin live /\ \A u \in Tasks : task[u].token # k
      BY <2>2 DEF FreshToken
    <3>4. TokenOk(x, live')
      BY <2>2, <3>1, <3>3 DEF TokenOk
    <3>5. ASSUME NEW u \in Tasks PROVE TokenOk(task'[u], live')
      BY <2>2, <3>2, <3>4 DEF TokenInv
    <3> QED BY <3>1, <3>2, <3>3, <3>5 DEF TokenInv
  <2> QED BY Zenon, <1>2, <2>1, <2>2, ClaimFacts
<1>3. CASE PastLastStage(t)
  <2>1. task[t].token \notin live
    BY <1>3, PastLastStageFacts DEF TokenInv, TokenOk
  <2> QED BY <1>1, <1>3, <2>1, PastLastStageFacts
<1>4. CASE StartSandbox(t)
  BY <1>1, <1>4, StartSandboxFacts
<1>5. CASE ReleaseJudgeStage(t)
  BY <1>5, TokenAnswer DEF ReleaseJudgeStage
<1>6. CASE CompletePreflight(t) \/ GuardVerdict(t) \/ CompleteJudge(t)
  <2>1. UNCHANGED live
    BY <1>6 DEF CompletePreflight, GuardVerdict, CompleteJudge
  <2>2. ASSUME NEW out, task' = [task EXCEPT ![t] = Ended(t, out)] PROVE TokenInv'
    BY <2>1, <2>2, TokenAnswer
  <2>3. ASSUME NEW x, task' = [task EXCEPT ![t] = x], x.token = task[t].token,
               x.pc = "guard" \/ x.pc = "commit"
        PROVE  TokenInv'
    BY <1>1, <2>1, <2>3
  <2>4. CASE CompletePreflight(t)
    BY Zenon, <2>2, <2>3, <2>4, PreflightFacts
  <2>5. CASE GuardVerdict(t)
    BY Zenon, <2>2, <2>3, <2>5, GuardFacts
  <2>6. CASE CompleteJudge(t)
    BY Zenon, <2>2, <2>6, CommitFacts
  <2> QED BY <1>6, <2>4, <2>5, <2>6
<1>7. ASSUME NEW b \in BOOLEAN, Fails(t, b) PROVE TokenInv'
  <2>1. CASE \E out : task' = [task EXCEPT ![t] = Ended(t, out)] /\ UNCHANGED live
    BY <2>1, TokenAnswer
  <2>2. CASE \E x : /\ task' = [task EXCEPT ![t] = x] /\ x.token = task[t].token
                    /\ x.pc = "releasing" /\ live' = live \ {task[t].token}
    BY <1>1, <2>2
  <2> QED BY Zenon, <1>7, <2>1, <2>2, FailsFacts
<1>8. ASSUME NEW b \in BOOLEAN, SandboxRan(t, b) PROVE TokenInv'
  BY <1>1, <1>8, SandboxRanFacts
<1>9. ASSUME NEW b \in BOOLEAN, SaveJudgeStage(t, b) PROVE TokenInv'
  <2>1. UNCHANGED live
    BY <1>9, SaveFacts
  <2>2. ASSUME NEW out, task' = [task EXCEPT ![t] = Ended(t, out)] PROVE TokenInv'
    BY <2>1, <2>2, TokenAnswer
  <2>3. ASSUME NEW x, task' = [task EXCEPT ![t] = x], x.token = task[t].token, x.pc = "catch"
        PROVE  TokenInv'
    BY <1>1, <2>1, <2>3
  <2>4. \/ \E out : task' = [task EXCEPT ![t] = Ended(t, out)]
        \/ \E x : task' = [task EXCEPT ![t] = x] /\ x.token = task[t].token /\ x.pc = "catch"
    BY <1>9, SaveFacts
  <2> QED BY <2>2, <2>3, <2>4
<1>10. CASE WorkerCrash(t)
  <2>1. PICK x : /\ task' = [task EXCEPT ![t] = x] /\ x.token = NoToken /\ x.pc \in {"done", "lost"}
                 /\ UNCHANGED live
    BY Zenon, <1>10, CrashFacts
  <2> QED BY <2>1, TokenMove DEF TokenOk
<1>11. CASE StorageFails(t)
  <2> DEFINE x == [task[t] EXCEPT !.pc = "catch"]
  <2>1. /\ task' \in {[task EXCEPT ![t] = x], [task EXCEPT ![t] = Ended(t, "failed")]} /\ UNCHANGED live
    BY Zenon, <1>11 DEF StorageFails
  <2>2. x.pc = "catch" /\ x.token = task[t].token
    BY TaskFacts, MovedFields
  <2> HIDE DEF x
  <2> QED BY <1>1, <2>1, <2>2, TokenAnswer
<1>12. CASE TaskStep(t)
  BY Zenon, <1>12, <1>2, <1>3, <1>4, <1>5, <1>6, <1>7, <1>8, <1>9 DEF TaskStep, Fails
<1>13. CASE TaskFault(t)
  BY Zenon, <1>13, <1>7, <1>10, <1>11 DEF TaskFault, Fails
<1> QED BY <1>12, <1>13

LEMMA InductiveT == IInv /\ JInv /\ TokenInv /\ [Next]_vars => TokenInv'
<1> SUFFICES ASSUME IInv, JInv, TokenInv, [Next]_vars PROVE TokenInv'
  OBVIOUS
<1>1. IInv'
  BY Inductive
<1>2. CASE Accept \/ Rejudge
  BY <1>2, TokenSame DEF Accept, Rejudge, CreateJudgeExecution
<1>3. ASSUME NEW e \in Execs,
             \/ CancelRejudge(e) \/ Dispatch(e, TRUE) \/ Dispatch(e, FALSE)
             \/ Redispatch(e) \/ NewEpoch(e) \/ CleanupTerminal(e) \/ LeaseLapses(e)
      PROVE  TokenInv'
  BY <1>3, TokenSame
  DEF CancelRejudge, Dispatch, Redispatch, NewEpoch, CleanupTerminal, LeaseLapses
<1>4. CASE UNCHANGED vars
  BY <1>4, TokenSame DEF vars
<1>5. ASSUME NEW t \in Tasks, HeartbeatJudgeStage(t) PROVE TokenInv'
  BY <1>5, TokenSame DEF HeartbeatJudgeStage
<1>6. ASSUME NEW k \in Tokens, ResourcesExpire(k) PROVE TokenInv'
  BY <1>6, TokenSame DEF ResourcesExpire
<1> QED BY Zenon, <1>1, <1>2, <1>3, <1>4, <1>5, <1>6, WorkflowTokens, TaskTokens DEF Next

-----------------------------------------------------------------------------
(* The activity is under way, or answered that its work was done. *)
Answers(t) == Busy(t) \/ task[t].out \in {"saved", "finished", "ok"}

(* The lease of e is given up, or that of the activity. *)
Bound(e, t) == Answers(t) => exec[e].lease \in {NoToken, task[t].token}

(* The workflow is past its stage. *)
PastStage(w) == w.pc \in {"publish", "completing", "effects", "settle"}

LeaseOk(e) ==
  /\ exec[e].state = "absent" => exec[e].lease = NoToken
  /\ wf[e].pc \in {"reconcile", "reconciling"} =>
       wf[e].tok # NoToken /\ exec[e].lease \in {NoToken, wf[e].tok}
  /\ wf[e].pc \in {"queue", "finish"} => exec[e].lease = NoToken
  /\ PastStage(wf[e]) /\ wf[e].cleaner = NoTask => exec[e].lease = NoToken
  /\ PastStage(wf[e]) /\ wf[e].cleaner # NoTask => Bound(e, wf[e].cleaner)
  /\ wf[e].pc = "await" => Bound(e, wf[e].task)
  /\ wf[e].cleaner # NoTask /\ Busy(wf[e].cleaner) => task[wf[e].cleaner].run = This(e)

(* What a workflow knows of the lease, as long as no late claim takes one. *)
LeaseInv == \A e \in Execs : LeaseOk(e)

(* A lease is given up at most. *)
RowKept(i) ==
  /\ exec'[i].lease \in {exec[i].lease, NoToken}
  /\ exec'[i].epoch = exec[i].epoch
  /\ exec'[i].state = "absent" => exec[i].state = "absent"

LEMMA KeptUnchanged ==
  ASSUME UNCHANGED exec
  PROVE  \A i \in Execs : RowKept(i)
BY DEF RowKept

LEMMA KeptQuiet ==
  ASSUME IInv, RowsQuiet, NEW i \in Execs, exec'[i].lease \in {exec[i].lease, NoToken}
  PROVE  RowKept(i)
BY DEF RowsQuiet, RowKept, Unfinished

LEMMA LeaseElsewhere ==
  ASSUME IInv, JInv, LeaseInv, NEW e \in Execs, WorkflowAlone(e), NEW f \in Execs, f # e
  PROVE  LeaseOk(f)'
<1>1. /\ wf'[f] = wf[f] /\ exec'[f] = exec[f] /\ This(f)' = This(f)
      /\ \A t \in Slots(f) : task'[t] = task[t]
  BY Elsewhere
<1>2. LeaseOk(f) /\ SlotOk(f)
  BY DEF LeaseInv, JInv, SlotInv
<1>3. /\ wf[f].cleaner # NoTask => task'[wf[f].cleaner] = task[wf[f].cleaner]
      /\ wf[f].pc = "await" => task'[wf[f].task] = task[wf[f].task]
  BY <1>1, <1>2 DEF SlotOk, Slots
<1> QED BY <1>1, <1>2, <1>3 DEF LeaseOk, Bound, Answers, Busy, PastStage

LEMMA LeaseGoes ==
  ASSUME IInv, JInv, LeaseInv, NEW e \in Execs, WorkflowAlone(e), LeaseOk(e)'
  PROVE  LeaseInv'
BY LeaseElsewhere DEF LeaseInv

(* The workflow goes where nothing is said of its lease. *)
LEMMA LeaseLeaving ==
  ASSUME IInv, JInv, LeaseInv, NEW e \in Execs, WorkflowAlone(e), RowKept(e),
         wf'[e].pc \in {"status", "closed", "recover", "blocked"},
         wf'[e].cleaner # NoTask =>
           wf'[e].cleaner = wf[e].cleaner /\ task'[wf[e].cleaner] = task[wf[e].cleaner]
  PROVE  LeaseInv'
<1>1. LeaseOk(e)
  BY DEF LeaseInv
<1>2. This(e)' = This(e)
  BY DEF RowKept, This
<1>3. exec'[e].state = "absent" => exec'[e].lease = NoToken
  BY <1>1 DEF RowKept, LeaseOk
<1>4. (wf[e].cleaner # NoTask /\ Busy(wf[e].cleaner) => task[wf[e].cleaner].run = This(e))'
  BY <1>1, <1>2 DEF LeaseOk, Busy
<1>5. LeaseOk(e)'
  BY <1>3, <1>4 DEF LeaseOk, PastStage
<1> QED BY <1>5, LeaseGoes

(* The workflow goes on without a lease and without a cleanup. *)
LEMMA LeaseFree ==
  ASSUME IInv, JInv, LeaseInv, NEW e \in Execs, WorkflowAlone(e), exec'[e].lease = NoToken,
         wf'[e].pc \notin {"reconcile", "reconciling"}, wf'[e].cleaner = NoTask
  PROVE  LeaseInv'
<1>1. LeaseOk(e)'
  BY DEF LeaseOk, Bound
<1> QED BY <1>1, LeaseGoes

(* The workflow goes on while its cleanup does. *)
LEMMA LeasePast ==
  ASSUME IInv, JInv, LeaseInv, NEW e \in Execs, WorkflowAlone(e), UNCHANGED exec,
         PastStage(wf[e]), PastStage(wf'[e]), wf'[e].cleaner = wf[e].cleaner,
         wf[e].cleaner # NoTask => task'[wf[e].cleaner] = task[wf[e].cleaner]
  PROVE  LeaseInv'
<1>1. LeaseOk(e)
  BY DEF LeaseInv
<1>2. This(e)' = This(e)
  BY DEF This
<1>3. wf'[e].cleaner = NoTask => exec'[e].lease = NoToken
  BY <1>1 DEF LeaseOk
<1>4. wf'[e].cleaner # NoTask =>
        Bound(e, wf[e].cleaner)' /\ (Busy(wf[e].cleaner)' => task'[wf[e].cleaner].run = This(e)')
  BY <1>1, <1>2 DEF LeaseOk, Bound, Answers, Busy
<1>5. exec'[e].state = "absent" => exec'[e].lease = NoToken
  BY <1>1 DEF LeaseOk
<1>6. LeaseOk(e)'
  BY <1>3, <1>4, <1>5 DEF LeaseOk, Bound, Answers, Busy, PastStage
<1> QED BY <1>6, LeaseGoes

(* No workflow moves, and no activity. *)
LEMMA LeaseRow ==
  ASSUME UNCHANGED <<wf, task>>, NEW e \in Execs, LeaseOk(e), RowKept(e)
  PROVE  LeaseOk(e)'
<1>1. This(e)' = This(e)
  BY DEF RowKept, This
<1> QED BY <1>1 DEF LeaseOk, RowKept, Bound, Answers, Busy, PastStage

LEMMA LeaseRows ==
  ASSUME LeaseInv, UNCHANGED <<wf, task>>, \A i \in Execs : RowKept(i)
  PROVE  LeaseInv'
BY LeaseRow DEF LeaseInv

(* An activity moves or answers. *)
LEMMA LeaseTask ==
  ASSUME IInv, JInv, LeaseInv, NEW t \in Tasks, Busy(t), NEW x, task' = [task EXCEPT ![t] = x],
         UNCHANGED wf, \A i \in Execs : RowKept(i),
         x.pc \notin {"done", "lost"} => x.run = task[t].run,
         task[t].kind # "complete"
           /\ (x.pc \notin {"done", "lost"} \/ x.out \in {"saved", "finished", "ok"}) =>
           \A e \in Execs : task[t].run = This(e) /\ exec[e].lease \in {NoToken, task[t].token} =>
             exec'[e].lease \in {NoToken, x.token}
  PROVE  LeaseInv'
<1>1. task'[t] = x /\ \A u \in Tasks : u # t => task'[u] = task[u]
  BY Zenon, TaskAt
<1>2. ASSUME NEW e \in Execs PROVE LeaseOk(e)'
  <2>1. LeaseOk(e) /\ SlotOk(e) /\ RowKept(e) /\ This(e)' = This(e)
    BY DEF LeaseInv, JInv, SlotInv, RowKept, This
  <2>2. wf[e].task \in Tasks \cup {NoTask} /\ wf[e].cleaner \in Tasks \cup {NoTask}
    BY SlotsTypes
  <2>3. ASSUME task[t].run = This(e), task[t].kind # "complete", Bound(e, t) PROVE Bound(e, t)'
    BY <1>1, <2>3 DEF Bound, Answers, Busy
  <2>4. wf[e].pc = "await" => Bound(e, wf[e].task)'
    <3>1. ASSUME wf[e].pc = "await" PROVE Bound(e, wf[e].task)'
      <4>1. wf[e].task \in Tasks /\ Bound(e, wf[e].task) /\ wf[e].task # NoTask
        BY <2>1, <2>2, <3>1 DEF LeaseOk, SlotOk
      <4>2. CASE wf[e].task = t
        <5>1. Bound(e, t)'
          BY <2>1, <2>3, <3>1, <4>1, <4>2 DEF SlotOk, Busy, Bound, Answers
        <5> QED BY <4>2, <5>1 DEF Bound, Answers, Busy
      <4>3. CASE wf[e].task # t
        BY <1>1, <2>1, <4>1, <4>3 DEF Bound, Answers, Busy, RowKept
      <4> QED BY <4>2, <4>3
    <3> QED BY <3>1
  <2>5. wf[e].cleaner # NoTask =>
          /\ PastStage(wf[e]) => Bound(e, wf[e].cleaner)'
          /\ Busy(wf[e].cleaner)' => task'[wf[e].cleaner].run = This(e)'
    <3>1. CASE wf[e].cleaner = t
      <4>1. task[t].run = This(e) /\ task[t].kind # "complete"
        BY <2>1, <2>2, <3>1, ParameterAssumption DEF LeaseOk, SlotOk
      <4> QED BY <1>1, <2>1, <2>3, <3>1, <4>1 DEF LeaseOk, Busy
    <3>2. CASE wf[e].cleaner # t
      BY <1>1, <2>1, <2>2, <3>2 DEF LeaseOk, Bound, Answers, Busy, RowKept
    <3> QED BY <3>1, <3>2
  <2>6. /\ exec'[e].state = "absent" => exec'[e].lease = NoToken
        /\ wf[e].pc \in {"reconcile", "reconciling"} =>
             wf[e].tok # NoToken /\ exec'[e].lease \in {NoToken, wf[e].tok}
        /\ wf[e].pc \in {"queue", "finish"} => exec'[e].lease = NoToken
        /\ PastStage(wf[e]) /\ wf[e].cleaner = NoTask => exec'[e].lease = NoToken
    BY <2>1 DEF LeaseOk, RowKept
  <2> QED BY <2>4, <2>5, <2>6 DEF LeaseOk, Bound, Answers, Busy, PastStage
<1> QED BY <1>2 DEF LeaseInv

-----------------------------------------------------------------------------
(* Where workflow e has no cleanup under way. *)
LEMMA NoCleaner ==
  ASSUME JInv, NEW e \in Execs,
         wf[e].pc \notin {"publish", "completing", "effects", "settle", "recover"}
  PROVE  wf[e].cleaner = NoTask
BY DEF JInv, SlotInv, SlotOk

LEMMA ReadStatusLease ==
  ASSUME IInv, NEW e \in Execs, ReadStatus(e)
  PROVE  IF exec[e].lease = NoToken THEN wf'[e].pc # "reconcile"
         ELSE wf'[e].pc = "reconcile" /\ wf'[e].tok = exec[e].lease
<1> DEFINE fin == exec[e].state = "finalizing"
           ended == exec[e].state \in Terminal
           w == [wf[e] EXCEPT !.fin = fin, !.ended = ended, !.idx = exec[e].stages,
                              !.tok = exec[e].lease]
           r == [w EXCEPT !.pc = "reconcile"]
           u == IF w.tok = NoToken THEN Unleased(w) ELSE r
<1>1. wf' = [wf EXCEPT ![e] = u]
  BY DEF ReadStatus
<1>2. /\ fin \in BOOLEAN /\ ended \in BOOLEAN
      /\ exec[e].stages \in 0 .. NumStages /\ exec[e].lease \in Tokens \cup {NoToken}
  BY DEF IInv, TypeOK, ExecutionRow
<1> HIDE DEF fin, ended
<1>3. w \in WorkflowState /\ w.tok = exec[e].lease
  BY Zenon, <1>2 DEF IInv, TypeOK, WorkflowState
<1> HIDE DEF w
<1>4. r.pc = "reconcile" /\ r.tok = w.tok
  BY <1>3 DEF WorkflowState
<1>5. Unleased(w).pc # "reconcile"
  BY <1>3, UnleasedFields
<1> HIDE DEF r
<1>6. w.tok = NoToken => u.pc # "reconcile"
  BY <1>5
<1>7. w.tok # NoToken => u.pc = "reconcile" /\ u.tok = w.tok
  BY <1>4
<1> HIDE DEF u
<1>8. wf'[e] = u
  BY Zenon, <1>1, WorkflowAt
<1> QED BY <1>3, <1>6, <1>7, <1>8

LEMMA ReadStatusL ==
  ASSUME IInv, JInv, LeaseInv, NEW e \in Execs, ReadStatus(e)
  PROVE  LeaseInv'
<1>1. wf[e].pc = "status" /\ UNCHANGED <<sub, exec, task, committed, scored>>
  BY DEF ReadStatus
<1>2. PICK w : /\ wf' = [wf EXCEPT ![e] = w] /\ w.cleaner = wf[e].cleaner
               /\ w.pc \in {"reconcile", "closed", "queue", "settle", "publish"}
  BY ReadStatusFacts
<1>3. WorkflowAlone(e) /\ wf'[e] = w
  BY Zenon, <1>1, <1>2, AloneIs, NoneStartedSame
<1>4. wf'[e].cleaner = NoTask
  BY <1>1, <1>2, <1>3, NoCleaner
<1>5. CASE exec[e].lease = NoToken
  BY <1>1, <1>2, <1>3, <1>4, <1>5, ReadStatusLease, LeaseFree
<1>6. CASE exec[e].lease # NoToken
  <2>1. wf'[e].pc = "reconcile" /\ wf'[e].tok = exec[e].lease
    BY <1>6, ReadStatusLease
  <2>2. exec[e].state # "absent"
    BY <1>6 DEF LeaseInv, LeaseOk
  <2>3. LeaseOk(e)'
    BY <1>1, <1>4, <1>6, <2>1, <2>2 DEF LeaseOk, PastStage
  <2> QED BY <1>3, <2>3, LeaseGoes
<1> QED BY <1>5, <1>6

LEMMA ReconcileCheckL ==
  ASSUME IInv, JInv, LeaseInv, NEW e \in Execs, ReconcileCheck(e)
  PROVE  LeaseInv'
<1>1. wf[e].pc = "reconcile" /\ UNCHANGED <<sub, exec, task, committed, scored>>
  BY DEF ReconcileCheck
<1>2. PICK w : /\ wf' = [wf EXCEPT ![e] = w] /\ Carried(wf[e], w)
               /\ \/ Freed(wf[e], w) /\ w.tok = NoToken
                  \/ w.pc \in {"blocked", "reconciling"} /\ w.tok = wf[e].tok /\ exec[e].lease = wf[e].tok
  BY ReconcileCheckFacts
<1>3. WorkflowAlone(e) /\ wf'[e] = w
  BY Zenon, <1>1, <1>2, AloneIs, NoneStartedSame
<1>4. wf'[e].cleaner = NoTask /\ LeaseOk(e)
  BY <1>1, <1>2, <1>3, NoCleaner DEF Carried, LeaseInv
<1>5. w.pc \in {"blocked", "reconciling", "closed", "queue", "settle", "publish"}
  BY <1>2, SlotsTypes DEF Freed, WorkflowState
<1>6. CASE w.pc = "blocked"
  BY <1>1, <1>3, <1>4, <1>6, KeptUnchanged, LeaseLeaving
<1>7. CASE w.pc = "reconciling"
  <2>1. w.tok = wf[e].tok
    BY <1>2, <1>7, SlotsTypes DEF Freed, WorkflowState
  <2>2. LeaseOk(e)'
    BY <1>1, <1>3, <1>4, <1>7, <2>1 DEF LeaseOk, PastStage
  <2> QED BY <1>3, <2>2, LeaseGoes
<1>8. CASE w.pc \in {"closed", "queue", "settle", "publish"}
  <2>1. exec[e].lease # wf[e].tok
    <3>1. ASSUME exec[e].lease = wf[e].tok PROVE FALSE
      <4> DEFINE p == IF exec[e].fresh THEN "blocked" ELSE "reconciling"
                 v == [wf[e] EXCEPT !.pc = p]
      <4>1. wf' = [wf EXCEPT ![e] = v]
        BY <3>1 DEF ReconcileCheck
      <4>2. v.pc = p /\ p \in {"blocked", "reconciling"}
        BY SlotsTypes DEF WorkflowState
      <4> HIDE DEF v, p
      <4>3. wf'[e] = v
        BY Zenon, <4>1, WorkflowAt
      <4> QED BY <1>3, <1>8, <4>2, <4>3
    <3> QED BY <3>1
  <2>2. exec[e].lease = NoToken
    BY <1>1, <1>4, <2>1 DEF LeaseOk
  <2> QED BY <1>1, <1>3, <1>4, <1>8, <2>2, LeaseFree
<1> QED BY <1>5, <1>6, <1>7, <1>8

LEMMA ReleasedLease ==
  ASSUME IInv, NEW run, run.exec \in Execs, NEW k, exec' = Released(run, k)
  PROVE  /\ \A i \in Execs : i # run.exec => exec'[i] = exec[i]
         /\ exec'[run.exec].lease \in {exec[run.exec].lease, NoToken}
         /\ exec'[run.exec].lease # exec[run.exec].lease => exec[run.exec].lease = k
         /\ exec[run.exec].epoch = run.epoch /\ exec[run.exec].lease \in {NoToken, k} =>
              exec'[run.exec].lease = NoToken
<1> DEFINE row == [exec[run.exec] EXCEPT !.lease = NoToken, !.fresh = FALSE]
<1>1. IF exec[run.exec].epoch = run.epoch /\ exec[run.exec].lease = k
      THEN exec' = [exec EXCEPT ![run.exec] = row] ELSE exec' = exec
  BY DEF Released
<1>2. row.lease = NoToken
  BY ReleasedFields DEF IInv, TypeOK
<1> HIDE DEF row
<1> QED BY <1>1, <1>2 DEF IInv, TypeOK

LEMMA ThisFields ==
  ASSUME NEW e \in Execs
  PROVE  This(e).exec = e /\ This(e).epoch = exec[e].epoch
BY DEF This, Run

LEMMA ReconcileStageL ==
  ASSUME IInv, JInv, LeaseInv, NEW e \in Execs, NEW safe \in BOOLEAN, ReconcileStage(e, safe)
  PROVE  LeaseInv' /\ \A i \in Execs : exec'[i].lease # exec[i].lease => exec[i].lease \notin live'
<1>1. wf[e].pc = "reconciling" /\ UNCHANGED <<sub, task, committed, scored>>
  BY ReconcileStageFacts
<1>2. PICK w : /\ wf' = [wf EXCEPT ![e] = w] /\ Carried(wf[e], w)
               /\ \/ /\ Freed(wf[e], w) /\ exec' = Released(This(e), wf[e].tok)
                     /\ live' = live \ {wf[e].tok}
                  \/ w.pc = "blocked" /\ UNCHANGED exec
  BY ReconcileStageFacts
<1>3. LeaseOk(e)
  BY DEF LeaseInv
<1>4. CASE w.pc = "blocked" /\ UNCHANGED exec
  <2>1. WorkflowAlone(e) /\ wf'[e] = w
    BY Zenon, <1>1, <1>2, <1>4, AloneIs, NoneStartedSame
  <2>2. wf'[e].cleaner = NoTask
    BY <1>1, <1>2, <2>1, NoCleaner DEF Carried
  <2> QED BY <1>1, <1>4, <2>1, <2>2, KeptUnchanged, LeaseLeaving
<1>5. CASE /\ Freed(wf[e], w) /\ exec' = Released(This(e), wf[e].tok)
           /\ live' = live \ {wf[e].tok}
  <2>1. /\ \A f \in Execs : f # e => exec'[f] = exec[f]
        /\ exec'[e].lease # exec[e].lease => exec[e].lease = wf[e].tok
        /\ exec'[e].lease = NoToken
    BY <1>1, <1>3, <1>5, ThisFields, ReleasedLease DEF LeaseOk
  <2>2. WorkflowAlone(e) /\ wf'[e] = w
    BY Zenon, <1>1, <1>2, <2>1, AloneIs, NoneStartedSame
  <2>3. wf'[e].cleaner = NoTask
    BY <1>1, <1>2, <2>2, NoCleaner DEF Carried
  <2>4. w.pc \notin {"reconcile", "reconciling"}
    BY <1>5, SlotsTypes DEF Freed, WorkflowState
  <2> QED BY <1>5, <2>1, <2>2, <2>3, <2>4, LeaseFree
<1> QED BY <1>2, <1>4, <1>5

LEMMA KeptSetState ==
  ASSUME IInv, NEW run, run.exec \in Execs, NEW s \in Unfinished, SetState(run, s),
         UNCHANGED committed
  PROVE  \A i \in Execs : RowKept(i) /\ exec'[i].lease = exec[i].lease
<1>1. \A i \in Execs : /\ exec'[i].epoch = exec[i].epoch /\ exec'[i].lease = exec[i].lease
                       /\ exec'[i].state = exec[i].state \/ exec'[i].state \in Unfinished
  BY SetStateFacts DEF SameRow
<1> QED BY <1>1 DEF RowKept, Unfinished

LEMMA SetBlockedL ==
  ASSUME IInv, JInv, LeaseInv, NEW e \in Execs, SetBlocked(e)
  PROVE  LeaseInv'
<1>1. /\ wf' = [wf EXCEPT ![e] = Loop(e)] /\ UNCHANGED <<task, committed>>
      /\ SetState(This(e), "blocked") /\ "blocked" \in Unfinished
  BY DEF SetBlocked, Unfinished
<1>2. RowKept(e) /\ \A f \in Execs : f # e => exec'[f] = exec[f]
  BY <1>1, ThisFields, KeptSetState, SetStateAlone
<1>3. WorkflowAlone(e) /\ wf'[e] = Loop(e)
  BY Zenon, <1>1, <1>2, AloneIs, NoneStartedSame
<1>4. wf'[e].pc = "status" /\ wf'[e].cleaner = NoTask
  BY <1>3, WorkflowFields
<1> QED BY <1>2, <1>3, <1>4, LeaseLeaving

LEMMA ActivityFailsL ==
  ASSUME IInv, JInv, LeaseInv, NEW e \in Execs, ActivityFails(e)
  PROVE  LeaseInv'
<1>1. UNCHANGED <<sub, exec, task, committed>>
  BY ActivityFailsFacts
<1>2. PICK w : wf' = [wf EXCEPT ![e] = w] /\ w.pc = "recover" /\ w.cleaner = wf[e].cleaner
  BY ActivityFailsFacts
<1>3. WorkflowAlone(e) /\ wf'[e] = w /\ RowKept(e)
  BY Zenon, <1>1, <1>2, AloneIs, NoneStartedSame, KeptUnchanged
<1> QED BY <1>1, <1>2, <1>3, LeaseLeaving

LEMMA FinishL ==
  ASSUME IInv, JInv, LeaseInv, NEW e \in Execs, NEW answered \in BOOLEAN,
         FinishJudgeExecution(e, answered)
  PROVE  LeaseInv' /\ \A i \in Execs : exec'[i].lease = exec[i].lease
<1>1. wf[e].pc = "finish" /\ UNCHANGED <<task, committed>>
  BY FinishFacts
<1>2. PICK w : wf' = [wf EXCEPT ![e] = w] /\ w.pc \in {"closed", "recover"} /\ w.cleaner = NoTask
  BY FinishFacts
<1>3. \A f \in Execs : f # e => exec'[f] = exec[f]
  BY FinishFacts
<1>4. exec[e].lease = NoToken
  BY <1>1 DEF LeaseInv, LeaseOk
<1>5. exec'[e].lease = NoToken /\ RowKept(e)
  BY <1>4, FinishFacts DEF RowKept
<1>6. WorkflowAlone(e) /\ wf'[e] = w
  BY Zenon, <1>1, <1>2, <1>3, AloneIs, NoneStartedSame
<1>7. LeaseInv'
  BY <1>2, <1>5, <1>6, LeaseLeaving
<1> QED BY <1>3, <1>4, <1>5, <1>7

LEMMA RecoverL ==
  ASSUME IInv, JInv, LeaseInv, NEW e \in Execs, NEW recorded \in BOOLEAN, Recover(e, recorded)
  PROVE  LeaseInv' /\ \A i \in Execs : exec'[i].lease = exec[i].lease
<1>1. /\ wf' = [wf EXCEPT ![e] = Loop(e)] /\ UNCHANGED committed
      /\ task' \in {task, [task EXCEPT ![wf[e].cleaner] = FreeTask]}
  BY RecoverFacts
<1>2. /\ \A f \in Execs : f # e => exec'[f] = exec[f]
      /\ \A i \in Execs : RowKept(i) /\ exec'[i].lease = exec[i].lease
  <2>1. RecoveryStates(wf[e].fin) \subseteq Unfinished
    BY DEF RecoveryStates, Unfinished
  <2>2. ASSUME NEW s \in Unfinished, SetState(This(e), s)
        PROVE  /\ \A f \in Execs : f # e => exec'[f] = exec[f]
               /\ \A i \in Execs : RowKept(i) /\ exec'[i].lease = exec[i].lease
    BY <1>1, <2>2, ThisFields, KeptSetState, SetStateAlone
  <2>3. CASE UNCHANGED exec
    BY <2>3, KeptUnchanged
  <2>4. UNCHANGED exec \/ \E s \in Unfinished : SetState(This(e), s)
    BY <2>1, RecoverFacts
  <2> QED BY <2>2, <2>3, <2>4
<1>3. \A u \in Tasks : SlotGo(e, u)
  BY <1>1, NoneStartedFree
<1>4. WorkflowAlone(e) /\ wf'[e] = Loop(e)
  BY Zenon, <1>1, <1>2, <1>3, AloneIs
<1>5. wf'[e].pc = "status" /\ wf'[e].cleaner = NoTask
  BY <1>4, WorkflowFields
<1> QED BY <1>2, <1>4, <1>5, LeaseLeaving

LEMMA TerminateL ==
  ASSUME IInv, JInv, LeaseInv, NEW e \in Execs, TerminateStalled(e)
  PROVE  LeaseInv'
<1>1. wf' = [wf EXCEPT ![e] = Closed] /\ UNCHANGED <<sub, exec, committed>>
  BY TerminateFacts
<1>2. \A t \in Tasks : SlotGo(e, t)
  BY TerminateFacts, FreeFields DEF SlotGo, Busy
<1>3. WorkflowAlone(e) /\ wf'[e] = Closed /\ RowKept(e)
  BY Zenon, <1>1, <1>2, AloneIs, KeptUnchanged
<1>4. wf'[e].pc = "closed" /\ wf'[e].cleaner = NoTask
  BY <1>3, WorkflowFields
<1> QED BY <1>3, <1>4, LeaseLeaving

LEMMA DispatchL ==
  ASSUME IInv, JInv, LeaseInv, NEW e \in Execs, NEW gate \in BOOLEAN, Dispatch(e, gate)
  PROVE  LeaseInv'
<1>1. UNCHANGED <<sub, exec, task, committed>>
  BY DispatchFacts
<1>2. CASE UNCHANGED wf
  BY <1>1, <1>2, KeptUnchanged, LeaseRows
<1>3. CASE ~UNCHANGED wf
  <2>1. PICK w : wf' = [wf EXCEPT ![e] = w] /\ w.pc = "status" /\ w.cleaner = wf[e].cleaner
    BY <1>3, DispatchFacts
  <2>2. WorkflowAlone(e) /\ wf'[e] = w /\ RowKept(e)
    BY Zenon, <1>1, <2>1, AloneIs, NoneStartedSame, KeptUnchanged
  <2> QED BY <1>1, <2>1, <2>2, LeaseLeaving
<1> QED BY <1>2, <1>3

LEMMA StageTimedOutL ==
  ASSUME IInv, JInv, LeaseInv, NEW e \in Execs, StageTimedOut(e)
  PROVE  LeaseInv'
<1>1. /\ wf[e].pc = "await" /\ UNCHANGED <<sub, exec, committed>>
      /\ task' \in {task, [task EXCEPT ![wf[e].task] = FreeTask]}
  BY StageTimedOutFacts
<1>2. \A u \in Tasks : SlotGo(e, u)
  BY <1>1, NoneStartedFree
<1>3. PICK w : /\ wf' = [wf EXCEPT ![e] = w] /\ w.pc \in {"status", "recover"}
               /\ w.cleaner \in {wf[e].cleaner, NoTask}
  BY StageTimedOutFacts
<1>4. WorkflowAlone(e) /\ wf'[e] = w /\ RowKept(e)
  BY Zenon, <1>1, <1>2, <1>3, AloneIs, KeptUnchanged
<1>5. w.cleaner = NoTask
  BY <1>1, <1>3, NoCleaner
<1> QED BY <1>3, <1>4, <1>5, LeaseLeaving

(* The cleanup is not what the workflow waits for otherwise. *)
LEMMA CleanerStays ==
  ASSUME IInv, JInv, NEW e \in Execs, wf[e].task \in Tasks, wf[e].cleaner # NoTask,
         NEW x, task' \in {task, [task EXCEPT ![wf[e].task] = x]}
  PROVE  task'[wf[e].cleaner] = task[wf[e].cleaner]
<1>1. wf[e].cleaner \in Tasks /\ wf[e].cleaner # wf[e].task
  BY SlotsTypes, NoSlotTwice
<1> QED BY <1>1, TaskAt

LEMMA CompleteTimedOutL ==
  ASSUME IInv, JInv, LeaseInv, NEW e \in Execs, CompleteTimedOut(e)
  PROVE  LeaseInv'
<1>1. /\ wf[e].pc = "completing" /\ UNCHANGED <<sub, exec, committed>>
      /\ task' \in {task, [task EXCEPT ![wf[e].task] = FreeTask]}
  BY CompleteTimedOutFacts
<1>2. \A u \in Tasks : SlotGo(e, u)
  BY <1>1, NoneStartedFree
<1>3. PICK w : wf' = [wf EXCEPT ![e] = w] /\ w.pc = "recover" /\ w.cleaner = wf[e].cleaner
  BY CompleteTimedOutFacts
<1>4. WorkflowAlone(e) /\ wf'[e] = w /\ RowKept(e)
  BY Zenon, <1>1, <1>2, <1>3, AloneIs, KeptUnchanged
<1>5. wf[e].task \in Tasks
  BY <1>1, SlotsTypes DEF JInv, SlotInv, SlotOk
<1>6. wf[e].cleaner # NoTask => task'[wf[e].cleaner] = task[wf[e].cleaner]
  BY <1>1, <1>5, CleanerStays
<1> QED BY <1>3, <1>4, <1>6, LeaseLeaving

LEMMA CompleteAnsweredL ==
  ASSUME IInv, JInv, LeaseInv, NEW e \in Execs, CompleteAnswered(e)
  PROVE  LeaseInv'
<1>1. /\ wf[e].pc = "completing" /\ UNCHANGED <<sub, exec, committed>>
      /\ task' = [task EXCEPT ![wf[e].task] = FreeTask]
  BY CompleteAnsweredFacts
<1>2. \A u \in Tasks : SlotGo(e, u)
  BY <1>1, NoneStartedFree
<1>3. PICK w : /\ wf' = [wf EXCEPT ![e] = w] /\ w.pc \in {"recover", "effects", "settle"}
               /\ w.cleaner = wf[e].cleaner
  BY CompleteAnsweredFacts
<1>4. WorkflowAlone(e) /\ wf'[e] = w /\ RowKept(e)
  BY Zenon, <1>1, <1>2, <1>3, AloneIs, KeptUnchanged
<1>5. wf[e].task \in Tasks
  BY <1>1, SlotsTypes DEF JInv, SlotInv, SlotOk
<1>6. wf[e].cleaner # NoTask => task'[wf[e].cleaner] = task[wf[e].cleaner]
  <2>1. task' \in {task, [task EXCEPT ![wf[e].task] = FreeTask]}
    BY <1>1
  <2> QED BY <1>5, <2>1, CleanerStays
<1>7. CASE w.pc = "recover"
  BY <1>3, <1>4, <1>6, <1>7, LeaseLeaving
<1>8. CASE w.pc \in {"effects", "settle"}
  <2>1. PastStage(wf[e]) /\ PastStage(wf'[e])
    BY <1>1, <1>4, <1>8 DEF PastStage
  <2> QED BY <1>1, <1>3, <1>4, <1>6, <2>1, LeasePast
<1> QED BY <1>3, <1>7, <1>8

LEMMA ApplyEffectsL ==
  ASSUME IInv, JInv, LeaseInv, NEW e \in Execs, ApplyEffects(e)
  PROVE  LeaseInv'
<1>1. wf[e].pc = "effects" /\ UNCHANGED <<sub, exec, task, committed>>
  BY ApplyEffectsFacts
<1>2. PICK w : wf' = [wf EXCEPT ![e] = w] /\ w.pc = "settle" /\ w.cleaner = wf[e].cleaner
  BY ApplyEffectsFacts
<1>3. WorkflowAlone(e) /\ wf'[e] = w
  BY Zenon, <1>1, <1>2, AloneIs, NoneStartedSame
<1>4. PastStage(wf[e]) /\ PastStage(wf'[e])
  BY <1>1, <1>2, <1>3 DEF PastStage
<1> QED BY <1>1, <1>2, <1>3, <1>4, LeasePast

LEMMA StartCompleteL ==
  ASSUME IInv, JInv, LeaseInv, NEW e \in Execs, NEW t \in Tasks, StartComplete(e, t)
  PROVE  LeaseInv'
<1> DEFINE x == CompleteTask(e)
<1>1. /\ wf[e].pc = "publish" /\ task[t].kind = "free" /\ task' = [task EXCEPT ![t] = x]
      /\ UNCHANGED <<sub, exec, committed>>
  BY StartCompleteFacts
<1>2. PICK w : wf' = [wf EXCEPT ![e] = w] /\ w.pc = "completing" /\ w.cleaner = wf[e].cleaner
  BY StartCompleteFacts
<1>3. x.kind = "complete" /\ x.run = This(e) /\ x.pc = "preflight" /\ x.index = 0 /\ x.out = "none"
  BY StartedFields
<1> HIDE DEF x
<1>4. \A u \in Tasks : SlotGo(e, u)
  <2>1. PcOk(x) /\ x.index <= exec[e].stages
    BY <1>3, IndexesAreNatural DEF PcOk
  <2> QED BY Zenon, <1>1, <1>3, <2>1, GoStart
<1>5. WorkflowAlone(e) /\ wf'[e] = w
  BY Zenon, <1>1, <1>2, <1>4, AloneIs
<1>6. wf[e].cleaner # NoTask => task'[wf[e].cleaner] = task[wf[e].cleaner]
  <2>1. wf[e].cleaner # NoTask => wf[e].cleaner \in Tasks /\ wf[e].cleaner # t
    BY <1>1, SlotsTypes DEF JInv, SlotInv, SlotOk
  <2> QED BY <1>1, <2>1, TaskAt
<1>7. PastStage(wf[e]) /\ PastStage(wf'[e])
  BY <1>1, <1>2, <1>5 DEF PastStage
<1> QED BY <1>1, <1>2, <1>5, <1>6, <1>7, LeasePast

LEMMA QueueStageL ==
  ASSUME IInv, JInv, LeaseInv, NEW e \in Execs, NEW t \in Tasks, QueueStage(e, t)
  PROVE  LeaseInv' /\ \A i \in Execs : exec'[i].lease = exec[i].lease
<1> DEFINE x == StageTask(e, wf[e].idx)
<1>1. /\ wf[e].pc = "queue" /\ task[t].kind = "free" /\ task' = [task EXCEPT ![t] = x]
      /\ SetState(This(e), "queued") /\ "queued" \in Unfinished /\ UNCHANGED committed
  BY QueueStageFacts DEF Unfinished
<1>2. PICK w : wf' = [wf EXCEPT ![e] = w] /\ w.pc = "await" /\ w.cleaner = wf[e].cleaner
  BY QueueStageFacts
<1>3. /\ \A f \in Execs : f # e => exec'[f] = exec[f]
      /\ \A i \in Execs : exec'[i].lease = exec[i].lease
  BY <1>1, ThisFields, KeptSetState, SetStateAlone
<1>4. /\ x.kind = "stage" /\ x.run = This(e) /\ x.pc = "unstarted" /\ x.index = wf[e].idx
      /\ x.out = "none"
  BY StartedFields
<1> HIDE DEF x
<1>5. \A u \in Tasks : SlotGo(e, u)
  <2>1. PcOk(x) /\ x.index <= exec[e].stages
    BY <1>4 DEF PcOk, JInv, SlotInv, SlotOk
  <2> QED BY Zenon, <1>1, <1>4, <2>1, GoStart
<1>6. WorkflowAlone(e) /\ wf'[e] = w
  BY Zenon, <1>1, <1>2, <1>3, <1>5, AloneIs
<1>7. exec'[e].lease = NoToken
  BY <1>1, <1>3 DEF LeaseInv, LeaseOk
<1>8. w.cleaner = NoTask
  BY <1>1, <1>2, NoCleaner
<1> QED BY <1>2, <1>3, <1>6, <1>7, <1>8, LeaseFree
LEMMA StageAnsweredL ==
  ASSUME IInv, JInv, TokenInv, LeaseInv, NEW e \in Execs, StageAnswered(e)
  PROVE  LeaseInv'
<1> DEFINE t == wf[e].task
           x == CleanupTask(e, task[t].token)
<1>1. /\ wf[e].pc = "await" /\ task[t].pc = "done" /\ UNCHANGED <<sub, exec, committed>>
      /\ \/ Deferred(t) /\ task' = [task EXCEPT ![t] = x]
         \/ ~Deferred(t) /\ task' = [task EXCEPT ![t] = FreeTask]
  BY StageAnsweredFacts
<1>2. t \in Tasks /\ t # NoTask /\ t \in Slots(e)
  BY <1>1, SlotsTypes DEF JInv, SlotInv, SlotOk, Slots
<1>3. /\ x.kind = "cleanup" /\ x.run = This(e) /\ x.pc = "cleaning" /\ x.index = 0
      /\ x.token = task[t].token
  BY StartedFields
<1>4. wf[e].cleaner = NoTask /\ LeaseOk(e)
  BY <1>1, NoCleaner DEF LeaseInv
<1>5. PICK w : /\ wf' = [wf EXCEPT ![e] = w]
               /\ \/ w.pc \in {"status", "closed", "recover"} /\ w.cleaner = NoTask
                  \/ /\ w.pc \in {"settle", "publish"} /\ task[t].out \in {"saved", "finished"}
                     /\ w.cleaner = IF Deferred(t) THEN t ELSE NoTask
  BY <1>4, StageAnsweredFacts, SlotsTypes DEF WorkflowState, Leaving
<1> HIDE DEF x
<1>6. \A u \in Tasks : SlotGo(e, u)
  <2>1. CASE task' = [task EXCEPT ![t] = x]
    <3>1. PcOk(x) /\ x.index <= exec[e].stages
      BY <1>3, IndexesAreNatural DEF PcOk
    <3> QED BY Zenon, <1>2, <1>3, <2>1, <3>1, GoStart
  <2>2. CASE task' = [task EXCEPT ![t] = FreeTask]
    BY Zenon, <2>2, GoFreeOne
  <2> QED BY <1>1, <2>1, <2>2
<1>7. WorkflowAlone(e) /\ wf'[e] = w
  BY Zenon, <1>1, <1>5, <1>6, AloneIs
<1>8. CASE w.pc \in {"status", "closed", "recover"} /\ w.cleaner = NoTask
  BY <1>1, <1>7, <1>8, KeptUnchanged, LeaseLeaving
<1>9. ASSUME w.pc \in {"settle", "publish"}, task[t].out \in {"saved", "finished"},
             w.cleaner = IF Deferred(t) THEN t ELSE NoTask
      PROVE  LeaseInv'
  <2>1. exec[e].lease \in {NoToken, task[t].token}
    BY <1>1, <1>4, <1>9 DEF LeaseOk, Bound, Answers
  <2>2. CASE Deferred(t)
    <3>1. PICK k \in Tasks : k = t
      BY <1>2
    <3>2. task'[k] = x /\ wf'[e].cleaner = k
      BY <1>1, <1>7, <1>9, <2>2, <3>1, TaskAt
    <3>3. Bound(e, k)' /\ task'[k].run = This(e)'
      BY <1>1, <1>3, <2>1, <3>1, <3>2 DEF Bound, This
    <3>4. /\ wf'[e].pc \in {"settle", "publish"} /\ k # NoTask
          /\ exec'[e].state = "absent" => exec'[e].lease = NoToken
      BY <1>1, <1>2, <1>4, <1>7, <1>9, <3>1 DEF LeaseOk
    <3>5. LeaseOk(e)'
      BY <3>2, <3>3, <3>4 DEF LeaseOk
    <3> QED BY <1>7, <3>5, LeaseGoes
  <2>3. CASE ~Deferred(t)
    <3>1. task[t].token = NoToken
      BY <1>1, <1>2, <2>3 DEF TokenInv, TokenOk, Deferred
    <3> QED BY <1>1, <1>7, <1>9, <2>1, <2>3, <3>1, LeaseFree
  <2> QED BY <2>2, <2>3
<1> QED BY <1>5, <1>8, <1>9

LEMMA AwaitCleanupEnds ==
  ASSUME IInv, JInv, NEW e \in Execs, AwaitCleanup(e), wf'[e].pc = "finish"
  PROVE  wf[e].cleaner # NoTask =>
           task[wf[e].cleaner].pc \in {"done", "lost"} /\ task[wf[e].cleaner].out = "ok"
<1>1. SUFFICES ASSUME wf[e].cleaner # NoTask, task[wf[e].cleaner].out # "ok" PROVE FALSE
  BY DEF AwaitCleanup
<1> DEFINE w == [wf[e] EXCEPT !.pc = "recover", !.cleaner = NoTask]
<1>2. wf' = [wf EXCEPT ![e] = w]
  BY <1>1 DEF AwaitCleanup
<1>3. w.pc = "recover"
  BY SlotsTypes DEF WorkflowState
<1> HIDE DEF w
<1>4. wf'[e] = w
  BY Zenon, <1>2, WorkflowAt
<1> QED BY <1>3, <1>4

LEMMA AwaitCleanupL ==
  ASSUME IInv, JInv, TokenInv, LeaseInv, NEW e \in Execs, AwaitCleanup(e)
  PROVE  LeaseInv'
<1>1. /\ wf[e].pc = "settle" /\ UNCHANGED <<sub, exec, committed>>
      /\ task' \in {task, [task EXCEPT ![wf[e].cleaner] = FreeTask]}
  BY AwaitCleanupFacts
<1>2. \A u \in Tasks : SlotGo(e, u)
  BY <1>1, NoneStartedFree
<1>3. PICK w : /\ wf' = [wf EXCEPT ![e] = w] /\ w.cleaner = NoTask
               /\ w.pc \in {"status", "closed", "recover"} \/ w.pc = "finish"
  BY AwaitCleanupFacts DEF Leaving
<1>4. WorkflowAlone(e) /\ wf'[e] = w
  BY Zenon, <1>1, <1>2, <1>3, AloneIs
<1>5. CASE w.pc \in {"status", "closed", "recover"}
  BY <1>1, <1>3, <1>4, <1>5, KeptUnchanged, LeaseLeaving
<1>6. CASE w.pc = "finish"
  <2> DEFINE c == wf[e].cleaner
  <2>1. LeaseOk(e) /\ PastStage(wf[e])
    BY <1>1 DEF LeaseInv, PastStage
  <2>2. ASSUME c # NoTask PROVE exec[e].lease = NoToken
    <3>1. c \in Tasks /\ task[c].pc \in {"done", "lost"} /\ task[c].out = "ok"
      BY <1>4, <1>6, <2>2, SlotsTypes, AwaitCleanupEnds
    <3>2. exec[e].lease \in {NoToken, task[c].token}
      BY <2>1, <2>2, <3>1 DEF LeaseOk, Bound, Answers
    <3>3. task[c].token = NoToken
      BY <3>1 DEF TokenInv, TokenOk
    <3> QED BY <3>2, <3>3
  <2>3. exec'[e].lease = NoToken
    BY <1>1, <2>1, <2>2 DEF LeaseOk
  <2> QED BY <1>3, <1>4, <1>6, <2>3, LeaseFree
<1> QED BY <1>3, <1>5, <1>6

-----------------------------------------------------------------------------
(* An activity goes on with its token. *)
LEMMA LeaseOn ==
  ASSUME IInv, JInv, LeaseInv, NEW t \in Tasks, Busy(t), NEW x, task' = [task EXCEPT ![t] = x],
         x.run = task[t].run, x.token = task[t].token,
         UNCHANGED wf, \A i \in Execs : RowKept(i)
  PROVE  LeaseInv'
<1>1. \A e \in Execs : task[t].run = This(e) /\ exec[e].lease \in {NoToken, task[t].token} =>
        exec'[e].lease \in {NoToken, x.token}
  BY DEF RowKept
<1> QED BY <1>1, LeaseTask

(* An activity ends without its work, or completes. *)
LEMMA LeaseEnds ==
  ASSUME IInv, JInv, LeaseInv, NEW t \in Tasks, Busy(t), NEW out,
         task' = [task EXCEPT ![t] = Ended(t, out)],
         task[t].kind = "complete" \/ out \notin {"saved", "finished", "ok"},
         UNCHANGED wf, \A i \in Execs : RowKept(i)
  PROVE  LeaseInv'
<1> DEFINE x == Ended(t, out)
<1>1. x.pc = "done" /\ (x.out \in {"saved", "finished", "ok"} => x.out = out)
  BY EndedToken
<1>2. task' = [task EXCEPT ![t] = x]
  OBVIOUS
<1> HIDE DEF x
<1> QED BY <1>1, <1>2, LeaseTask

LEMMA ReleaseL ==
  ASSUME IInv, JInv, LeaseInv, NEW t \in Tasks, ReleaseJudgeStage(t)
  PROVE  LeaseInv'
<1> DEFINE x == Ended(t, task[t].out)
<1>1. /\ task[t].pc = "releasing" /\ exec' = Released(task[t].run, task[t].token)
      /\ task' = [task EXCEPT ![t] = x] /\ UNCHANGED <<sub, wf, committed>>
  BY DEF ReleaseJudgeStage
<1>2. Busy(t) /\ task[t].run.exec \in Execs
  BY <1>1, TaskFacts DEF Busy
<1>3. x.pc = "done"
  BY EndedToken
<1> HIDE DEF x
<1>4. \A i \in Execs : RowKept(i)
  BY <1>1, <1>2, QuietReleased, ReleasedLease, KeptQuiet
<1>5. ASSUME NEW e \in Execs, task[t].run = This(e), exec[e].lease \in {NoToken, task[t].token}
      PROVE  exec'[e].lease = NoToken
  BY <1>1, <1>2, <1>5, ThisFields, ReleasedLease
<1> QED BY <1>1, <1>2, <1>3, <1>4, <1>5, LeaseTask

LEMMA EndedDeferred ==
  ASSUME IInv, NEW t \in Tasks, NEW out, task[t].defer, out \in {"saved", "finished"},
         Ended(t, out).out \in {"saved", "finished", "ok"}
  PROVE  Ended(t, out).token = task[t].token
<1>1. Awaited(t)
  BY EndedToken
<1> DEFINE x == [task[t] EXCEPT !.pc = "done", !.index = 0, !.out = out]
<1>2. Ended(t, out) = x
  BY <1>1 DEF Ended
<1>3. x.token = task[t].token
  BY DEF IInv, TypeOK, Task
<1> QED BY <1>2, <1>3

LEMMA SaveL ==
  ASSUME IInv, JInv, LeaseInv, NEW t \in Tasks, NEW compiled \in BOOLEAN, SaveJudgeStage(t, compiled)
  PROVE  LeaseInv'
<1>1. PICK e \in Execs : e = task[t].run.exec
  BY SaveFacts
<1>2. task[t].pc = "save" /\ Busy(t) /\ UNCHANGED wf
  BY SaveFacts DEF Busy
<1>3. CASE UNCHANGED exec /\ \E x : /\ task' = [task EXCEPT ![t] = x]
                                    /\ x.run = task[t].run /\ x.token = task[t].token
  BY <1>2, <1>3, KeptUnchanged, LeaseOn
<1>4. ASSUME NEW out \in {"saved", "finished"}, task' = [task EXCEPT ![t] = Ended(t, out)],
             exec[e].state \in Unfinished, exec'[e].state \in {"finalizing", "queued"},
             exec'[e].epoch = exec[e].epoch,
             exec'[e].lease = IF task[t].defer THEN exec[e].lease ELSE NoToken,
             \A i \in Execs : i # e => exec'[i] = exec[i]
      PROVE  LeaseInv'
  <2> DEFINE x == Ended(t, out)
  <2>1. x.pc = "done" /\ task' = [task EXCEPT ![t] = x]
    BY <1>4, EndedToken
  <2>2. task[t].defer /\ x.out \in {"saved", "finished", "ok"} => x.token = task[t].token
    BY <1>4, EndedDeferred
  <2> HIDE DEF x
  <2>3. \A i \in Execs : RowKept(i)
    BY <1>4 DEF RowKept, Unfinished
  <2>4. \A f \in Execs : task[t].run = This(f) => f = e
    BY <1>1, ThisFields
  <2>5. ASSUME x.out \in {"saved", "finished", "ok"}, NEW f \in Execs, task[t].run = This(f),
               exec[f].lease \in {NoToken, task[t].token}
        PROVE  exec'[f].lease \in {NoToken, x.token}
    BY <1>4, <2>2, <2>4, <2>5
  <2> QED BY <1>2, <2>1, <2>3, <2>5, LeaseTask
<1>5. \/ UNCHANGED exec /\ \E x : /\ task' = [task EXCEPT ![t] = x]
                                  /\ x.run = task[t].run /\ x.token = task[t].token
      \/ /\ exec[e].state \in Unfinished /\ exec'[e].state \in {"finalizing", "queued"}
         /\ exec'[e].epoch = exec[e].epoch
         /\ exec'[e].lease = IF task[t].defer THEN exec[e].lease ELSE NoToken
         /\ \A i \in Execs : i # e => exec'[i] = exec[i]
         /\ \E out \in {"saved", "finished"} : task' = [task EXCEPT ![t] = Ended(t, out)]
  BY <1>1, SaveFacts
<1> QED BY <1>3, <1>4, <1>5

LEMMA CompletionL ==
  ASSUME IInv, JInv, LeaseInv, NEW t \in Tasks,
         CompletePreflight(t) \/ GuardVerdict(t) \/ CompleteJudge(t)
  PROVE  LeaseInv'
<1>1. task[t].kind = "complete" /\ Busy(t) /\ UNCHANGED wf
  BY PreflightFacts, GuardFacts, CommitFacts
<1>2. \A i \in Execs : RowKept(i)
  <2>1. UNCHANGED exec \/ \A i \in Execs : SameRow(i) /\ exec'[i].state = exec[i].state
    BY PreflightFacts, GuardFacts, CommitFacts
  <2> QED BY <2>1 DEF RowKept, SameRow
<1>3. \/ \E out : task' = [task EXCEPT ![t] = Ended(t, out)]
      \/ \E x : task' = [task EXCEPT ![t] = x] /\ x.run = task[t].run /\ x.token = task[t].token
  <2>1. CASE CompletePreflight(t)
    BY Zenon, <2>1, PreflightFacts
  <2>2. CASE GuardVerdict(t)
    BY Zenon, <2>2, GuardFacts
  <2>3. CASE CompleteJudge(t)
    BY Zenon, <2>3, CommitFacts
  <2> QED BY <2>1, <2>2, <2>3
<1>4. CASE \E out : task' = [task EXCEPT ![t] = Ended(t, out)]
  BY <1>1, <1>2, <1>4, LeaseEnds
<1>5. CASE \E x : task' = [task EXCEPT ![t] = x] /\ x.run = task[t].run /\ x.token = task[t].token
  BY <1>1, <1>2, <1>5, LeaseOn
<1> QED BY <1>3, <1>4, <1>5

LEMMA StageStepsL ==
  ASSUME IInv, JInv, LeaseInv, NEW t \in Tasks,
         \/ PastLastStage(t) \/ StartSandbox(t) \/ WorkerCrash(t) \/ StorageFails(t)
         \/ \E b \in BOOLEAN : SandboxRan(t, b) \/ Fails(t, b)
  PROVE  LeaseInv'
<1>1. CASE PastLastStage(t)
  <2>1. /\ task[t].pc = "claimed" /\ SetState(task[t].run, "finalizing") /\ task[t].run.exec \in Execs
        /\ \E x : task' = [task EXCEPT ![t] = x] /\ x.run = task[t].run /\ x.token = task[t].token
        /\ UNCHANGED <<wf, committed>> /\ "finalizing" \in Unfinished
    BY Zenon, <1>1, PastLastStageFacts DEF Unfinished
  <2>2. Busy(t) /\ \A i \in Execs : RowKept(i)
    BY <2>1, KeptSetState DEF Busy
  <2> QED BY <2>1, <2>2, LeaseOn
<1>2. CASE StartSandbox(t)
  <2>1. /\ task[t].pc = "claimed" /\ UNCHANGED <<exec, wf>>
        /\ \E x : task' = [task EXCEPT ![t] = x] /\ x.run = task[t].run /\ x.token = task[t].token
    BY Zenon, <1>2, StartSandboxFacts
  <2> QED BY <2>1, KeptUnchanged, LeaseOn DEF Busy
<1>3. CASE WorkerCrash(t)
  <2>1. PICK x : /\ task' = [task EXCEPT ![t] = x] /\ x.pc \in {"done", "lost"} /\ x.out = "none"
                 /\ Busy(t) /\ UNCHANGED <<exec, wf>>
    BY Zenon, <1>3, CrashFacts
  <2> QED BY <2>1, KeptUnchanged, LeaseTask
<1>4. CASE StorageFails(t)
  <2> DEFINE x == [task[t] EXCEPT !.pc = "catch"]
  <2>1. /\ task[t].pc \in {"save", "preflight", "guard", "commit"} /\ UNCHANGED <<exec, wf>>
        /\ task' \in {[task EXCEPT ![t] = x], [task EXCEPT ![t] = Ended(t, "failed")]}
    BY Zenon, <1>4 DEF StorageFails
  <2>2. x.run = task[t].run /\ x.token = task[t].token
    BY TaskFacts, MovedFields
  <2> HIDE DEF x
  <2>3. Busy(t)
    BY <2>1 DEF Busy
  <2> QED BY <2>1, <2>2, <2>3, KeptUnchanged, LeaseOn, LeaseEnds
<1>5. ASSUME NEW b \in BOOLEAN, SandboxRan(t, b) PROVE LeaseInv'
  <2>1. /\ task[t].pc = "executing" /\ UNCHANGED <<exec, wf>>
        /\ \E x : task' = [task EXCEPT ![t] = x] /\ x.run = task[t].run /\ x.token = task[t].token
    BY Zenon, <1>5, SandboxRanFacts
  <2> QED BY <2>1, KeptUnchanged, LeaseOn DEF Busy
<1>6. ASSUME NEW b \in BOOLEAN, Fails(t, b) PROVE LeaseInv'
  <2>1. /\ task[t].pc \in {"claimed", "executing", "catch", "cleaning"} /\ UNCHANGED <<exec, wf>>
        /\ \/ task' = [task EXCEPT ![t] = Ended(t, "failed")]
           \/ \E x : task' = [task EXCEPT ![t] = x] /\ x.run = task[t].run /\ x.token = task[t].token
    BY Zenon, <1>6, FailsFacts
  <2>2. Busy(t) /\ \A i \in Execs : RowKept(i)
    BY <2>1, KeptUnchanged DEF Busy
  <2>3. CASE task' = [task EXCEPT ![t] = Ended(t, "failed")]
    BY <2>1, <2>2, <2>3, LeaseEnds
  <2>4. ASSUME NEW x, task' = [task EXCEPT ![t] = x], x.run = task[t].run, x.token = task[t].token
        PROVE  LeaseInv'
    BY <2>1, <2>2, <2>4, LeaseOn
  <2> QED BY <2>1, <2>3, <2>4
<1> QED BY <1>1, <1>2, <1>3, <1>4, <1>5, <1>6

(* Who claims a lease is awaited, or its workflow is closed: its claim is not late. *)
LEMMA ClaimL ==
  ASSUME IInv, JInv, FinalInv, LeaseInv, NEW t \in Tasks, ClaimJudgeLease(t)
  PROVE  LeaseInv' /\ \A i \in Execs : exec[i].lease # NoToken => exec'[i].lease = exec[i].lease
<1>1. PICK e \in Execs : e = task[t].run.exec
  BY Zenon, ClaimFacts
<1>2. /\ task[t].kind = "stage" /\ task[t].pc = "unstarted" /\ Busy(t)
      /\ UNCHANGED wf /\ task[t] \in Task
  BY Zenon, ClaimFacts, TaskFacts DEF Busy
<1>3. ASSUME UNCHANGED exec, NEW out \in {"obsolete", "cleanup"},
             task' = [task EXCEPT ![t] = Ended(t, out)]
      PROVE  LeaseInv'
  BY <1>2, <1>3, KeptUnchanged, LeaseEnds
<1>4. ASSUME exec[e].epoch = task[t].run.epoch, exec[e].lease = NoToken,
             NEW k \in Tokens, exec'[e].state = "running", exec'[e].lease = k,
             exec'[e].epoch = exec[e].epoch, \A i \in Execs : i # e => exec'[i] = exec[i],
             task' = [task EXCEPT ![t] = [@ EXCEPT !.pc = "claimed", !.token = k]]
      PROVE  LeaseInv'
  <2> DEFINE x == [task[t] EXCEPT !.pc = "claimed", !.token = k]
  <2>1. x.run = task[t].run /\ x.token = k /\ task' = [task EXCEPT ![t] = x]
    BY <1>4, TaskFacts, MovedTokenFields
  <2> HIDE DEF x
  <2>2. task'[t] = x /\ \A u \in Tasks : u # t => task'[u] = task[u]
    BY Zenon, <2>1, TaskAt
  <2>3. task[t].run = This(e)
    BY <1>1, <1>2, <1>4 DEF This, Run, Task
  <2>4. wf[e].task = t \/ wf[e].pc = "closed"
    BY <1>2, <2>3 DEF FinalInv, FinalTask, Unstarted
  <2>5. wf[e].pc \in {"await", "closed"} /\ wf[e].cleaner = NoTask
    BY <1>2, <2>4, ParameterAssumption DEF JInv, SlotInv, SlotOk
  <2>6. wf[e].pc = "await" => wf[e].task = t
    BY <2>4
  <2>7. LeaseOk(e)'
    BY <1>2, <1>4, <2>1, <2>2, <2>5, <2>6 DEF LeaseOk, Bound, PastStage
  <2>8. ASSUME NEW f \in Execs, f # e PROVE LeaseOk(f)'
    <3>1. LeaseOk(f) /\ SlotOk(f) /\ exec'[f] = exec[f] /\ This(f)' = This(f)
      BY <1>4, <2>8 DEF LeaseInv, JInv, SlotInv, This
    <3>2. This(f) # This(e)
      BY <2>8, ThisFields
    <3>3. wf[f].cleaner # NoTask => task'[wf[f].cleaner] = task[wf[f].cleaner]
      BY <1>2, <2>2, <3>1, SlotsTypes DEF SlotOk
    <3>4. wf[f].pc = "await" => task'[wf[f].task] = task[wf[f].task]
      BY <1>2, <2>2, <2>3, <3>1, <3>2, SlotsTypes DEF SlotOk
    <3> QED BY <1>2, <3>1, <3>3, <3>4 DEF LeaseOk, Bound, Answers, Busy, PastStage
  <2> QED BY <2>7, <2>8 DEF LeaseInv
<1>5. \/ UNCHANGED exec /\ \E out \in {"obsolete", "cleanup"} : task' = [task EXCEPT ![t] = Ended(t, out)]
      \/ \E k \in Tokens :
           /\ exec[e].epoch = task[t].run.epoch /\ exec[e].lease = NoToken
           /\ exec'[e].state = "running" /\ exec'[e].lease = k
           /\ exec'[e].epoch = exec[e].epoch /\ \A i \in Execs : i # e => exec'[i] = exec[i]
           /\ task' = [task EXCEPT ![t] = [@ EXCEPT !.pc = "claimed", !.token = k]]
  BY Zenon, <1>1, ClaimFacts
<1>6. LeaseInv'
  BY Zenon, <1>3, <1>4, <1>5
<1>7. \A i \in Execs : exec[i].lease # NoToken => exec'[i].lease = exec[i].lease
  BY <1>5
<1> QED BY <1>6, <1>7

-----------------------------------------------------------------------------
LEMMA RowStepsL ==
  ASSUME IInv, LeaseInv, NEW e \in Execs,
         \/ CleanupTerminal(e) \/ LeaseLapses(e) \/ Redispatch(e) \/ CancelRejudge(e)
         \/ \E t \in Tasks : HeartbeatJudgeStage(t)
  PROVE  LeaseInv'
<1>1. CASE CleanupTerminal(e)
  <2>1. \A i \in Execs : RowKept(i)
    BY <1>1, CleanupTerminalFacts DEF RowKept
  <2> QED BY <1>1, <2>1, CleanupTerminalFacts, LeaseRows
<1>2. CASE LeaseLapses(e)
  <2>1. \A i \in Execs : RowKept(i)
    BY <1>2, FreshFacts DEF LeaseLapses, RowKept
  <2> QED BY <1>2, <2>1, LeaseRows DEF LeaseLapses
<1>3. CASE Redispatch(e)
  BY <1>3, KeptUnchanged, LeaseRows DEF Redispatch
<1>4. CASE CancelRejudge(e)
  <2>1. \A i \in Execs : RowKept(i)
    BY <1>4, CancelFacts DEF RowKept, SameRow
  <2> QED BY <1>4, <2>1, CancelFacts, LeaseRows
<1>5. ASSUME NEW t \in Tasks, HeartbeatJudgeStage(t) PROVE LeaseInv'
  <2>1. \A i \in Execs : RowKept(i)
    BY <1>5, FreshFacts DEF HeartbeatJudgeStage, RowKept
  <2> QED BY <1>5, <2>1, LeaseRows DEF HeartbeatJudgeStage
<1> QED BY <1>1, <1>2, <1>3, <1>4, <1>5

LEMMA CreateL ==
  ASSUME IInv, JInv, LeaseInv, NEW rejudge \in BOOLEAN, CreateJudgeExecution(rejudge)
  PROVE  LeaseInv' /\ \A i \in Execs : exec[i].lease # NoToken => exec'[i].lease = exec[i].lease
<1>1. PICK n \in Execs : n = sub.gen + 1
  BY CreateFacts
<1>2. /\ exec'[n].state = "queued" /\ exec'[n].lease = NoToken /\ UNCHANGED <<wf, task>>
      /\ \A i \in Execs : i # n => exec'[i] = Superseded(exec[i])
  BY <1>1, CreateFacts
<1>3. \A i \in Execs : i # n => RowKept(i) /\ exec'[i].lease = exec[i].lease
  BY <1>2, SupersededFields DEF IInv, TypeOK, RowKept
<1>4. exec[n].state = "absent"
  <2>1. sub.gen \in Nat /\ n > sub.gen
    BY <1>1, ParameterAssumption DEF IInv, TypeOK, SubmissionRow
  <2> QED BY <2>1 DEF JInv, OwnerInv
<1>5. exec[n].lease = NoToken
  BY <1>4 DEF LeaseInv, LeaseOk
<1>6. wf[n].pc = "none" /\ wf[n].cleaner = NoTask
  <2>1. wf[n] = NoWorkflow
    BY <1>4 DEF IInv, FenceInv, ActivitiesHaveRows, JInv, SlotInv, SlotOk
  <2> QED BY <2>1 DEF NoWorkflow
<1>7. LeaseOk(n)'
  BY <1>2, <1>6 DEF LeaseOk, PastStage
<1>8. LeaseInv'
  BY <1>2, <1>3, <1>7, LeaseRow DEF LeaseInv
<1> QED BY <1>3, <1>5, <1>8

LEMMA NewEpochL ==
  ASSUME IInv, LeaseInv, NEW e \in Execs, NewEpoch(e)
  PROVE  LeaseInv' /\ \A i \in Execs : exec'[i].lease = exec[i].lease
<1>1. /\ wf' = [wf EXCEPT ![e] = NoWorkflow] /\ UNCHANGED task
      /\ exec'[e].lease = exec[e].lease /\ exec'[e].state # "absent"
      /\ \A i \in Execs : i # e => exec'[i] = exec[i]
  BY NewEpochFacts
<1>2. wf'[e] = NoWorkflow /\ \A f \in Execs : f # e => wf'[f] = wf[f]
  BY Zenon, <1>1, WorkflowAt
<1>3. NoWorkflow.pc = "none" /\ NoWorkflow.cleaner = NoTask
  BY DEF NoWorkflow
<1>4. LeaseOk(e)'
  BY <1>1, <1>2, <1>3 DEF LeaseOk, PastStage
<1>5. ASSUME NEW f \in Execs, f # e PROVE LeaseOk(f)'
  <2>1. LeaseOk(f) /\ exec'[f] = exec[f] /\ wf'[f] = wf[f] /\ This(f)' = This(f)
    BY <1>1, <1>2, <1>5 DEF LeaseInv, This
  <2> QED BY <1>1, <2>1 DEF LeaseOk, Bound, Answers, Busy, PastStage
<1>6. LeaseInv'
  BY <1>4, <1>5 DEF LeaseInv
<1> QED BY <1>1, <1>6

LEMMA InitL == Init => TokenInv /\ LeaseInv
<1> SUFFICES ASSUME Init PROVE TokenInv /\ LeaseInv
  OBVIOUS
<1>1. \A t \in Tasks : task[t].pc = "done" /\ task[t].token = NoToken
  BY DEF Init, FreeTask
<1>2. \A e \in Execs : /\ exec[e].lease = NoToken
                       /\ wf[e].pc = "none" /\ wf[e].cleaner = NoTask
  BY DEF Init, NewExecution, NoWorkflow
<1>3. TokenInv
  BY <1>1 DEF TokenInv, TokenOk
<1>4. LeaseInv
  BY <1>2 DEF LeaseInv, LeaseOk, PastStage
<1> QED BY <1>3, <1>4

LEMMA WorkflowStepsL ==
  ASSUME IInv, JInv, TokenInv, LeaseInv, NEW e \in Execs, WorkflowStep(e) \/ WorkflowFault(e)
  PROVE  LeaseInv'
<1>1. CASE WorkflowStep(e)
  BY Zenon, <1>1, ReadStatusL, ReconcileCheckL, ReconcileStageL, SetBlockedL, StageAnsweredL,
     CompleteAnsweredL, ApplyEffectsL, AwaitCleanupL, FinishL, RecoverL, QueueStageL, StartCompleteL
  DEF WorkflowStep
<1>2. CASE WorkflowFault(e)
  BY Zenon, <1>2, StageTimedOutL, CompleteTimedOutL, ActivityFailsL, ReconcileStageL, FinishL, RecoverL
  DEF WorkflowFault
<1> QED BY <1>1, <1>2

LEMMA TaskStepsL ==
  ASSUME IInv, JInv, FinalInv, LeaseInv, NEW t \in Tasks, TaskStep(t) \/ TaskFault(t)
  PROVE  LeaseInv'
<1>1. CASE TaskStep(t)
  BY Zenon, <1>1, ClaimL, StageStepsL, ReleaseL, CompletionL, SaveL DEF TaskStep, Fails
<1>2. CASE TaskFault(t)
  BY Zenon, <1>2, StageStepsL DEF TaskFault, Fails
<1> QED BY <1>1, <1>2

LEMMA InductiveL ==
  IInv /\ JInv /\ FinalInv /\ TokenInv /\ LeaseInv /\ [Next]_vars => LeaseInv'
<1> SUFFICES ASSUME IInv, JInv, FinalInv, TokenInv, LeaseInv, [Next]_vars PROVE LeaseInv'
  OBVIOUS
<1>1. CASE Accept \/ Rejudge
  BY Zenon, <1>1, CreateL DEF Accept, Rejudge
<1>2. ASSUME NEW e \in Execs,
             \/ CancelRejudge(e) \/ Dispatch(e, TRUE) \/ Dispatch(e, FALSE)
             \/ Redispatch(e) \/ TerminateStalled(e) \/ NewEpoch(e)
             \/ CleanupTerminal(e) \/ LeaseLapses(e)
      PROVE  LeaseInv'
  BY Zenon, <1>2, RowStepsL, DispatchL, TerminateL, NewEpochL
<1>3. CASE UNCHANGED vars
  BY <1>3, KeptUnchanged, LeaseRows DEF vars
<1>4. ASSUME NEW t \in Tasks, HeartbeatJudgeStage(t) PROVE LeaseInv'
  <2>1. 1 \in Execs
    BY ParameterAssumption DEF Execs
  <2> QED BY <1>4, <2>1, RowStepsL
<1>5. ASSUME NEW k \in Tokens, ResourcesExpire(k) PROVE LeaseInv'
  BY <1>5, KeptUnchanged, LeaseRows DEF ResourcesExpire
<1> QED BY Zenon, <1>1, <1>2, <1>3, <1>4, <1>5, WorkflowStepsL, TaskStepsL DEF Next

-----------------------------------------------------------------------------
(* A lease that leaves its row leaves no sandbox behind. *)
LeaseIsOutlived ==
  \A e \in Execs : exec[e].lease # NoToken /\ exec'[e].lease # exec[e].lease => exec[e].lease \notin live'

LEMMA WorkflowOutlived ==
  ASSUME IInv, JInv, TokenInv, LeaseInv, NEW e \in Execs, WorkflowStep(e) \/ WorkflowFault(e)
  PROVE  LeaseIsOutlived
<1>1. ASSUME NEW safe \in BOOLEAN, ReconcileStage(e, safe) PROVE LeaseIsOutlived
  BY <1>1, ReconcileStageL DEF LeaseIsOutlived
<1>2. CASE SetBlocked(e)
  <2>1. /\ SetState(This(e), "blocked") /\ "blocked" \in Unfinished /\ UNCHANGED committed
    BY <1>2 DEF SetBlocked, Unfinished
  <2> QED BY <2>1, ThisFields, KeptSetState DEF LeaseIsOutlived
<1>3. ASSUME NEW b \in BOOLEAN, FinishJudgeExecution(e, b) \/ Recover(e, b) PROVE LeaseIsOutlived
  BY <1>3, FinishL, RecoverL DEF LeaseIsOutlived
<1>4. ASSUME NEW t \in Tasks, QueueStage(e, t) \/ StartComplete(e, t) PROVE LeaseIsOutlived
  BY <1>4, QueueStageL, StartCompleteFacts DEF LeaseIsOutlived
<1>5. CASE \/ ReadStatus(e) \/ ReconcileCheck(e) \/ StageAnswered(e) \/ CompleteAnswered(e)
           \/ ApplyEffects(e) \/ AwaitCleanup(e) \/ StageTimedOut(e) \/ CompleteTimedOut(e)
           \/ ActivityFails(e)
  <2>1. UNCHANGED exec
    BY <1>5 DEF ReadStatus, ReconcileCheck, StageAnswered, CompleteAnswered, ApplyEffects,
       AwaitCleanup, StageTimedOut, CompleteTimedOut, ActivityFails
  <2> QED BY <2>1 DEF LeaseIsOutlived
<1> QED BY Zenon, <1>1, <1>2, <1>3, <1>4, <1>5 DEF WorkflowStep, WorkflowFault

LEMMA TaskOutlived ==
  ASSUME IInv, JInv, FinalInv, TokenInv, LeaseInv, NEW t \in Tasks, TaskStep(t) \/ TaskFault(t)
  PROVE  LeaseIsOutlived
<1>1. CASE ClaimJudgeLease(t)
  BY <1>1, ClaimL DEF LeaseIsOutlived
<1>2. CASE PastLastStage(t)
  BY <1>2, PastLastStageFacts, SetStateFacts DEF LeaseIsOutlived, SameRow, Unfinished
<1>3. CASE ReleaseJudgeStage(t)
  <2>1. /\ task[t].pc = "releasing" /\ exec' = Released(task[t].run, task[t].token)
        /\ UNCHANGED live
    BY <1>3 DEF ReleaseJudgeStage
  <2>2. task[t].token \notin live /\ task[t].run.exec \in Execs
    BY <2>1, TaskFacts DEF TokenInv, TokenOk, Busy
  <2> QED BY <2>1, <2>2, ReleasedLease DEF LeaseIsOutlived
<1>4. ASSUME NEW b \in BOOLEAN, SaveJudgeStage(t, b) PROVE LeaseIsOutlived
  <2>1. PICK e \in Execs : e = task[t].run.exec
    BY <1>4, SaveFacts
  <2>2. task[t].pc = "save" /\ UNCHANGED live
    BY <1>4, SaveFacts
  <2>3. \/ UNCHANGED exec
        \/ /\ exec[e].lease = task[t].token /\ \A i \in Execs : i # e => exec'[i] = exec[i]
           /\ exec'[e].lease = IF task[t].defer THEN exec[e].lease ELSE NoToken
    BY <1>4, <2>1, SaveFacts DEF HoldsLease
  <2>4. ~task[t].defer => task[t].token \notin live
    BY <2>2 DEF TokenInv, TokenOk
  <2> QED BY <2>2, <2>3, <2>4 DEF LeaseIsOutlived
<1>5. CASE CompletePreflight(t) \/ GuardVerdict(t) \/ CompleteJudge(t)
  <2>1. UNCHANGED exec \/ \A i \in Execs : SameRow(i)
    BY <1>5, PreflightFacts, GuardFacts, CommitFacts
  <2> QED BY <2>1 DEF LeaseIsOutlived, SameRow
<1>6. CASE \/ StartSandbox(t) \/ WorkerCrash(t) \/ StorageFails(t)
           \/ \E b \in BOOLEAN : SandboxRan(t, b) \/ Fails(t, b)
  <2>1. UNCHANGED exec
    BY <1>6 DEF StartSandbox, WorkerCrash, StorageFails, SandboxRan, Fails, StageFails,
       CatchCleanup, CleanupStage
  <2> QED BY <2>1 DEF LeaseIsOutlived
<1> QED BY Zenon, <1>1, <1>2, <1>3, <1>4, <1>5, <1>6 DEF TaskStep, TaskFault, Fails

LEMMA NextOutlived ==
  IInv /\ JInv /\ FinalInv /\ TokenInv /\ LeaseInv /\ [Next]_vars => LeaseIsOutlived
<1> SUFFICES ASSUME IInv, JInv, FinalInv, TokenInv, LeaseInv, [Next]_vars PROVE LeaseIsOutlived
  OBVIOUS
<1>1. CASE Accept \/ Rejudge
  <2>1. \A i \in Execs : exec[i].lease # NoToken => exec'[i].lease = exec[i].lease
    BY Zenon, <1>1, CreateL DEF Accept, Rejudge
  <2> QED BY <2>1 DEF LeaseIsOutlived
<1>2. ASSUME NEW e \in Execs, CleanupTerminal(e) PROVE LeaseIsOutlived
  BY <1>2, CleanupTerminalFacts DEF LeaseIsOutlived
<1>3. ASSUME NEW e \in Execs, NewEpoch(e) \/ CancelRejudge(e) \/ LeaseLapses(e) PROVE LeaseIsOutlived
  <2>1. \A i \in Execs : exec'[i].lease = exec[i].lease
    <3>1. CASE LeaseLapses(e)
      BY <3>1, FreshFacts DEF LeaseLapses
    <3> QED BY <1>3, <3>1, NewEpochL, CancelFacts DEF SameRow
  <2> QED BY <2>1 DEF LeaseIsOutlived
<1>4. ASSUME NEW t \in Tasks, HeartbeatJudgeStage(t) PROVE LeaseIsOutlived
  BY <1>4, FreshFacts DEF HeartbeatJudgeStage, LeaseIsOutlived
<1>5. ASSUME UNCHANGED exec PROVE LeaseIsOutlived
  BY <1>5 DEF LeaseIsOutlived
<1>6. ASSUME NEW e \in Execs,
             \/ Dispatch(e, TRUE) \/ Dispatch(e, FALSE) \/ Redispatch(e) \/ TerminateStalled(e)
      PROVE  LeaseIsOutlived
  BY <1>5, <1>6 DEF Dispatch, Redispatch, TerminateStalled
<1>7. ASSUME NEW k \in Tokens, ResourcesExpire(k) PROVE LeaseIsOutlived
  BY <1>5, <1>7 DEF ResourcesExpire
<1>8. CASE UNCHANGED vars
  BY <1>5, <1>8 DEF vars
<1> QED BY Zenon, <1>1, <1>2, <1>3, <1>4, <1>6, <1>7, <1>8, WorkflowOutlived, TaskOutlived DEF Next

(* A lease leaves the row only when the sandbox resources of its token are   *)
(* gone: an activity gives it up after its sandbox was removed, the workflow *)
(* and the sweeper after they removed it themselves, and the completion of   *)
(* the execution finds none.  Only a late claim takes one behind the back of *)
(* the workflow, which then completes the execution over it.                 *)
THEOREM LeaseIsLast ==
  ASSUME ~LateClaims PROVE Spec => LeaseOutlivesSandbox
<1>1. IInv /\ JInv /\ FinalInv /\ TokenInv /\ LeaseInv /\ [Next]_vars =>
        FinalInv' /\ TokenInv' /\ LeaseInv' /\ LeaseIsOutlived
  BY InductiveF, InductiveT, InductiveL, NextOutlived
<1>2. LeaseOutlivesSandbox <=> [][LeaseIsOutlived]_vars
  BY PTL DEF LeaseOutlivesSandbox, LeaseIsOutlived
<1> QED BY <1>1, <1>2, InitF, InitL, InvarianceJ, PTL DEF Spec

=============================================================================
