------------------------ MODULE SubmissionAcceptance ------------------------
(***************************************************************************)
(* How a submission is accepted: one student, one problem                  *)
(* (packages/application/src/submission/creation.ts), and the sweep of     *)
(* submissions nobody publishes any more (sweep.ts).                       *)
(*                                                                         *)
(* A request fixes its time when it arrives.  A first transaction checks   *)
(* the exam session, the cooldown and the daily limit and inserts the      *)
(* submission; the sources are uploaded; a second transaction publishes    *)
(* it.  The transactions read committed data: an advisory lock is what     *)
(* makes a check and its insert one step.  Judging is reduced to what it   *)
(* shows of the submission; JudgeExecution has its own module.             *)
(***************************************************************************)
EXTENDS Integers, FiniteSets

CONSTANTS
  Requests,    \* bound: requests of the student for the problem
  Contexts,    \* practice, contests, exams, assignments
  ExamContext, \* the context that is an exam
  Cooldown,    \* of each context, 0 if there is none
  DailyLimit,  \* maxAttemptsPerDay of each context, 0 if there is none
  Day, Reset,  \* attempts are counted from Reset on, every Day
  EndsAt,      \* the end of the exam
  Timeout,     \* SUBMISSION_PENDING_TIMEOUT_MINUTES
  MaxTime      \* bound: no request is served after this time

ASSUME RequestAssumption == IsFiniteSet(Requests)

ASSUME ContextAssumption ==
  /\ ExamContext \in Contexts
  /\ Cooldown \in [Contexts -> Nat]
  /\ DailyLimit \in [Contexts -> Nat]

ASSUME TimeAssumption ==
  /\ Day \in Nat \ {0} /\ Reset \in 0 .. Day - 1
  /\ EndsAt \in Nat /\ Timeout \in Nat \ {0} /\ MaxTime \in Nat

VARIABLES
  clock,
  req,      \* the requests
  row,      \* the Submission rows; updatedAt is kept while the sweep may ask for it
  exec,     \* the JudgeExecution of each submission
  session,  \* the student's ActiveExamSession
  sweep     \* the sweep that is running

vars == <<clock, req, row, exec, session, sweep>>

Horizon == MaxTime + Timeout + 1

NoRequest == [pc |-> "idle", context |-> ExamContext, received |-> 0]
InProgress == {"pending_upload", "queued"}  \* queued, compiling and running
NoRow == [status |-> "none", updated |-> 0, erred |-> FALSE, swept |-> FALSE]
NoSweep == [cutoff |-> 0, ids |-> {}, killing |-> {}]

(* Every variable stays in its type. *)
TypeOK ==
  /\ clock \in 0 .. Horizon
  /\ req \in [Requests ->
       [pc : {"idle", "arrived", "admitted", "counted", "inserted", "failing",
              "over"},
        context : Contexts, received : 0 .. MaxTime]]
  /\ row \in [Requests ->
       [status : {"none", "system_error", "judged"} \cup InProgress, updated : 0 .. Horizon,
        erred : BOOLEAN, swept : BOOLEAN]]
  /\ exec \in [Requests -> {"none", "open", "completed"}]
  /\ session \in {"active", "ended"}
  /\ sweep \in [cutoff : Int, ids : SUBSET Requests, killing : SUBSET Requests]
  /\ sweep.killing \subseteq sweep.ids

Init ==
  /\ clock = 0
  /\ req = [r \in Requests |-> NoRequest]
  /\ row = [r \in Requests |-> NoRow]
  /\ exec = [r \in Requests |-> "none"]
  /\ session = "active"
  /\ sweep = NoSweep

Exists(r) == row[r].status # "none"
Serving == clock <= MaxTime
Goes(r, pc) == req' = [req EXCEPT ![r].pc = pc]

(* A request that is over is forgotten, unless it left a submission. *)
Ends(r) ==
  IF Exists(r) THEN Goes(r, "over")
  ELSE req' = [req EXCEPT ![r] = [NoRequest EXCEPT !.pc = "over"]]

-----------------------------------------------------------------------------
(* The first transaction. *)

(* receivedAt is fixed before the first transaction, and becomes createdAt.  *)
(* Only an exam has something to ask before the limits.                      *)
Arrive(r, c) ==
  /\ Serving
  /\ req[r].pc = "idle"
  /\ req' = [req EXCEPT ![r] = [context |-> c, received |-> clock,
            pc |-> IF c = ExamContext THEN "arrived" ELSE "admitted"]]
  /\ UNCHANGED <<clock, row, exec, session, sweep>>

\* Mutant: the exam's row and the student's sessions are not locked.
NeverHeld == FALSE

(* pg_advisory_xact_lock(exam-session:user) and the exam's row FOR SHARE. *)
ExamHeld ==
  \E r \in Requests : req[r].context = ExamContext /\ req[r].pc \in {"admitted", "counted"}

Admitted(r) == session = "active" /\ req[r].received < EndsAt

Admit(r) ==
  /\ Serving
  /\ req[r].pc = "arrived"
  /\ ~ExamHeld
  /\ IF Admitted(r) THEN Goes(r, "admitted") ELSE Ends(r)
  /\ UNCHANGED <<clock, row, exec, session, sweep>>

(* The latest start of a day that is not after t: attemptWindowStart. *)
WindowStart(t) == t - ((t + Day - Reset) % Day)

(* The submissions the limits count: not the ones that show a system error. *)
Counted(c) ==
  {r \in Requests : Exists(r) /\ req[r].context = c /\ row[r].status # "system_error"}

\* Mutant: a submission received later does not count for an earlier one.
EarlierCoolsDown(r) ==
  LET c == req[r].context IN
  \E q \in Counted(c) :
    req[q].received \in req[r].received - Cooldown[c] .. req[r].received

(* enforceSubmitCooldown: nothing is submitted since the cutoff. *)
CoolingDown(r) ==
  LET c == req[r].context IN
  \E q \in Counted(c) : req[q].received >= req[r].received - Cooldown[c]

LimitReached(r) ==
  LET c == req[r].context
      start == WindowStart(req[r].received)
  IN Cardinality({q \in Counted(c) : req[q].received >= start}) >= DailyLimit[c]

\* Mutant: the limits are checked without their locks.
NoLocks(r) == TRUE

(* The advisory locks of the cooldown (context) and of the daily limit       *)
(* (context and window): no transaction holds the ones r asks for.           *)
LocksFree(r) ==
  LET c == req[r].context IN
  \A q \in Requests :
    req[q].pc = "counted" /\ req[q].context = c =>
      /\ Cooldown[c] = 0
      /\ \/ DailyLimit[c] = 0
         \/ WindowStart(req[q].received) # WindowStart(req[r].received)

Count(r) ==
  LET c == req[r].context IN
  /\ Serving
  /\ req[r].pc = "admitted"
  /\ LocksFree(r)
  /\ IF \/ Cooldown[c] > 0 /\ CoolingDown(r)
        \/ DailyLimit[c] > 0 /\ LimitReached(r)
     THEN Ends(r) ELSE Goes(r, "counted")
  /\ UNCHANGED <<clock, row, exec, session, sweep>>

Insert(r) ==
  /\ Serving
  /\ req[r].pc = "counted"
  /\ Goes(r, "inserted")
  /\ row' = [row EXCEPT ![r] = [NoRow EXCEPT !.status = "pending_upload", !.updated = clock]]
  /\ UNCHANGED <<clock, exec, session, sweep>>

-----------------------------------------------------------------------------
(* Publication, after the sources are uploaded and the snapshot is prepared. *)

StillPending(r) == row[r].status = "pending_upload"

(* publishPendingUpload and createJudgeExecution in one transaction.  The    *)
(* request may not learn that it was committed.                              *)
Publish(r) ==
  /\ Serving
  /\ req[r].pc = "inserted"
  /\ StillPending(r)
  /\ \E pc \in {"over", "failing"} : Goes(r, pc)
  /\ row' = [row EXCEPT ![r].status = "queued", ![r].updated = clock]
  /\ exec' = [exec EXCEPT ![r] = "open"]
  /\ UNCHANGED <<clock, session, sweep>>

(* The upload fails, the submission was swept, the problem changed, or the   *)
(* database is away.                                                         *)
PublishFails(r) ==
  /\ Serving
  /\ req[r].pc = "inserted"
  /\ Goes(r, "failing")
  /\ UNCHANGED <<clock, row, exec, session, sweep>>

\* Mutant: the error is written over whatever the submission shows.
AlwaysInProgress(r) == TRUE

StillInProgress(r) == row[r].status \in InProgress

(* completeIfInProgress. *)
GiveUp(r) ==
  /\ Serving
  /\ req[r].pc = "failing"
  /\ Goes(r, "over")
  /\ row' = IF StillInProgress(r)
            THEN [row EXCEPT ![r].status = "system_error", ![r].erred = TRUE,
                             ![r].updated = IF exec[r] = "none" THEN 0 ELSE clock]
            ELSE row
  /\ UNCHANGED <<clock, exec, session, sweep>>

(* The process or its connection dies: a transaction is rolled back, and a   *)
(* submission that was inserted is left behind.                              *)
Die(r) ==
  /\ req[r].pc \notin {"idle", "over"}
  /\ Ends(r)
  /\ UNCHANGED <<clock, row, exec, session, sweep>>

-----------------------------------------------------------------------------
(* Judging, as far as the submission shows it: an execution that recovers or *)
(* is blocked shows a system error, and later another status again.          *)

Shows(r) ==
  /\ exec[r] = "open"
  /\ \E status \in {"queued", "system_error"} \ {row[r].status} :
       row' = [row EXCEPT ![r].status = status, ![r].erred = row[r].erred \/ status = "system_error"]
  /\ UNCHANGED <<clock, req, exec, session, sweep>>

Judge(r) ==
  /\ exec[r] = "open"
  /\ exec' = [exec EXCEPT ![r] = "completed"]
  /\ row' = [row EXCEPT ![r].status = "judged", ![r].updated = 0]
  /\ UNCHANGED <<clock, req, session, sweep>>

-----------------------------------------------------------------------------
(* The exam session, as far as the locks close it: see ExamSession. *)

(* The student hands in, holding the advisory lock (endSession), or the time  *)
(* is up, and the exam's row is locked FOR UPDATE (autoCloseForExam).         *)
SessionEnds ==
  /\ ~ExamHeld
  /\ session = "active"
  /\ session' = "ended"
  /\ UNCHANGED <<clock, req, row, exec, sweep>>

-----------------------------------------------------------------------------
(* sweepStaleSubmissions. *)

\* Mutant: only published submissions are looked for.
QueuedOnly == {"queued"}

StaleStatuses == InProgress

SweepReads ==
  LET cutoff == clock - Timeout
      stale == {r \in Requests : row[r].status \in StaleStatuses /\ row[r].updated < cutoff}
  IN
  /\ sweep = NoSweep
  /\ stale # {}
  /\ sweep' = [cutoff |-> cutoff, ids |-> stale, killing |-> {}]
  /\ UNCHANGED <<clock, req, row, exec, session>>

(* After its last submission a sweep is over; the next starts from nothing. *)
Without(r) ==
  IF sweep.ids = {r} THEN NoSweep
  ELSE [sweep EXCEPT !.ids = sweep.ids \ {r}, !.killing = {}]

(* A submission that has an execution is left to the judge's recovery. *)
SweepLooks(r) ==
  /\ r \in sweep.ids /\ sweep.killing = {}
  /\ sweep' = IF exec[r] = "none" THEN [sweep EXCEPT !.killing = {r}] ELSE Without(r)
  /\ UNCHANGED <<clock, req, row, exec, session>>

\* Mutant: the update does not ask again how old the submission is.
StillUnfinished(r) == row[r].status \in InProgress

StillStale(r) == row[r].status \in InProgress /\ row[r].updated < sweep.cutoff

SweepKills(r) ==
  /\ r \in sweep.killing
  /\ row' = IF StillStale(r)
            THEN [row EXCEPT ![r] = [status |-> "system_error", erred |-> TRUE,
                                     swept |-> TRUE, updated |-> 0]]
            ELSE row
  /\ sweep' = Without(r)
  /\ UNCHANGED <<clock, req, exec, session>>

(* One submission fails, the others are swept on; or the worker dies. *)
SweepFails(r) ==
  /\ r \in sweep.ids
  /\ sweep.killing \subseteq {r}
  /\ sweep' \in {Without(r), NoSweep}
  /\ UNCHANGED <<clock, req, row, exec, session>>

Tick ==
  /\ clock < Horizon
  /\ clock' = clock + 1
  /\ UNCHANGED <<req, row, exec, session, sweep>>

-----------------------------------------------------------------------------

Request(r) ==
  \/ \E c \in Contexts : Arrive(r, c)
  \/ Admit(r) \/ Count(r) \/ Insert(r)
  \/ Publish(r) \/ PublishFails(r) \/ GiveUp(r) \/ Die(r)

SweepOf(r) == SweepLooks(r) \/ SweepKills(r)

Next ==
  \/ \E r \in Requests :
       Request(r) \/ Shows(r) \/ Judge(r) \/ SweepOf(r) \/ SweepFails(r)
  \/ SessionEnds \/ SweepReads \/ Tick

Spec == Init /\ [][Next]_vars

(* The sweep runs every minute.  One that fails is repeated, and not every   *)
(* one fails on the same submission.                                         *)
Fairness ==
  /\ WF_vars(Tick) /\ WF_vars(SweepReads)
  /\ \A r \in Requests : SF_vars(SweepLooks(r)) /\ SF_vars(SweepKills(r))

FairSpec == Spec /\ Fairness

-----------------------------------------------------------------------------
(* Properties. *)

(* A submission that never showed a system error. *)
Clean(r) == Exists(r) /\ ~row[r].erred

(* Two submissions of one context are further apart than its cooldown,       *)
(* whichever of them was inserted first (submit-cooldown.ts, PRB-22).        *)
CooldownKept ==
  \A p, q \in Requests :
    LET c == req[p].context IN
    p # q /\ Clean(p) /\ Clean(q) /\ req[q].context = c /\ Cooldown[c] > 0
      /\ req[p].received <= req[q].received
    => req[q].received - req[p].received > Cooldown[c]

(* No day has more submissions of a context than its limit, however many     *)
(* requests are checked together (assertDailyAttemptLimit,                   *)
(* docs/features/assignments.md).                                            *)
DailyLimitKept ==
  \A c \in Contexts, d \in {-1} \cup 0 .. MaxTime :
    DailyLimit[c] > 0 =>
      Cardinality({r \in Requests :
        /\ Clean(r) /\ req[r].context = c
        /\ req[r].received >= d * Day + Reset
        /\ req[r].received < (d + 1) * Day + Reset}) <= DailyLimit[c]

(* A submission the sweep gave up has no execution, and never gets one: its  *)
(* student is told to submit again, and the request that comes back late     *)
(* does not bring it to the judge (sweep.ts, publishPendingUpload).          *)
SweptIsNotJudged == \A r \in Requests : row[r].swept => exec[r] = "none"

(* Nothing is inserted for an exam that was handed in or closed, though the  *)
(* request arrived and was let in before (creation.ts locks).                *)
NothingAfterClose ==
  [][\A r \in Requests :
       ~Exists(r) /\ Exists(r)' /\ req[r].context = ExamContext
         => session = "active"]_vars

(* A verdict is not overwritten by a request that failed, or by a sweep,     *)
(* which saw the submission before it was judged.                            *)
VerdictIsKept ==
  [][\A r \in Requests : row[r].status = "judged" => row'[r].status = "judged"]_vars

(* No submission waits for its upload for ever, whatever became of its       *)
(* request (PRB-16).                                                         *)
PendingIsResolved ==
  \A r \in Requests : row[r].status = "pending_upload" ~> row[r].status # "pending_upload"
=============================================================================
