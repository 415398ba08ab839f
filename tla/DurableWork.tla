----------------------------- MODULE DurableWork -----------------------------
(***************************************************************************)
(* The transactional outbox: the DurableWork table                         *)
(* (packages/db/src/repositories/durable-work.ts), the activity that claims *)
(* one row and runs its handler (apps/worker/.../durable-work-runner.ts)   *)
(* and the cron workflow that launches waves of that activity              *)
(* (apps/worker/.../workflows/durable-work.ts).                            *)
(*                                                                         *)
(* Time is abstracted to what the SQL compares: a row knows whether its    *)
(* availableAt has passed (due) and whether its leaseExpiresAt has passed  *)
(* (expired).  Both become TRUE at any moment and stay TRUE until the row  *)
(* is rewritten, so every relation between timeouts is covered.            *)
(*                                                                         *)
(* An owner stands for the randomUUID of one batch.  A fresh UUID is one   *)
(* that neither a live batch nor an unexpired lease refers to.             *)
(***************************************************************************)
EXTENDS Naturals, FiniteSets

CONSTANTS
  Keys,         \* (kind, dedupeKey) pairs
  NumKinds,     \* registered handler kinds, numbered 0 .. NumKinds - 1
  KindOf,       \* the kind of each key
  Owners,       \* batch UUIDs
  Concurrency,  \* DURABLE_WORK_CONCURRENCY: batches of one wave
  MaxAttempts   \* maxAttempts of a row

NoOwner == "none"
NoKey == "none"

ASSUME ParameterAssumption ==
  /\ NumKinds \in Nat \ {0}
  /\ KindOf \in [Keys -> 0 .. NumKinds - 1]
  /\ MaxAttempts \in Nat \ {0}
  /\ Concurrency \in Nat \ {0}
  /\ NoOwner \notin Owners
  /\ NoKey \notin Keys

VARIABLES
  work,   \* the table: one row per key
  batch,  \* the activity run by each owner
  drain,  \* the cron workflow: next fairness offset, batches it awaits
  hist    \* history: what happened to the row since it was last activated

vars == <<work, batch, drain, hist>>

Terminal == {"succeeded", "dead", "cancelled"}
Active == {"pending", "leased"}

Row == [status : {"absent"} \cup Active \cup Terminal, attempt : 0 .. MaxAttempts,
        due : BOOLEAN, owner : Owners \cup {NoOwner}, expired : BOOLEAN]

Batch == [pc : {"idle", "scan", "handling", "returned", "threw", "claimed", "empty"},
          first : 0 .. NumKinds - 1, tried : 0 .. NumKinds,
          key : Keys \cup {NoKey}, attempt : 0 .. MaxAttempts]

History == [runs : 0 .. MaxAttempts, by : SUBSET Owners, served : BOOLEAN]

(* Every variable stays in its type: in particular no row is claimed more  *)
(* often than MaxAttempts, which is the range of attempt and of runs.      *)
TypeOK ==
  /\ work \in [Keys -> Row]
  /\ batch \in [Owners -> Batch]
  /\ drain \in [offset : 0 .. NumKinds - 1, wave : SUBSET Owners]
  /\ hist \in [Keys -> History]

IdleBatch == [pc |-> "idle", first |-> 0, tried |-> 0, key |-> NoKey, attempt |-> 0]
NoHistory == [runs |-> 0, by |-> {}, served |-> FALSE]

Init ==
  /\ work = [k \in Keys |-> [status |-> "absent", attempt |-> 0, due |-> FALSE,
                             owner |-> NoOwner, expired |-> FALSE]]
  /\ batch = [o \in Owners |-> IdleBatch]
  /\ drain = [offset |-> 0, wave |-> {}]
  /\ hist = [k \in Keys |-> NoHistory]

-----------------------------------------------------------------------------
(* Repository operations called by the rest of the system. *)

Unleased(row) == [row EXCEPT !.owner = NoOwner, !.expired = FALSE]

(* createMany with skipDuplicates: keys that exist are left as they are. *)
EnqueueMany(S, due) ==
  LET new == {k \in S : work[k].status = "absent"}
  IN /\ new # {}
     /\ work' = [k \in Keys |-> IF k \in new
                                THEN [work[k] EXCEPT !.status = "pending", !.due = due]
                                ELSE work[k]]
     /\ UNCHANGED <<batch, drain, hist>>

Cancel(k) ==
  /\ work[k].status \in Active
  /\ work' = [work EXCEPT ![k] = [Unleased(@) EXCEPT !.status = "cancelled"]]
  /\ UNCHANGED <<batch, drain, hist>>

(* availableAt is kept; the attempts start again. *)
Reactivate(k) ==
  /\ work[k].status \in Terminal
  /\ work' = [work EXCEPT ![k] = [Unleased(@) EXCEPT !.status = "pending", !.attempt = 0]]
  /\ hist' = [hist EXCEPT ![k] = NoHistory]
  /\ UNCHANGED <<batch, drain>>

Reschedule(k, due) ==
  /\ work[k].status = "pending"
  /\ work' = [work EXCEPT ![k].due = due]
  /\ UNCHANGED <<batch, drain, hist>>

-----------------------------------------------------------------------------
(* The cron workflow. *)

Free(o) ==
  /\ batch[o].pc = "idle"
  /\ \A k \in Keys : work[k].owner = o => work[k].expired

(* Promise.all over Concurrency batches, with consecutive fairness offsets. *)
LaunchWave ==
  /\ drain.wave = {}
  /\ \E slot \in [0 .. Concurrency - 1 -> {o \in Owners : Free(o)}] :
       /\ \A i, j \in DOMAIN slot : slot[i] = slot[j] => i = j
       /\ batch' = [o \in Owners |->
            IF \E i \in DOMAIN slot : slot[i] = o
            THEN [IdleBatch EXCEPT !.pc = "scan",
                    !.first = (drain.offset + (CHOOSE i \in DOMAIN slot : slot[i] = o)) % NumKinds]
            ELSE batch[o]]
       /\ drain' = [drain EXCEPT !.wave = {slot[i] : i \in DOMAIN slot}]
  /\ UNCHANGED <<work, hist>>

(* A wave in which some batch found nothing ends the run, and the next run  *)
(* starts at offset 0; otherwise the next wave, or the run that continues   *)
(* as new, goes on from the advanced offset.                                *)
FinishWave ==
  /\ drain.wave # {}
  /\ \A o \in drain.wave : batch[o].pc \in {"claimed", "empty"}
  /\ drain' = [offset |-> IF \E o \in drain.wave : batch[o].pc = "empty"
                          THEN 0 ELSE (drain.offset + Concurrency) % NumKinds,
               wave |-> {}]
  /\ batch' = [o \in Owners |-> IF o \in drain.wave THEN IdleBatch ELSE batch[o]]
  /\ UNCHANGED <<work, hist>>

(* A failed activity fails the run that awaits it.  Promise.all rejects at  *)
(* once: the other batches run on, awaited by nobody.                       *)
FailedRun(o) == IF o \in drain.wave THEN [offset |-> 0, wave |-> {}] ELSE drain

(* Batches of a failed run drop their result when they end. *)
EndedBatch(o, pc) == IF o \in drain.wave THEN [IdleBatch EXCEPT !.pc = pc] ELSE IdleBatch

ReleaseSiblings(o, b) ==
  IF o \in drain.wave
  THEN [p \in Owners |-> IF p \in drain.wave /\ b[p].pc \in {"claimed", "empty"}
                         THEN IdleBatch ELSE b[p]]
  ELSE b

-----------------------------------------------------------------------------
(* processDurableWorkBatch. *)

Exhausted(k) == /\ work[k].status = "leased"
                /\ work[k].expired
                /\ work[k].attempt >= MaxAttempts

\* Mutant: the status is not looked at.
CandidateAnyStatus(k) == /\ work[k].attempt < MaxAttempts
                         /\ work[k].due \/ work[k].expired

Candidate(k) == /\ work[k].attempt < MaxAttempts
                /\ \/ work[k].status = "pending" /\ work[k].due
                   \/ work[k].status = "leased" /\ work[k].expired

\* Mutant: taking over an expired lease does not count as an attempt.
ClaimedUncounted(row, o) == [row EXCEPT !.status = "leased", !.owner = o, !.expired = FALSE,
                              !.attempt = IF row.status = "leased" THEN @ ELSE @ + 1]

Claimed(row, o) == [row EXCEPT !.status = "leased", !.owner = o, !.expired = FALSE,
                               !.attempt = @ + 1]

\* Mutant: every batch starts at the first kind.
ScannedKindUnrotated(o) == batch[o].tried % NumKinds

ScannedKind(o) == (batch[o].first + batch[o].tried) % NumKinds

LastKind(o) == batch[o].tried + 1 >= NumKinds
NextKind(b) == [b EXCEPT !.tried = @ + 1]
Handling(b, k, attempt) == [b EXCEPT !.pc = "handling", !.key = k, !.attempt = attempt]
RunBy(h, o) == [h EXCEPT !.runs = @ + 1, !.by = @ \cup {o}]

(* One claimBatch statement: exhausted rows of the kind die, and at most one *)
(* candidate is leased.  Without one the loop goes on to the next kind.      *)
ClaimBatch(o) ==
  LET mine == {k \in Keys : KindOf[k] = ScannedKind(o)}
      buried == [k \in Keys |-> IF k \in mine /\ Exhausted(k)
                                THEN [Unleased(work[k]) EXCEPT !.status = "dead"]
                                ELSE work[k]]
      candidates == {k \in mine : Candidate(k)}
  IN /\ batch[o].pc = "scan"
     /\ \/ \E k \in candidates :
             /\ work' = [buried EXCEPT ![k] = Claimed(@, o)]
             /\ batch' = [batch EXCEPT ![o] = Handling(@, k, Claimed(work[k], o).attempt)]
             /\ hist' = [hist EXCEPT ![k] = RunBy(@, o)]
        \/ /\ candidates = {}
           /\ work' = buried
           /\ batch' = [batch EXCEPT ![o] = IF LastKind(o) THEN EndedBatch(o, "empty")
                                            ELSE NextKind(@)]
           /\ UNCHANGED hist
     /\ UNCHANGED drain

(* The handler of the claimed row ends, well or with an exception. *)
HandlerEnds(o, pc) ==
  /\ batch[o].pc = "handling"
  /\ batch' = [batch EXCEPT ![o].pc = pc]
  /\ hist' = [hist EXCEPT ![batch[o].key].served =
                @ \/ (pc = "returned" /\ o \in hist[batch[o].key].by)]
  /\ UNCHANGED <<work, drain>>

\* Mutant: any unexpired lease of the row will do.
HoldsSomeLease(o) ==
  LET row == work[batch[o].key] IN row.status = "leased" /\ ~row.expired

(* The WHERE clause shared by complete and retryOrDead. *)
HoldsLease(o) ==
  LET row == work[batch[o].key]
  IN /\ row.status = "leased"
     /\ row.owner = o
     /\ row.attempt = batch[o].attempt
     /\ ~row.expired

Complete(o) ==
  /\ batch[o].pc = "returned"
  /\ HoldsLease(o)
  /\ work' = [work EXCEPT ![batch[o].key] = [Unleased(@) EXCEPT !.status = "succeeded"]]
  /\ batch' = [batch EXCEPT ![o] = EndedBatch(o, "claimed")]
  /\ UNCHANGED <<drain, hist>>

\* Mutant: gives up one attempt early.
RetryOrDeadEarly(o) ==
  /\ batch[o].pc = "threw"
  /\ HoldsLease(o)
  /\ work' = [work EXCEPT ![batch[o].key] =
       IF @.attempt + 1 >= MaxAttempts
       THEN [Unleased(@) EXCEPT !.status = "dead"]
       ELSE [Unleased(@) EXCEPT !.status = "pending", !.due = FALSE]]
  /\ batch' = [batch EXCEPT ![o] = EndedBatch(o, "claimed")]
  /\ UNCHANGED <<drain, hist>>

RetryOrDead(o) ==
  /\ batch[o].pc = "threw"
  /\ HoldsLease(o)
  /\ work' = [work EXCEPT ![batch[o].key] =
       IF @.attempt >= MaxAttempts
       THEN [Unleased(@) EXCEPT !.status = "dead"]
       ELSE [Unleased(@) EXCEPT !.status = "pending", !.due = FALSE]]
  /\ batch' = [batch EXCEPT ![o] = EndedBatch(o, "claimed")]
  /\ UNCHANGED <<drain, hist>>

(* DurableWorkLeaseLostError leaves the row alone and fails the activity. *)
LeaseLost(o) ==
  /\ batch[o].pc \in {"returned", "threw"}
  /\ ~HoldsLease(o)
  /\ batch' = ReleaseSiblings(o, [batch EXCEPT ![o] = IdleBatch])
  /\ drain' = FailedRun(o)
  /\ UNCHANGED <<work, hist>>

-----------------------------------------------------------------------------
(* The environment. *)

(* The worker process dies, in any state of the batch. *)
Crash(o) ==
  /\ batch[o].pc \in {"scan", "handling", "returned", "threw"}
  /\ batch' = ReleaseSiblings(o, [batch EXCEPT ![o] = IdleBatch])
  /\ drain' = FailedRun(o)
  /\ UNCHANGED <<work, hist>>

(* startToCloseTimeout: the workflow gives the activity up, its code runs on. *)
ActivityTimeout(o) ==
  /\ o \in drain.wave
  /\ batch[o].pc \in {"scan", "handling", "returned", "threw"}
  /\ batch' = ReleaseSiblings(o, batch)
  /\ drain' = FailedRun(o)
  /\ UNCHANGED <<work, hist>>

BecomesDue(k) ==
  /\ work[k].status = "pending"
  /\ ~work[k].due
  /\ work' = [work EXCEPT ![k].due = TRUE]
  /\ UNCHANGED <<batch, drain, hist>>

LeaseExpires(k) ==
  /\ work[k].status = "leased"
  /\ ~work[k].expired
  /\ work' = [work EXCEPT ![k].expired = TRUE]
  /\ UNCHANGED <<batch, drain, hist>>

-----------------------------------------------------------------------------
Next ==
  \/ \E S \in SUBSET Keys, due \in BOOLEAN : EnqueueMany(S, due)
  \/ \E k \in Keys : Cancel(k) \/ Reactivate(k) \/ BecomesDue(k) \/ LeaseExpires(k)
  \/ \E k \in Keys, due \in BOOLEAN : Reschedule(k, due)
  \/ LaunchWave
  \/ FinishWave
  \/ \E o \in Owners : \/ ClaimBatch(o) \/ Complete(o) \/ RetryOrDead(o) \/ LeaseLost(o)
                       \/ HandlerEnds(o, "returned") \/ HandlerEnds(o, "threw")
                       \/ Crash(o) \/ ActivityTimeout(o)

Spec == Init /\ [][Next]_vars

(* The cron schedule relaunches the drain, a launched batch runs until it    *)
(* ends, and time passes.  Nothing is assumed of the callers of the           *)
(* repository, nor of crashes and timeouts.                                   *)
Fairness ==
  /\ WF_vars(LaunchWave)
  /\ WF_vars(FinishWave)
  /\ \A o \in Owners : /\ WF_vars(ClaimBatch(o))
                       /\ WF_vars(HandlerEnds(o, "returned") \/ HandlerEnds(o, "threw"))
                       /\ WF_vars(Complete(o) \/ RetryOrDead(o) \/ LeaseLost(o))
  /\ \A k \in Keys : WF_vars(BecomesDue(k)) /\ WF_vars(LeaseExpires(k))

FairSpec == Spec /\ Fairness

-----------------------------------------------------------------------------
(* Properties. *)

(* Attempts are spent before the handler runs: since its activation a row    *)
(* has been handed to a handler exactly attempt times, so a row whose        *)
(* handler kills the worker every time is buried after MaxAttempts runs.     *)
RunsAreCounted ==
  \A k \in Keys : hist[k].runs = work[k].attempt /\ hist[k].runs <= MaxAttempts

(* A row succeeds only when a handler run that began after the row was last  *)
(* (re)activated has returned: a late batch of an earlier activation, whose  *)
(* lease expired or whose row was cancelled and reactivated, can never mark  *)
(* the new request as done.                                                  *)
SucceededWasServed ==
  \A k \in Keys : work[k].status = "succeeded" => hist[k].served

(* A row is given up only after MaxAttempts runs of its handler. *)
DeadWasTried ==
  \A k \in Keys : work[k].status = "dead" => hist[k].runs = MaxAttempts

(* A lease always names the batch that made the latest claim of the row, and *)
(* a row that is not leased names none: the fence of complete and            *)
(* retryOrDead admits nobody on a row that is waiting or finished.           *)
LeaseNamesClaimer ==
  \A k \in Keys :
    /\ work[k].status = "leased" <=> work[k].owner # NoOwner
    /\ work[k].status = "leased" => work[k].owner \in hist[k].by

(* A finished row changes only when a caller reactivates it: no claim, late  *)
(* completion or retry brings it back.                                       *)
TerminalIsStable ==
  [][\A k \in Keys : work[k].status \in Terminal =>
        \/ work'[k] = work[k]
        \/ work'[k].status = "pending" /\ work'[k].attempt = 0]_vars

(* A caller postpones a row, or a run of the drain fails: the next one       *)
(* starts at the first kind again.                                           *)
Disturbance ==
  \/ \E k \in Keys, due \in BOOLEAN : Reschedule(k, due) /\ ~BecomesDue(k)
  \/ \E o \in Owners : Crash(o) \/ ActivityTimeout(o) \/ LeaseLost(o)

(* No row is stuck: once runs of the drain stop failing (workers stop dying, *)
(* handlers end within their lease) and callers stop postponing, every row   *)
(* that waits or is leased is finished, whatever other kinds do (the         *)
(* rotating fairness offset keeps a busy kind from starving another).        *)
WorkSettles ==
  <>[][~Disturbance]_vars =>
    \A k \in Keys : work[k].status \in Active ~> work[k].status \in Terminal
=============================================================================
