---------------------------- MODULE SlotSupplier ----------------------------
(***************************************************************************)
(* The judge worker's activity slots when they follow the node's load      *)
(* (NodeLoadSlotSupplier): a budget between Min and Max that samples and   *)
(* capacity signals move, permits that are reserved, used and released,    *)
(* and a queue of reservations that wait for one.                          *)
(*                                                                         *)
(* The supplier is one object on one event loop, so each of its methods is *)
(* one step; the methods come in any order.  What a caller does with its   *)
(* permit is the Temporal SDK's part.                                      *)
(***************************************************************************)
EXTENDS Integers, Sequences, FiniteSets

CONSTANTS
  Callers,   \* bound: reservations at a time
  Min, Max,  \* WORKER_MIN_CONCURRENCY (not above Max), WORKER_CONCURRENCY
  Cooldown,  \* GROWTH_COOLDOWN_SAMPLES
  Kinds,     \* capacity signals
  Pause      \* samples without growth after a signal of each kind

ASSUME SlotAssumption ==
  /\ Min \in Nat \ {0} /\ Max \in Nat /\ Min <= Max
  /\ Cooldown \in Nat
  /\ Pause \in [Kinds -> Nat]
  /\ IsFiniteSet(Callers)

VARIABLES
  budget,              \* budgetValue
  issued,              \* permits given out
  used,                \* permits whose stage runs: usedValue
  samplesSinceGrowth,  \* counted up to Cooldown
  pausedSamples,
  waiters,             \* callers whose reserveSlot is pending, oldest first
  permit,              \* what each caller has
  quiet                \* history: samples since the last signal of each kind

vars == <<budget, issued, used, samplesSinceGrowth, pausedSamples, waiters, permit, quiet>>

Larger(a, b) == IF a > b THEN a ELSE b
Smaller(a, b) == IF a < b THEN a ELSE b

(* Every variable stays in its type; the budget stays between its limits. *)
TypeOK ==
  /\ budget \in Min .. Max
  /\ issued \in 0 .. Max
  /\ used \in 0 .. Max
  /\ samplesSinceGrowth \in 0 .. Cooldown
  /\ pausedSamples \in Nat
  /\ waiters \in Seq(Callers)
  /\ permit \in [Callers -> {"none", "waiting", "reserved", "used"}]
  /\ quiet \in [Kinds -> Nat]

Init ==
  /\ budget = Min
  /\ issued = 0
  /\ used = 0
  /\ samplesSinceGrowth = Cooldown
  /\ pausedSamples = 0
  /\ waiters = <<>>
  /\ permit = [c \in Callers |-> "none"]
  /\ quiet = Pause

-----------------------------------------------------------------------------
(* Waking the oldest waiters while the budget has room. *)

\* Mutants: one waiter more than there is room for; nobody.
OneTooMany(b, i) == IF i <= b THEN Smaller(b - i + 1, Len(waiters)) ELSE 0
NobodyWoken(b, i) == 0

Woken(b, i) == IF i < b THEN Smaller(b - i, Len(waiters)) ELSE 0

\* Mutant: the newest waiters first.
NewestFirst(b, i, p) ==
  /\ issued' = i + Woken(b, i)
  /\ waiters' = SubSeq(waiters, 1, Len(waiters) - Woken(b, i))
  /\ permit' = [c \in Callers |->
       IF \E n \in Len(waiters) - Woken(b, i) + 1 .. Len(waiters) : waiters[n] = c
       THEN "reserved" ELSE p[c]]

(* From a budget b, i issued permits and the permits p. *)
Wake(b, i, p) ==
  /\ issued' = i + Woken(b, i)
  /\ waiters' = SubSeq(waiters, Woken(b, i) + 1, Len(waiters))
  /\ permit' = [c \in Callers |->
       IF \E n \in 1 .. Woken(b, i) : waiters[n] = c THEN "reserved" ELSE p[c]]

-----------------------------------------------------------------------------
(* The budget. *)

Count(n) == Smaller(n + 1, Cooldown)

Shrunk == Larger(Min, Smaller(budget, used - 1))

Sampled == quiet' = [k \in Kinds |-> Smaller(quiet[k] + 1, Pause[k])]
LessPaused == pausedSamples' = Larger(pausedSamples - 1, 0)

(* adjust over a limit of CPU, node memory or worker memory. *)
AdjustOverloaded ==
  /\ budget' = Shrunk
  /\ samplesSinceGrowth' = Count(samplesSinceGrowth)
  /\ LessPaused
  /\ Sampled
  /\ UNCHANGED <<issued, used, waiters, permit>>

MayGrow ==
  /\ pausedSamples = 0
  /\ used >= budget
  /\ budget < Max
  /\ Count(samplesSinceGrowth) >= Cooldown

(* adjust below every limit. *)
AdjustHealthy ==
  /\ IF MayGrow
     THEN /\ budget' = budget + 1
          /\ samplesSinceGrowth' = 0
          /\ Wake(budget + 1, issued, permit)
     ELSE /\ samplesSinceGrowth' = Count(samplesSinceGrowth)
          /\ UNCHANGED <<budget, issued, waiters, permit>>
  /\ LessPaused
  /\ Sampled
  /\ UNCHANGED used

\* Mutant: a new signal replaces the pause of the last one.
PausedAgain(k) == Pause[k]

PausedBy(k) == Larger(pausedSamples, Pause[k])

Signal(k) ==
  /\ budget' = Shrunk
  /\ pausedSamples' = PausedBy(k)
  /\ quiet' = [quiet EXCEPT ![k] = 0]
  /\ UNCHANGED <<issued, used, samplesSinceGrowth, waiters, permit>>

-----------------------------------------------------------------------------
(* Permits. *)

Granted(c) ==
  /\ issued' = issued + 1
  /\ permit' = [permit EXCEPT ![c] = "reserved"]
  /\ UNCHANGED waiters

ReserveSlot(c) ==
  /\ permit[c] = "none"
  /\ IF issued < budget
     THEN Granted(c)
     ELSE /\ waiters' = Append(waiters, c)
          /\ permit' = [permit EXCEPT ![c] = "waiting"]
          /\ UNCHANGED issued
  /\ UNCHANGED <<budget, used, samplesSinceGrowth, pausedSamples, quiet>>

\* Mutant: the newest waiter is taken off the queue, whoever it is.
LastDropped(c) == SubSeq(waiters, 1, Len(waiters) - 1)

(* splice(indexOf(waiter), 1). *)
LeftQueue(c) ==
  LET n == CHOOSE m \in 1 .. Len(waiters) : waiters[m] = c
  IN SubSeq(waiters, 1, n - 1) \o SubSeq(waiters, n + 1, Len(waiters))

(* onAbort. *)
Abort(c) ==
  /\ permit[c] = "waiting"
  /\ waiters' = LeftQueue(c)
  /\ permit' = [permit EXCEPT ![c] = "none"]
  /\ UNCHANGED <<budget, issued, used, samplesSinceGrowth, pausedSamples, quiet>>

TryReserveSlot(c) ==
  /\ permit[c] = "none"
  /\ issued < budget /\ waiters = <<>>
  /\ Granted(c)
  /\ UNCHANGED <<budget, used, samplesSinceGrowth, pausedSamples, quiet>>

MarkSlotUsed(c) ==
  /\ permit[c] = "reserved"
  /\ used' = used + 1
  /\ permit' = [permit EXCEPT ![c] = "used"]
  /\ UNCHANGED <<budget, issued, samplesSinceGrowth, pausedSamples, waiters, quiet>>

SlotInfo(c) == IF permit[c] = "used" THEN 1 ELSE 0

(* A permit comes back, whether or not a stage ran under it. *)
ReleaseSlot(c) ==
  /\ permit[c] \in {"reserved", "used"}
  /\ used' = used - SlotInfo(c)
  /\ Wake(budget, issued - 1, [permit EXCEPT ![c] = "none"])
  /\ UNCHANGED <<budget, samplesSinceGrowth, pausedSamples, quiet>>

-----------------------------------------------------------------------------
Next ==
  \/ AdjustOverloaded \/ AdjustHealthy \/ \E k \in Kinds : Signal(k)
  \/ \E c \in Callers : \/ ReserveSlot(c) \/ Abort(c) \/ TryReserveSlot(c)
                        \/ MarkSlotUsed(c) \/ ReleaseSlot(c)

Spec == Init /\ [][Next]_vars

(* Stages end: the Job cap is 1,800 s; the SDK gives unused permits back.   *)
(* Nothing is assumed of samples: the budget may never grow.                *)
Fairness == \A c \in Callers : WF_vars(ReleaseSlot(c))

FairSpec == Spec /\ Fairness

-----------------------------------------------------------------------------
(* Properties. *)

Held == {c \in Callers : permit[c] \in {"reserved", "used"}}
InUse == {c \in Callers : permit[c] = "used"}

(* The queue holds exactly those who wait, each once. *)
QueueIsExact ==
  /\ \A c \in Callers : permit[c] = "waiting" <=> \E n \in 1 .. Len(waiters) : waiters[n] = c
  /\ \A m, n \in 1 .. Len(waiters) : waiters[m] = waiters[n] => m = n

(* The counters and the queue are what was given out and asked for: no       *)
(* permit is lost or released twice and no waiter forgotten, in whatever     *)
(* order reservations, aborts, stages and releases come.  A counter that     *)
(* drifts takes slots from the judge for good.                               *)
SlotsAreCounted ==
  /\ issued = Cardinality(Held)
  /\ used = Cardinality(InUse)
  /\ QueueIsExact

(* Nobody waits beside a free slot: every step that makes room wakes.        *)
NoIdleSlot == waiters # <<>> => issued >= budget

(* A shrinking budget revokes no permit, and until enough have come back no  *)
(* new one is given (JDG-13: never revokes a running stage).                 *)
WithinBudget ==
  [][\A c \in Callers :
       permit[c] \notin {"reserved", "used"} /\ permit'[c] = "reserved" => issued' <= budget']_vars

(* A reservation is never overtaken by a later one, nor by tryReserveSlot.   *)
NoOvertaking ==
  [][\A c, d \in Callers :
       /\ permit[c] = "waiting" /\ permit'[c] = "waiting"
       /\ permit[d] \notin {"reserved", "used"} /\ permit'[d] = "reserved"
       => \E m, n \in 1 .. Len(waiters) : m < n /\ waiters[m] = d /\ waiters[n] = c]_vars

(* After a capacity signal the budget does not grow for as many samples as   *)
(* its kind asks for, whatever other signals come meanwhile (30 s after an   *)
(* unschedulable Pod or a quota rejection, 60 s after a wall clock timeout). *)
PauseIsKept == [][budget' > budget => \A k \in Kinds : quiet[k] >= Pause[k]]_vars

(* A reservation that waits is answered or aborted, however small the budget *)
(* has become.                                                               *)
EveryReservationIsAnswered ==
  \A c \in Callers : permit[c] = "waiting" ~> permit[c] # "waiting"
=============================================================================
