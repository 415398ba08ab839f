-------------------------- MODULE ExamSessionProofs --------------------------
(***************************************************************************)
(* The safety of the sessions and timers of a student's exams, for any     *)
(* number of exams, schedules, reconciliations and entries.                *)
(*                                                                         *)
(* The timers do not depend on the sessions, nor the sessions on the       *)
(* timers, but for the moment a timer fires; each side has its invariant.  *)
(***************************************************************************)
EXTENDS ExamSession, TLAPS

RunType == [status : {"none", "running", "completed", "failed", "terminated"},
            revision : Revisions, window : Windows]
RecType == [pc : {"idle", "describe", "terminate", "start"}, exam : Exams,
            revision : Revisions, window : Windows, seen : Revisions, rounds : 0 .. MaxRounds]
EntryType == [pc : {"idle", "arrived", "locked"}, exam : Exams, wasActive : BOOLEAN]
SessionType == {NoSession, ActiveSession} \cup
  {Closed(reason) : reason \in {"null", "submitted", "time_up", "released_by_instructor"}}

(* A revision is never ahead of the schedule, and the newest one names the   *)
(* window the schedule has.                                                  *)
Names(revision, window, x) ==
  /\ revision <= sched[x].revision
  /\ revision = sched[x].revision => window = sched[x].window

RunFacts(x) ==
  /\ run[x].revision <= sched[x].revision
  /\ run[x].status # "none" => Names(run[x].revision, run[x].window, x)

(* A reconciliation terminates what it knows to be older than the schedule.  *)
RecFacts(p) ==
  rec[p].pc # "idle" =>
    /\ rec[p].rounds >= 1
    /\ Names(rec[p].revision, rec[p].window, rec[p].exam)
    /\ rec[p].pc = "terminate" => rec[p].seen < sched[rec[p].exam].revision

TimerInv ==
  /\ TimerTypeOK
  /\ \A x \in Exams : RunFacts(x) /\ sched[x].revision >= 1
  /\ \A p \in Recs : RecFacts(p)

(* The entry that holds the student's lock has seen no other active session, *)
(* nor a hand-in, and that stays so until it has written.                    *)
EntryFacts(r) ==
  entry[r].pc = "locked" =>
    /\ \A q \in Requests : entry[q].pc = "locked" => q = r
    /\ \A y \in Exams \ {entry[r].exam} : ~Active(y)
    /\ part[entry[r].exam] # "submitted"

SessionTypeOK ==
  /\ part \in [Exams -> {"none", "registered", "active", "submitted"}]
  /\ session \in [Exams -> SessionType]
  /\ entry \in [Requests -> EntryType]
  /\ releasing \subseteq Exams

SessionInv ==
  /\ SessionTypeOK
  /\ \A r \in Requests : EntryFacts(r)
  /\ OneActiveSession
  /\ ActiveMeansTakingPart

IInv == TimerInv /\ SessionInv

-----------------------------------------------------------------------------
(* The timers. *)

LEMMA AnExamIs == AnExam \in Exams
  BY TimerAssumption DEF AnExam

LEMMA IdleRecIs == IdleRec \in RecType /\ IdleRec.pc = "idle"
<1>1. 0 \in Revisions /\ 0 \in 0 .. MaxRounds /\ First[AnExam] \in Windows
  BY AnExamIs, TimerAssumption DEF Revisions
<1> QED BY <1>1, AnExamIs DEF IdleRec, RecType

LEMMA InitTimers == TimerInit => TimerInv
<1> SUFFICES ASSUME TimerInit PROVE TimerInv
  OBVIOUS
<1>1. 0 \in Revisions /\ 1 \in Revisions /\ 0 \in 0 .. MaxTime
  BY TimerAssumption DEF Revisions
<1>2. TimerTypeOK
  <2>1. sched \in [Exams -> [window : Windows, revision : Revisions]]
    BY <1>1, TimerAssumption DEF TimerInit
  <2>2. past \in [Exams -> SUBSET Windows]
    BY TimerAssumption DEF TimerInit
  <2>3. run \in [Exams -> RunType]
    BY <1>1, TimerAssumption DEF TimerInit, NoRun, RunType
  <2>4. rec \in [Recs -> RecType]
    BY IdleRecIs DEF TimerInit
  <2> QED BY <1>1, <2>1, <2>2, <2>3, <2>4 DEF TimerInit, TimerTypeOK, RunType, RecType
<1>3. ASSUME NEW x \in Exams PROVE RunFacts(x) /\ sched[x].revision >= 1
  BY DEF TimerInit, RunFacts, Names, NoRun
<1>4. ASSUME NEW p \in Recs PROVE RecFacts(p)
  BY IdleRecIs DEF TimerInit, RecFacts
<1> QED BY <1>2, <1>3, <1>4 DEF TimerInv

LEMMA TimersTyped ==
  ASSUME TimerInv
  PROVE  /\ clock \in 0 .. MaxTime
         /\ sched \in [Exams -> [window : Windows, revision : Revisions]]
         /\ past \in [Exams -> SUBSET Windows]
         /\ run \in [Exams -> RunType]
         /\ rec \in [Recs -> RecType]
         /\ \A x \in Exams : sched[x].revision \in Nat /\ run[x].revision \in Nat
         /\ \A p \in Recs : rec[p].revision \in Nat /\ rec[p].seen \in Nat /\ rec[p].rounds \in Nat
                            /\ rec[p].exam \in Exams
<1>1. /\ clock \in 0 .. MaxTime
      /\ sched \in [Exams -> [window : Windows, revision : Revisions]]
      /\ past \in [Exams -> SUBSET Windows]
      /\ run \in [Exams -> RunType]
      /\ rec \in [Recs -> RecType]
  BY DEF TimerInv, TimerTypeOK, RunType, RecType
<1>2. Revisions \subseteq Nat /\ 0 .. MaxRounds \subseteq Nat
  BY TimerAssumption DEF Revisions
<1> QED BY <1>1, <1>2 DEF RunType, RecType

(* A reconciliation comes to an end, or goes on with a record of its own. *)
LEMMA RecMoves ==
  ASSUME TimerInv, UNCHANGED <<clock, sched, past, run>>, NEW p \in Recs, NEW next \in RecType,
         rec' = [rec EXCEPT ![p] = next],
         next.pc # "idle" =>
           /\ next.rounds >= 1
           /\ Names(next.revision, next.window, next.exam)
           /\ next.pc = "terminate" => next.seen < sched[next.exam].revision
  PROVE  TimerInv'
<1>1. rec' \in [Recs -> RecType] /\ rec'[p] = next /\ \A q \in Recs : q # p => rec'[q] = rec[q]
  BY TimersTyped
<1>2. TimerTypeOK'
  BY <1>1, TimersTyped DEF TimerTypeOK, RunType, RecType
<1>3. \A x \in Exams : RunFacts(x)' /\ sched'[x].revision >= 1
  BY DEF TimerInv, RunFacts, Names
<1>4. ASSUME NEW q \in Recs PROVE RecFacts(q)'
  BY <1>1 DEF TimerInv, RecFacts, Names
<1> QED BY <1>2, <1>3, <1>4 DEF TimerInv

(* A run takes the place of another, and its reconciliation goes on. *)
LEMMA RunMoves ==
  ASSUME TimerInv, UNCHANGED <<clock, sched, past>>, NEW x \in Exams, NEW next \in RunType,
         run' = [run EXCEPT ![x] = next],
         next.revision <= sched[x].revision,
         next.status # "none" => Names(next.revision, next.window, x),
         \/ rec' = rec
         \/ \E p \in Recs : \E v \in RecType :
              /\ rec' = [rec EXCEPT ![p] = v]
              /\ v.pc # "idle" => /\ v.rounds >= 1 /\ v.pc # "terminate"
                                  /\ Names(v.revision, v.window, v.exam)
  PROVE  TimerInv'
<1>1. run' \in [Exams -> RunType] /\ run'[x] = next /\ \A y \in Exams : y # x => run'[y] = run[y]
  BY TimersTyped
<1>2. rec' \in [Recs -> RecType]
  BY TimersTyped
<1>3. TimerTypeOK'
  BY <1>1, <1>2, TimersTyped DEF TimerTypeOK, RunType, RecType
<1>4. ASSUME NEW y \in Exams PROVE RunFacts(y)' /\ sched'[y].revision >= 1
  BY <1>1 DEF TimerInv, RunFacts, Names
<1>5. ASSUME NEW q \in Recs PROVE RecFacts(q)'
  <2>1. CASE rec' = rec
    BY <2>1 DEF TimerInv, RecFacts, Names
  <2>2. ASSUME NEW p \in Recs, NEW v \in RecType,
               rec' = [rec EXCEPT ![p] = v],
               v.pc # "idle" => /\ v.rounds >= 1 /\ v.pc # "terminate"
                                /\ Names(v.revision, v.window, v.exam)
        PROVE  RecFacts(q)'
    <3>1. rec'[q] = IF q = p THEN v ELSE rec[q]
      BY <2>2, TimersTyped
    <3> QED BY <2>2, <3>1 DEF TimerInv, RecFacts, Names
  <2> QED BY <2>1, <2>2
<1> QED BY <1>3, <1>4, <1>5 DEF TimerInv

LEMMA ReconcilingIs ==
  ASSUME NEW x \in Exams, NEW s \in [window : Windows, revision : Revisions]
  PROVE  LET v == Reconciling(x, s) IN
         /\ v \in RecType /\ v.rounds >= 1 /\ v.pc = "describe" /\ v.exam = x
         /\ v.revision = s.revision /\ v.window = s.window
<1>1. 0 \in Revisions /\ MaxRounds \in 0 .. MaxRounds /\ MaxRounds >= 1
  BY TimerAssumption DEF Revisions
<1> QED BY <1>1 DEF Reconciling, RecType

(* A new schedule is newer than everything that is known of the old ones. *)
LEMMA RescheduleStep ==
  ASSUME TimerInv, NEW x \in Exams, NEW w \in Windows, Reschedule(x, w)
  PROVE  TimerInv'
<1> DEFINE s == [window |-> w, revision |-> sched[x].revision + 1]
           v == Reconciling(x, s)
<1>1. s \in [window : Windows, revision : Revisions] /\ s.revision = sched[x].revision + 1 /\ s.window = w
  <2>1. sched[x].revision + 1 \in Revisions
    BY TimersTyped, TimerAssumption DEF Reschedule, Revisions
  <2> QED BY <2>1
<1>2. v \in RecType /\ v.rounds >= 1 /\ v.pc = "describe" /\ v.exam = x
      /\ v.revision = s.revision /\ v.window = s.window
  BY <1>1, ReconcilingIs
<1>3. /\ sched' = [sched EXCEPT ![x] = s] /\ past' = [past EXCEPT ![x] = past[x] \cup {w}]
      /\ UNCHANGED <<clock, run>>
      /\ rec' = rec \/ \E p \in Recs : rec' = [rec EXCEPT ![p] = v]
  BY DEF Reschedule
<1> HIDE DEF s, v
<1>10. s.revision \in Nat
  BY <1>1, TimersTyped
<1>4. /\ sched' \in [Exams -> [window : Windows, revision : Revisions]]
      /\ sched'[x] = s /\ \A y \in Exams : y # x => sched'[y] = sched[y]
  BY <1>1, <1>3, TimersTyped
<1>5. past' \in [Exams -> SUBSET Windows]
  BY <1>3, TimersTyped
<1>6. rec' \in [Recs -> RecType]
  BY <1>2, <1>3, TimersTyped
<1>7. TimerTypeOK'
  BY <1>3, <1>4, <1>5, <1>6, TimersTyped DEF TimerTypeOK, RunType, RecType
<1>8. ASSUME NEW y \in Exams PROVE RunFacts(y)' /\ sched'[y].revision >= 1
  BY <1>1, <1>3, <1>4, TimersTyped DEF TimerInv, RunFacts, Names
<1>9. ASSUME NEW q \in Recs PROVE RecFacts(q)'
  <2>1. CASE rec'[q] = v
    <3>1. v.revision <= sched'[x].revision /\ v.window = sched'[x].window
      BY <1>1, <1>2, <1>4, <1>10
    <3> QED BY <1>2, <2>1, <3>1 DEF RecFacts, Names
  <2>2. CASE rec'[q] = rec[q]
    BY <1>1, <1>4, <2>2, TimersTyped DEF TimerInv, RecFacts, Names
  <2>3. rec'[q] = v \/ rec'[q] = rec[q]
    BY <1>3, TimersTyped
  <2> QED BY <2>1, <2>2, <2>3
<1> QED BY <1>7, <1>8, <1>9 DEF TimerInv

LEMMA EnsureStep ==
  ASSUME TimerInv, NEW p \in Recs, NEW x \in Exams, Ensure(p, x)
  PROVE  TimerInv'
<1> DEFINE v == Reconciling(x, sched[x])
<1>1. sched[x] \in [window : Windows, revision : Revisions]
  BY TimersTyped
<1>2. v \in RecType /\ v.rounds >= 1 /\ v.pc = "describe" /\ v.exam = x
      /\ v.revision = sched[x].revision /\ v.window = sched[x].window
  BY <1>1, ReconcilingIs
<1>3. rec' = [rec EXCEPT ![p] = v] /\ UNCHANGED <<clock, sched, past, run>>
  BY DEF Ensure
<1> HIDE DEF v
<1>4. Names(v.revision, v.window, v.exam)
  BY <1>2, TimersTyped DEF Names
<1> QED BY <1>2, <1>3, <1>4, RecMoves

(* Whoever goes on to terminate has read a newer schedule than the run it saw. *)
LEMMA DescribeStep ==
  ASSUME TimerInv, NEW p \in Recs, Describe(p)
  PROVE  TimerInv'
<1> DEFINE seen == run[rec[p].exam]
           x == rec[p].exam
           stop == [rec[p] EXCEPT !.pc = "terminate", !.seen = seen.revision]
           go == [rec[p] EXCEPT !.pc = "start"]
<1>1. /\ rec[p] \in RecType /\ x \in Exams /\ seen \in RunType /\ rec[p].pc = "describe"
      /\ rec[p].rounds >= 1 /\ Names(rec[p].revision, rec[p].window, x) /\ RunFacts(x)
      /\ UNCHANGED <<clock, sched, past, run>>
  BY TimersTyped DEF Describe, TimerInv, RecFacts
<1>2. CASE Kept(p, seen)
  <2>1. rec' = [rec EXCEPT ![p] = IdleRec]
    BY <1>2 DEF Describe
  <2> QED BY <1>1, <2>1, IdleRecIs, RecMoves
<1>3. CASE ~Kept(p, seen) /\ seen.status = "running"
  <2>1. rec' = [rec EXCEPT ![p] = stop]
    BY <1>3 DEF Describe
  <2>2. /\ stop \in RecType /\ stop.pc = "terminate" /\ stop.seen = seen.revision
        /\ stop.rounds = rec[p].rounds /\ stop.revision = rec[p].revision
        /\ stop.window = rec[p].window /\ stop.exam = x
    BY <1>1 DEF RecType, RunType
  <2>3. seen.revision < sched[x].revision
    <3>1. seen.revision \in Nat /\ rec[p].revision \in Nat /\ sched[x].revision \in Nat
      BY <1>1, TimersTyped
    <3>2. seen.status # "none" /\ ~(seen.revision > rec[p].revision) /\ seen.window # rec[p].window
      BY <1>3 DEF Kept
    <3>3. /\ seen.revision <= sched[x].revision
          /\ seen.revision = sched[x].revision => seen.window = sched[x].window
      BY <1>1, <3>2 DEF RunFacts, Names
    <3>4. /\ rec[p].revision <= sched[x].revision
          /\ rec[p].revision = sched[x].revision => rec[p].window = sched[x].window
      BY <1>1 DEF Names
    <3> HIDE DEF seen, x
    <3> QED BY <3>1, <3>2, <3>3, <3>4
  <2> HIDE DEF stop
  <2> QED BY <1>1, <2>1, <2>2, <2>3, RecMoves
<1>4. CASE ~Kept(p, seen) /\ seen.status # "running"
  <2>1. rec' = [rec EXCEPT ![p] = go]
    BY <1>4 DEF Describe
  <2>2. /\ go \in RecType /\ go.pc = "start" /\ go.rounds = rec[p].rounds
        /\ go.revision = rec[p].revision /\ go.window = rec[p].window /\ go.exam = x
    BY <1>1 DEF RecType
  <2> HIDE DEF go
  <2> QED BY <1>1, <2>1, <2>2, RecMoves
<1> QED BY <1>2, <1>3, <1>4

LEMMA NextRoundIs ==
  ASSUME TimerInv, NEW p \in Recs, rec[p].pc # "idle"
  PROVE  \E v \in RecType :
           /\ NextRound(p) = [rec EXCEPT ![p] = v]
           /\ v.pc # "idle" => /\ v.rounds >= 1 /\ v.pc # "terminate"
                               /\ Names(v.revision, v.window, v.exam)
<1>1. rec[p] \in RecType /\ rec[p].rounds >= 1
      /\ Names(rec[p].revision, rec[p].window, rec[p].exam)
  BY TimersTyped DEF TimerInv, RecFacts
<1>2. CASE rec[p].rounds = 1
  <2>1. NextRound(p) = [rec EXCEPT ![p] = IdleRec]
    BY <1>2 DEF NextRound
  <2> QED BY <2>1, IdleRecIs
<1>3. CASE rec[p].rounds # 1
  <2> DEFINE v == [rec[p] EXCEPT !.pc = "describe", !.seen = 0, !.rounds = rec[p].rounds - 1]
  <2>1. NextRound(p) = [rec EXCEPT ![p] = IF rec[p].rounds - 1 = 0 THEN IdleRec ELSE v]
    BY DEF NextRound
  <2>2. 0 \in Revisions /\ rec[p].rounds - 1 \in 0 .. MaxRounds /\ rec[p].rounds - 1 >= 1
    BY <1>1, <1>3, TimerAssumption DEF Revisions, RecType
  <2>3. /\ v \in RecType /\ v.pc = "describe" /\ v.rounds >= 1 /\ v.revision = rec[p].revision
        /\ v.window = rec[p].window /\ v.exam = rec[p].exam
    BY <1>1, <2>2 DEF RecType
  <2> HIDE DEF v
  <2>4. NextRound(p) = [rec EXCEPT ![p] = v]
    BY <1>1, <1>3, <2>1 DEF RecType
  <2> QED BY <1>1, <2>3, <2>4
<1> QED BY <1>2, <1>3

LEMMA TerminateStep ==
  ASSUME TimerInv, NEW p \in Recs, Terminate(p)
  PROVE  TimerInv'
<1> DEFINE x == rec[p].exam
           stopped == [run[x] EXCEPT !.status = "terminated"]
<1>1. rec[p].pc # "idle" /\ x \in Exams /\ run[x] \in RunType /\ RunFacts(x)
      /\ UNCHANGED <<clock, sched, past>> /\ rec' = NextRound(p)
  BY TimersTyped DEF Terminate, TimerInv
<1>2. PICK v \in RecType :
        /\ rec' = [rec EXCEPT ![p] = v]
        /\ v.pc # "idle" => /\ v.rounds >= 1 /\ v.pc # "terminate"
                            /\ Names(v.revision, v.window, v.exam)
  BY <1>1, NextRoundIs
<1>3. CASE SeenRun(p)
  <2>1. run' = [run EXCEPT ![x] = stopped] /\ run[x].status = "running"
    BY <1>3, TimersTyped DEF Terminate, SeenRun
  <2>2. stopped \in RunType /\ stopped.revision = run[x].revision /\ stopped.window = run[x].window
    BY <1>1 DEF RunType
  <2> HIDE DEF stopped
  <2> QED BY <1>1, <1>2, <2>1, <2>2, RunMoves DEF RunFacts
<1>4. CASE ~SeenRun(p)
  <2>1. run' = [run EXCEPT ![x] = run[x]]
    BY <1>4, TimersTyped DEF Terminate
  <2> QED BY <1>1, <1>2, <2>1, RunMoves DEF RunFacts
<1> QED BY <1>3, <1>4

LEMMA StartRunStep ==
  ASSUME TimerInv, NEW p \in Recs, StartRun(p)
  PROVE  TimerInv'
<1> DEFINE x == rec[p].exam
           started == [status |-> "running", revision |-> rec[p].revision, window |-> rec[p].window]
<1>1. rec[p].pc = "start" /\ rec[p] \in RecType /\ x \in Exams /\ run[x] \in RunType /\ RunFacts(x)
      /\ UNCHANGED <<clock, sched, past>> /\ rec' = NextRound(p)
  BY TimersTyped DEF StartRun, TimerInv
<1>2. PICK v \in RecType :
        /\ rec' = [rec EXCEPT ![p] = v]
        /\ v.pc # "idle" => /\ v.rounds >= 1 /\ v.pc # "terminate"
                            /\ Names(v.revision, v.window, v.exam)
  BY <1>1, NextRoundIs
<1>3. CASE run[x].status = "running"
  <2>1. run' = [run EXCEPT ![x] = run[x]]
    BY <1>3, TimersTyped DEF StartRun
  <2> QED BY <1>1, <1>2, <2>1, RunMoves DEF RunFacts
<1>4. CASE run[x].status # "running"
  <2>1. run' = [run EXCEPT ![x] = started]
    BY <1>4 DEF StartRun
  <2>2. started \in RunType /\ started.revision = rec[p].revision /\ started.window = rec[p].window
    BY <1>1 DEF RunType, RecType
  <2>3. Names(rec[p].revision, rec[p].window, x)
    BY <1>1 DEF TimerInv, RecFacts
  <2> HIDE DEF started
  <2> QED BY <1>1, <1>2, <2>1, <2>2, <2>3, RunMoves DEF Names
<1> QED BY <1>3, <1>4

(* The workflow of an exam ends, and nobody else notices. *)
LEMMA RunEnds ==
  ASSUME TimerInv, NEW x \in Exams, NEW status \in {"completed", "failed"},
         run[x].status = "running",
         run' = [run EXCEPT ![x].status = status], UNCHANGED <<clock, sched, past, rec>>
  PROVE  TimerInv'
<1> DEFINE over == [run[x] EXCEPT !.status = status]
<1>1. run[x] \in RunType /\ RunFacts(x)
  BY TimersTyped DEF TimerInv
<1>2. over \in RunType /\ over.revision = run[x].revision /\ over.window = run[x].window
  BY <1>1 DEF RunType
<1>3. run' = [run EXCEPT ![x] = over]
  OBVIOUS
<1> HIDE DEF over
<1> QED BY <1>1, <1>2, <1>3, RunMoves DEF RunFacts

LEMMA TickStep ==
  ASSUME TimerInv, Tick
  PROVE  TimerInv'
<1>1. clock' \in 0 .. MaxTime /\ UNCHANGED <<sched, past, run, rec>>
  BY TimersTyped, TimerAssumption DEF Tick
<1>2. TimerTypeOK'
  BY <1>1, TimersTyped DEF TimerTypeOK, RunType, RecType
<1> QED BY <1>1, <1>2 DEF TimerInv, RunFacts, RecFacts, Names

LEMMA TimersKept ==
  ASSUME TimerInv, UNCHANGED timerVars
  PROVE  TimerInv'
  BY DEF timerVars, TimerInv, TimerTypeOK, RunFacts, RecFacts, Names

LEMMA TimerSteps ==
  ASSUME TimerInv, TimerStep
  PROVE  TimerInv'
<1>1. CASE \E x \in Exams, w \in Windows : Reschedule(x, w)
  BY <1>1, RescheduleStep
<1>2. CASE \E x \in Exams, p \in Recs : Ensure(p, x)
  BY <1>2, EnsureStep
<1>3. CASE \E x \in Exams : RunFails(x)
  BY <1>3, RunEnds DEF RunFails
<1>4. CASE \E p \in Recs : RecStep(p)
  BY <1>4, DescribeStep, TerminateStep, StartRunStep DEF RecStep
<1>5. CASE \E p \in Recs : RecFails(p)
  BY <1>5, IdleRecIs, RecMoves DEF RecFails
<1>6. CASE Tick
  BY <1>6, TickStep
<1> QED BY <1>1, <1>2, <1>3, <1>4, <1>5, <1>6 DEF TimerStep

-----------------------------------------------------------------------------
(* The sessions. *)

LEMMA SessionStates ==
  /\ NoSession \in SessionType /\ ActiveSession \in SessionType
  /\ NoSession.state = "none" /\ NoSession.reason = "null"
  /\ ActiveSession.state = "active"
  /\ \A reason \in {"null", "submitted", "time_up", "released_by_instructor"} :
       /\ Closed(reason) \in SessionType
       /\ Closed(reason).state = "ended" /\ Closed(reason).reason = reason
  BY DEF SessionType, NoSession, ActiveSession, Closed

LEMMA NoEntryIs == NoEntry \in EntryType /\ NoEntry.pc = "idle"
  BY AnExamIs DEF NoEntry, EntryType

LEMMA InitSessions ==
  ASSUME Init
  PROVE  SessionInv
<1>1. SessionTypeOK
  BY NoEntryIs, SessionStates DEF Init, SessionTypeOK
<1>2. \A r \in Requests : EntryFacts(r)
  BY NoEntryIs DEF Init, EntryFacts
<1>3. \A x \in Exams : ~Active(x)
  BY SessionStates DEF Init, Active
<1> QED BY <1>1, <1>2, <1>3 DEF SessionInv, OneActiveSession, ActiveMeansTakingPart

(* An entry moves; sessions and participations do not. *)
LEMMA EntryMoves ==
  ASSUME SessionInv, UNCHANGED <<part, session, releasing>>, NEW r \in Requests, NEW next \in EntryType,
         entry' = [entry EXCEPT ![r] = next],
         next.pc = "locked" =>
           /\ LockFree
           /\ \A y \in Exams \ {next.exam} : ~Active(y)
           /\ part[next.exam] # "submitted"
  PROVE  SessionInv'
<1>1. entry' \in [Requests -> EntryType] /\ entry'[r] = next /\ \A q \in Requests : q # r => entry'[q] = entry[q]
  BY DEF SessionInv, SessionTypeOK
<1>2. SessionTypeOK'
  BY <1>1 DEF SessionInv, SessionTypeOK
<1>3. ASSUME NEW q \in Requests PROVE EntryFacts(q)'
  BY <1>1 DEF SessionInv, EntryFacts, LockFree, Active
<1>4. OneActiveSession' /\ ActiveMeansTakingPart'
  BY DEF SessionInv, OneActiveSession, ActiveMeansTakingPart, Active
<1> QED BY <1>2, <1>3, <1>4 DEF SessionInv

LEMMA ArriveStep ==
  ASSUME SessionInv, NEW r \in Requests, NEW x \in Exams, Arrive(r, x)
  PROVE  SessionInv'
<1> DEFINE next == [pc |-> "arrived", exam |-> x, wasActive |-> FALSE]
<1>1. next \in EntryType /\ next.pc # "locked"
  BY DEF EntryType
<1>2. entry' = [entry EXCEPT ![r] = next] /\ UNCHANGED <<part, session, releasing>>
  BY DEF Arrive
<1> HIDE DEF next
<1> QED BY <1>1, <1>2, EntryMoves

LEMMA LockStep ==
  ASSUME SessionInv, NEW r \in Requests, Lock(r)
  PROVE  SessionInv'
<1> DEFINE x == entry[r].exam
           next == [entry[r] EXCEPT !.pc = "locked", !.wasActive = Active(x)]
<1>1. entry[r] \in EntryType /\ x \in Exams /\ LockFree /\ UNCHANGED <<part, session, releasing>>
  BY DEF SessionInv, SessionTypeOK, EntryType, Lock
<1>2. CASE Admitted(x)
  <2>1. entry' = [entry EXCEPT ![r] = next]
    BY <1>2 DEF Lock
  <2>2. next.exam = x /\ next.pc = "locked" /\ next \in EntryType
    BY <1>1 DEF EntryType, Active
  <2>3. part[x] # "submitted" /\ \A y \in Exams \ {x} : ~Active(y)
    BY <1>2 DEF Admitted, HandedIn
  <2> HIDE DEF next
  <2> QED BY <1>1, <2>1, <2>2, <2>3, EntryMoves
<1>3. CASE ~Admitted(x)
  BY <1>1, <1>3, NoEntryIs, EntryMoves DEF Lock
<1> QED BY <1>2, <1>3

(* Only the entry that holds the lock makes a session active. *)
LEMMA EnterStep ==
  ASSUME SessionInv, NEW r \in Requests, Enter(r)
  PROVE  SessionInv'
<1> DEFINE x == entry[r].exam
<1>1. /\ entry[r] \in EntryType /\ x \in Exams /\ entry[r].pc = "locked" /\ EntryFacts(r)
      /\ part' = [part EXCEPT ![x] = Entered(x)]
      /\ entry' = [entry EXCEPT ![r] = NoEntry] /\ releasing' = releasing
      /\ session' = session \/ session' = [session EXCEPT ![x] = ActiveSession]
  BY DEF SessionInv, SessionTypeOK, EntryType, Enter
<1>2. part[x] \in {"none", "registered", "active"} /\ Entered(x) = "active"
  BY <1>1 DEF SessionInv, SessionTypeOK, EntryFacts, Entered
<1>3. part' \in [Exams -> {"none", "registered", "active", "submitted"}] /\ part'[x] = "active"
      /\ \A y \in Exams : y # x => part'[y] = part[y]
  BY <1>1, <1>2 DEF SessionInv, SessionTypeOK
<1>4. session' \in [Exams -> SessionType] /\ \A y \in Exams : y # x => session'[y] = session[y]
  BY <1>1, SessionStates DEF SessionInv, SessionTypeOK
<1>5. entry' \in [Requests -> EntryType] /\ \A q \in Requests : entry'[q].pc # "locked"
  <2>1. \A q \in Requests : entry'[q] = IF q = r THEN NoEntry ELSE entry[q]
    BY <1>1 DEF SessionInv, SessionTypeOK
  <2>2. entry' \in [Requests -> EntryType]
    BY <1>1, NoEntryIs DEF SessionInv, SessionTypeOK
  <2> QED BY <1>1, <2>1, <2>2, NoEntryIs DEF EntryFacts
<1>6. SessionTypeOK'
  BY <1>1, <1>3, <1>4, <1>5 DEF SessionInv, SessionTypeOK
<1>7. \A y \in Exams : y # x => ~Active(y)'
  BY <1>1, <1>4 DEF EntryFacts, Active
<1>8. OneActiveSession' /\ ActiveMeansTakingPart'
  BY <1>3, <1>7 DEF OneActiveSession, ActiveMeansTakingPart
<1> QED BY <1>5, <1>6, <1>8 DEF SessionInv, EntryFacts

(* A session is closed: nobody gets in by that. *)
LEMMA Leaves ==
  ASSUME SessionInv, NEW x \in Exams, NEW closed \in SessionType, closed.state # "active",
         session' = session \/ session' = [session EXCEPT ![x] = closed],
         UNCHANGED <<part, entry>>, releasing' \subseteq Exams
  PROVE  SessionInv'
<1>1. session' \in [Exams -> SessionType] /\ \A y \in Exams : session'[y] = session[y] \/ session'[y] = closed
  BY DEF SessionInv, SessionTypeOK
<1>2. SessionTypeOK'
  BY <1>1 DEF SessionInv, SessionTypeOK
<1>3. \A y \in Exams : Active(y)' => Active(y)
  BY <1>1 DEF Active
<1> QED BY <1>2, <1>3 DEF SessionInv, EntryFacts, OneActiveSession, ActiveMeansTakingPart

LEMMA HandInStep ==
  ASSUME SessionInv, NEW x \in Exams, HandIn(x)
  PROVE  SessionInv'
<1>1. /\ LockFree /\ session' = [session EXCEPT ![x] = Closed("submitted")]
      /\ part' = part \/ part' = [part EXCEPT ![x] = "submitted"]
      /\ UNCHANGED <<entry, releasing>>
  BY DEF HandIn
<1>2. session' \in [Exams -> SessionType] /\ ~Active(x)' /\ \A y \in Exams : y # x => session'[y] = session[y]
  BY <1>1, SessionStates DEF SessionInv, SessionTypeOK, Active
<1>3. part' \in [Exams -> {"none", "registered", "active", "submitted"}]
      /\ \A y \in Exams : y # x => part'[y] = part[y]
  BY <1>1 DEF SessionInv, SessionTypeOK
<1>4. SessionTypeOK'
  BY <1>1, <1>2, <1>3 DEF SessionInv, SessionTypeOK
<1>5. \A y \in Exams : Active(y)' => y # x /\ Active(y)
  BY <1>2 DEF Active
<1> QED BY <1>1, <1>3, <1>4, <1>5
        DEF SessionInv, EntryFacts, LockFree, OneActiveSession, ActiveMeansTakingPart

LEMMA ResetIpBindingStep ==
  ASSUME SessionInv, NEW x \in Exams, ResetIpBinding(x)
  PROVE  SessionInv'
<1>1. /\ LockFree /\ UNCHANGED <<entry, releasing>>
      /\ session' = session \/ session' = [session EXCEPT ![x] = Closed("null")]
      /\ part' = part \/ (part[x] = "none" /\ part' = [part EXCEPT ![x] = "registered"])
  BY DEF ResetIpBinding
<1>2. session' \in [Exams -> SessionType] /\ \A y \in Exams : Active(y)' => Active(y)
  <2>1. /\ session' \in [Exams -> SessionType]
        /\ \A y \in Exams : session'[y] = session[y] \/ session'[y] = Closed("null")
    BY <1>1, SessionStates DEF SessionInv, SessionTypeOK
  <2> QED BY <2>1, SessionStates DEF Active
<1>3. part' \in [Exams -> {"none", "registered", "active", "submitted"}]
      /\ \A y \in Exams : part[y] = "active" => part'[y] = "active"
  BY <1>1 DEF SessionInv, SessionTypeOK
<1>4. SessionTypeOK'
  BY <1>1, <1>2, <1>3 DEF SessionInv, SessionTypeOK
<1> QED BY <1>1, <1>2, <1>3, <1>4
        DEF SessionInv, EntryFacts, LockFree, OneActiveSession, ActiveMeansTakingPart

LEMMA SessionSteps ==
  ASSUME SessionInv,
         \/ UNCHANGED sessionVars
         \/ \E r \in Requests : \/ \E x \in Exams : Arrive(r, x)
                                \/ Lock(r) \/ Enter(r) \/ EntryFails(r)
         \/ \E x \in Exams : \/ HandIn(x) \/ ReleaseReads(x) \/ ReleaseWrites(x)
                             \/ ResetIpBinding(x) \/ AutoClose(x)
  PROVE  SessionInv'
<1>1. CASE UNCHANGED sessionVars
  BY <1>1 DEF sessionVars, SessionInv, SessionTypeOK, EntryFacts, OneActiveSession,
              ActiveMeansTakingPart, Active
<1>2. CASE \E r \in Requests : (\E x \in Exams : Arrive(r, x)) \/ Lock(r) \/ Enter(r)
  BY <1>2, ArriveStep, LockStep, EnterStep
<1>3. CASE \E r \in Requests : EntryFails(r)
  BY <1>3, NoEntryIs, EntryMoves DEF EntryFails
<1>4. CASE \E x \in Exams : HandIn(x) \/ ResetIpBinding(x)
  BY <1>4, HandInStep, ResetIpBindingStep
<1>5. CASE \E x \in Exams : ReleaseReads(x) \/ ReleaseWrites(x)
  <2>1. PICK x \in Exams : ReleaseReads(x) \/ ReleaseWrites(x)
    BY <1>5
  <2>2. releasing' \subseteq Exams /\ UNCHANGED <<part, entry>>
        /\ (session' = session \/ session' = [session EXCEPT ![x] = Closed("released_by_instructor")])
    BY <2>1 DEF ReleaseReads, ReleaseWrites, SessionInv, SessionTypeOK
  <2> QED BY <2>2, SessionStates, Leaves
<1>6. CASE \E x \in Exams : AutoClose(x)
  <2>1. PICK x \in Exams : AutoClose(x)
    BY <1>6
  <2>2. releasing' \subseteq Exams /\ UNCHANGED <<part, entry>>
        /\ (session' = session \/ session' = [session EXCEPT ![x] = Closed("time_up")])
    BY <2>1 DEF AutoClose, SessionInv, SessionTypeOK
  <2> QED BY <2>2, SessionStates, Leaves
<1> QED BY <1>1, <1>2, <1>3, <1>4, <1>5, <1>6

-----------------------------------------------------------------------------
LEMMA NextStep ==
  ASSUME IInv, [Next]_vars
  PROVE  IInv'
<1>1. CASE UNCHANGED vars
  BY <1>1, TimersKept, SessionSteps DEF vars, IInv, sessionVars
<1>2. CASE TimerStep /\ UNCHANGED sessionVars
  BY <1>2, TimerSteps, SessionSteps DEF IInv
<1>3. CASE \E r \in Requests : (\E x \in Exams : Arrive(r, x)) \/ Lock(r) \/ Enter(r) \/ EntryFails(r)
  <2>1. UNCHANGED timerVars
    BY <1>3 DEF Arrive, Lock, Enter, EntryFails
  <2> QED BY <1>3, <2>1, TimersKept, SessionSteps DEF IInv
<1>4. CASE \E x \in Exams : HandIn(x) \/ ReleaseReads(x) \/ ReleaseWrites(x) \/ ResetIpBinding(x)
  <2>1. UNCHANGED timerVars
    BY <1>4 DEF HandIn, ReleaseReads, ReleaseWrites, ResetIpBinding
  <2> QED BY <1>4, <2>1, TimersKept, SessionSteps DEF IInv
<1>5. CASE \E x \in Exams : AutoClose(x)
  <2>1. TimerInv'
    BY <1>5, RunEnds DEF AutoClose, Fires, Due, IInv
  <2> QED BY <1>5, <2>1, SessionSteps DEF IInv
<1> QED BY <1>1, <1>2, <1>3, <1>4, <1>5 DEF Next

LEMMA AlwaysIInv == Spec => []IInv
<1>1. Init => IInv
  BY InitTimers, InitSessions DEF Init, IInv
<1>2. IInv /\ [Next]_vars => IInv'
  BY NextStep
<1> QED BY <1>1, <1>2, PTL DEF Spec

(* Schedules, timers, reconciliations, sessions and entries stay in their    *)
(* types.                                                                    *)
THEOREM TypeCorrect == Spec => []TypeOK
<1>1. IInv => TypeOK
  BY DEF IInv, TimerInv, SessionInv, SessionTypeOK, TypeOK, SessionType, EntryType
<1> QED BY AlwaysIInv, <1>1, PTL

(* However many requests race, in however many exams: one active session.    *)
THEOREM SessionsExclude == Spec => []OneActiveSession
<1>1. IInv => OneActiveSession
  BY DEF IInv, SessionInv
<1> QED BY AlwaysIInv, <1>1, PTL

(* A hand-in is final, whatever a late release or reset writes.              *)
THEOREM HandInIsFinal == Spec => []ActiveMeansTakingPart
<1>1. IInv => ActiveMeansTakingPart
  BY DEF IInv, SessionInv
<1> QED BY AlwaysIInv, <1>1, PTL

(* Only a reconciliation that has read a newer schedule terminates a timer.  *)
LEMMA TerminatesOlder ==
  ASSUME TimerInv, NEW x \in Exams, run[x].status = "running",
         run[x].revision = sched[x].revision, [Next]_vars
  PROVE  run'[x].status # "terminated"
<1>1. run[x] \in RunType
  BY TimersTyped
<1>2. CASE run'[x] = run[x]
  BY <1>2
<1>3. ASSUME NEW p \in Recs, Terminate(p)
      PROVE  run'[x] = run[x]
  <2>1. CASE SeenRun(p) /\ rec[p].exam = x
    BY <1>3, <2>1, TimersTyped DEF TimerInv, RecFacts, SeenRun, Terminate
  <2>2. CASE ~(SeenRun(p) /\ rec[p].exam = x)
    BY <1>3, <2>2, TimersTyped DEF Terminate
  <2> QED BY <2>1, <2>2
<1>4. ASSUME NEW p \in Recs, StartRun(p)
      PROVE  run'[x].status # "terminated"
  <2>1. CASE rec[p].exam = x
    BY <1>4, <2>1, TimersTyped DEF StartRun
  <2>2. CASE rec[p].exam # x
    BY <1>4, <2>2, TimersTyped DEF StartRun
  <2> QED BY <2>1, <2>2
<1>5. ASSUME NEW y \in Exams, Fires(y) \/ RunFails(y)
      PROVE  run'[x].status # "terminated"
  <2>1. run'[x].status \in {run[x].status, "completed", "failed"}
    <3>1. run' = [run EXCEPT ![y].status = "completed"] \/ run' = [run EXCEPT ![y].status = "failed"]
      BY <1>5 DEF Fires, RunFails
    <3>2. CASE y = x
      BY <1>1, <3>1, <3>2, TimersTyped DEF RunType
    <3>3. CASE y # x
      BY <3>1, <3>3, TimersTyped
    <3> QED BY <3>2, <3>3
  <2> QED BY <2>1
<1>6. CASE TimerStep
  <2>1. CASE \E y \in Exams : RunFails(y)
    BY <1>5, <2>1
  <2>2. CASE \E p \in Recs : Terminate(p) \/ StartRun(p)
    BY <1>3, <1>4, <2>2
  <2>3. CASE \/ \E y \in Exams, w \in Windows : Reschedule(y, w)
             \/ \E y \in Exams, p \in Recs : Ensure(p, y)
             \/ \E p \in Recs : Describe(p) \/ RecFails(p)
             \/ Tick
    BY <2>3 DEF Reschedule, Ensure, Describe, RecFails, Tick
  <2> QED BY <1>6, <2>1, <2>2, <2>3 DEF TimerStep, RecStep
<1>7. CASE \E y \in Exams : AutoClose(y)
  BY <1>5, <1>7 DEF AutoClose
<1>8. CASE \/ UNCHANGED vars
           \/ \E r \in Requests : (\E y \in Exams : Arrive(r, y)) \/ Lock(r) \/ Enter(r) \/ EntryFails(r)
           \/ \E y \in Exams : HandIn(y) \/ ReleaseReads(y) \/ ReleaseWrites(y) \/ ResetIpBinding(y)
  <2>1. run' = run
    BY <1>8 DEF vars, timerVars, Arrive, Lock, Enter, EntryFails, HandIn, ReleaseReads,
                ReleaseWrites, ResetIpBinding
  <2> QED BY <2>1
<1> QED BY <1>6, <1>7, <1>8 DEF Next

(* The timer of the schedule as it is now is terminated by nobody, however   *)
(* many reconciliations replace each other's runs.                           *)
THEOREM CurrentTimerIsSpared == Spec => CurrentTimerSurvives
<1>1. IInv /\ [Next]_vars =>
        [\A x \in Exams : run[x].status = "running" /\ run[x].revision = sched[x].revision
                            => run'[x].status # "terminated"]_timerVars
  BY TerminatesOlder DEF IInv
<1> QED BY AlwaysIInv, <1>1, PTL DEF Spec, CurrentTimerSurvives

(* Nobody's time is up before the end of the schedule, as it is then.        *)
THEOREM NobodyIsClosedEarly == Spec => NotClosedEarly
<1>1. ASSUME IInv, Next, NEW x \in Exams, Active(x), session'[x] = Closed("time_up")
      PROVE  Ended(x)
  <2>1. session'[x] # session[x]
    BY <1>1, SessionStates DEF Active
  <2>2. PICK y \in Exams : HandIn(y) \/ ReleaseReads(y) \/ ReleaseWrites(y) \/ ResetIpBinding(y) \/ AutoClose(y)
    <3>1. ASSUME NEW r \in Requests, Enter(r)
          PROVE  session'[x] # Closed("time_up")
      <4>1. session'[x] = session[x] \/ session'[x] = ActiveSession
        BY <3>1 DEF Enter, IInv, SessionInv, SessionTypeOK
      <4> QED BY <2>1, <4>1, SessionStates
    <3> QED BY <1>1, <2>1, <3>1 DEF Next, sessionVars, Arrive, Lock, EntryFails
  <2>3. y = x /\ AutoClose(x)
    <3>1. Closed("time_up") \notin {Closed("submitted"), Closed("null"), Closed("released_by_instructor")}
      BY SessionStates
    <3> QED BY <1>1, <2>1, <2>2, <3>1
            DEF HandIn, ReleaseReads, ReleaseWrites, ResetIpBinding, AutoClose, IInv, SessionInv, SessionTypeOK
  <2>4. IsCurrent(x)
    BY <2>1, <2>3 DEF AutoClose
  <2> QED BY <2>4 DEF IsCurrent
<1>2. IInv /\ [Next]_vars =>
        [\A x \in Exams : Active(x) /\ session'[x] = Closed("time_up") => Ended(x)]_vars
  BY <1>1
<1> QED BY AlwaysIInv, <1>2, PTL DEF Spec, NotClosedEarly
=============================================================================
