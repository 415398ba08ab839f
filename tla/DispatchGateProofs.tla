-------------------------- MODULE DispatchGateProofs --------------------------
(***************************************************************************)
(* The gate lets the work of a student through one at a time and in order, *)
(* but for executions that become visible late, for any number of          *)
(* executions, gate runs and recovery epochs.                              *)
(***************************************************************************)
EXTENDS DispatchGate, SequenceTheorems, TLAPS

ExecType == [state : {"absent", "open", "ended"}, class : Classes, rejudge : BOOLEAN,
             epoch : 0 .. MaxEpochs]
RunType == [pc : {"idle", "read", "check", "start"}, exec : 0 .. N, epoch : 0 .. MaxEpochs,
            class : Classes, outbox : BOOLEAN, missed : SUBSET Execs]

Exists(e) == exec[e].state # "absent"

(* A rejudge is background work from the start, and a submission only after  *)
(* it was started once.                                                      *)
ExecFacts(e) ==
  /\ ~Exists(e) => wf[e] = "none"
  /\ Exists(e) /\ exec[e].rejudge => exec[e].class = "background"
  /\ Open(e) /\ ~exec[e].rejudge /\ exec[e].class = "background" => MayHoldLease(e)

(* Nothing older that a gate run of e could see goes before e. *)
Clear(e, m) ==
  \A x \in 1 .. e - 1 : x \notin m =>
    /\ Exists(x)
    /\ Open(x) => exec[x].class = "background" /\ ~exec[e].rejudge

(* What a gate run has found stays so until it starts the workflow. *)
GateFacts(g) ==
  gate[g].pc # "idle" =>
    /\ gate[g].exec \in Execs /\ Exists(gate[g].exec)
    /\ gate[g].pc # "read" /\ exec[gate[g].exec].rejudge => gate[g].class = "background"
    /\ gate[g].pc = "start" => Clear(gate[g].exec, gate[g].missed)

Alike(x, e) == \/ exec[x].class = "foreground" /\ exec[e].class = "foreground"
               \/ exec[x].rejudge /\ exec[e].rejudge

(* What was started has nothing older of its kind before it, but what was missed. *)
StartFacts(e) ==
  Open(e) /\ wf[e] # "none" =>
    \A x \in 1 .. e - 1 : x \notin missed[e] => Exists(x) /\ (Open(x) => ~Alike(x, e))

(* A row of the outbox is about work that was accepted. *)
RowFacts(e) == row[e] # "none" => Exists(e)

IInv ==
  /\ TypeOK
  /\ \A e \in Execs : RowFacts(e)
  /\ \A e \in Execs : ExecFacts(e) /\ StartFacts(e)
  /\ \A g \in Gates : GateFacts(g)

-----------------------------------------------------------------------------
(* The order of nextAttemptAt. *)

LEMMA Older ==
  ASSUME NEW e \in Execs
  PROVE  \A x \in 1 .. e - 1 : x \in Execs /\ x \in Execs \ {e} /\ x < e
  BY GateAssumption DEF Execs

LEMMA WithoutIs ==
  ASSUME NEW s \in Seq(Execs), NEW e \in Execs
  PROVE  Without(s, e) \in Seq(Execs)
<1>1. CASE \E i \in 1 .. Len(s) : s[i] = e
  <2> DEFINE n == Position(s, e)
             front == SubSeq(s, 1, n - 1)
             rest == SubSeq(s, n + 1, Len(s))
  <2>1. n \in 1 .. Len(s)
    BY <1>1 DEF Position
  <2>2. Without(s, e) = front \o rest
    BY <1>1 DEF Without
  <2> HIDE DEF n
  <2>3. front \in Seq(Execs) /\ rest \in Seq(Execs)
    BY <2>1
  <2> HIDE DEF front, rest
  <2> QED BY <2>2, <2>3, ConcatProperties
<1>2. CASE ~\E i \in 1 .. Len(s) : s[i] = e
  BY <1>2 DEF Without
<1> QED BY <1>1, <1>2

LEMMA LaterIs ==
  ASSUME NEW s \in Seq(Execs), NEW e \in Execs
  PROVE  Later(s, e) \in Seq(Execs)
  BY WithoutIs, AppendProperties DEF Later

LEMMA InsertNowIs ==
  ASSUME NEW s \in Seq(Execs), NEW e \in Execs, NEW i \in 0 .. Len(s)
  PROVE  InsertNow(s, e, i) \in Seq(Execs)
<1> DEFINE front == SubSeq(s, 1, i)
           rest == SubSeq(s, i + 1, Len(s))
           one == <<e>>
<1>1. front \in Seq(Execs) /\ rest \in Seq(Execs) /\ one \in Seq(Execs)
  OBVIOUS
<1>2. InsertNow(s, e, i) = (front \o one) \o rest
  BY DEF InsertNow
<1> HIDE DEF front, rest, one
<1>3. front \o one \in Seq(Execs)
  BY <1>1, ConcatProperties
<1> QED BY <1>1, <1>2, <1>3, ConcatProperties

-----------------------------------------------------------------------------
(* Types and frames. *)

LEMMA Typed ==
  ASSUME TypeOK
  PROVE  /\ exec \in [Execs -> ExecType]
         /\ wf \in [Execs -> {"none", "running", "closed"}]
         /\ row \in [Execs -> {"none", "pending", "leased", "ended"}]
         /\ due \in Seq(Execs)
         /\ gate \in [Gates -> RunType]
         /\ wake \in Classes \cup {"none"}
         /\ missed \in [Execs -> SUBSET Execs]
         /\ \A e \in Execs : exec[e] \in ExecType /\ exec[e].class \in {"foreground", "background"}
         /\ Execs \subseteq Nat /\ 0 \in 0 .. MaxEpochs
<1>1. /\ exec \in [Execs -> ExecType]
      /\ wf \in [Execs -> {"none", "running", "closed"}]
      /\ row \in [Execs -> {"none", "pending", "leased", "ended"}]
      /\ due \in Seq(Execs)
      /\ gate \in [Gates -> RunType]
      /\ wake \in Classes \cup {"none"}
      /\ missed \in [Execs -> SUBSET Execs]
  BY DEF TypeOK, ExecType, RunType
<1>2. Execs \subseteq Nat /\ 0 \in 0 .. MaxEpochs
  BY GateAssumption DEF Execs
<1> QED BY <1>1, <1>2 DEF ExecType, Classes

(* Work that was accepted stays what it is and never moves to the front.     *)
Steady ==
  \A e \in Execs : Exists(e) =>
    /\ Exists(e)' /\ (Open(e)' => Open(e))
    /\ exec'[e].rejudge => exec[e].rejudge
    /\ exec'[e].class = "foreground" => exec[e].class = "foreground"

(* Rows are created with an execution or for one that is there. *)
RowsKept == \A e \in Execs : row'[e] = "none" \/ row[e] # "none" \/ Exists(e)'

(* What was missed is forgotten only when it has ended. *)
MissedKept(e) ==
  Open(e)' => \A x \in Execs : x \in missed[e] /\ x \notin missed'[e] => Exists(x)' /\ ~Open(x)'

(* Whatever changed besides: gate runs that did not move know what they knew,*)
(* and so do executions that were started before.                            *)
LEMMA Frame ==
  ASSUME IInv, TypeOK', Steady, RowsKept, \A e \in Execs : ExecFacts(e)',
         \A e \in Execs : \/ wf'[e] = "none" \/ StartFacts(e)'
                          \/ wf[e] # "none" /\ MissedKept(e),
         \A g \in Gates : gate'[g] = gate[g] \/ GateFacts(g)'
  PROVE  IInv'
<1>1. \A x \in Execs : Exists(x) => Exists(x)' /\ (Open(x)' => Open(x))
  BY DEF Steady
<1>2. ASSUME NEW e \in Execs
      PROVE  StartFacts(e)'
  <2>1. CASE wf[e] # "none" /\ MissedKept(e)
    <3> SUFFICES ASSUME Open(e)', NEW x \in 1 .. e - 1, x \notin missed'[e]
                 PROVE  Exists(x)' /\ (Open(x)' => ~Alike(x, e)')
      BY DEF StartFacts
    <3>1. x \in Execs /\ Exists(e) /\ Open(e)
      BY <2>1, Older DEF IInv, ExecFacts, Steady
    <3>2. CASE x \in missed[e]
      BY <2>1, <3>1, <3>2 DEF MissedKept
    <3>3. CASE x \notin missed[e]
      <4>1. Exists(x) /\ (Open(x) => ~Alike(x, e))
        BY <2>1, <3>1, <3>3 DEF IInv, StartFacts
      <4> QED BY <1>1, <3>1, <4>1 DEF Alike, Steady
    <3> QED BY <3>2, <3>3
  <2>2. CASE wf'[e] = "none"
    BY <2>2 DEF StartFacts
  <2> QED BY <2>1, <2>2
<1>3. ASSUME NEW g \in Gates, gate'[g] = gate[g]
      PROVE  GateFacts(g)'
  <2> SUFFICES ASSUME gate[g].pc # "idle"
               PROVE  GateFacts(g)'
    BY <1>3 DEF GateFacts
  <2>1. PICK e \in Execs : e = gate[g].exec /\ Exists(e) /\ GateFacts(g)
    BY DEF IInv, GateFacts
  <2>2. Exists(e)' /\ (exec'[e].rejudge => exec[e].rejudge)
    BY <2>1 DEF Steady
  <2>3. ASSUME gate[g].pc = "start", NEW x \in 1 .. e - 1, x \notin gate[g].missed
        PROVE  /\ Exists(x)'
               /\ Open(x)' => exec'[x].class = "background" /\ ~exec'[e].rejudge
    <3>1. x \in Execs
      BY Older
    <3>2. Exists(x) /\ (Open(x) => exec[x].class = "background" /\ ~exec[e].rejudge)
      BY <2>1, <2>3, <3>1 DEF GateFacts, Clear
    <3>3. exec'[x].class \in {"foreground", "background"}
      BY <3>1 DEF TypeOK, Classes
    <3> QED BY <1>1, <2>2, <3>1, <3>2, <3>3 DEF Steady
  <2> QED BY <1>3, <2>1, <2>2, <2>3 DEF GateFacts, Clear
<1>4. \A e \in Execs : RowFacts(e)'
  BY DEF IInv, RowFacts, RowsKept, Steady
<1> QED BY <1>2, <1>3, <1>4 DEF IInv

(* No execution changes. *)
LEMMA ExecsKept ==
  ASSUME IInv, exec' = exec
  PROVE  /\ Steady
         /\ \A e \in Execs : (wf'[e] = "none" <=> wf[e] = "none") => ExecFacts(e)'
         /\ \A e \in Execs : wf[e] = "none" /\ Exists(e) => ExecFacts(e)'
<1>1. Steady
  BY DEF Steady, Exists, Open
<1>2. ASSUME NEW e \in Execs, wf'[e] = "none" <=> wf[e] = "none"
      PROVE  ExecFacts(e)'
  BY <1>2 DEF IInv, ExecFacts, Exists, Open, MayHoldLease
<1>3. ASSUME NEW e \in Execs, wf[e] = "none", Exists(e)
      PROVE  ExecFacts(e)'
  BY <1>3 DEF IInv, ExecFacts, Exists, Open, MayHoldLease
<1> QED BY <1>1, <1>2, <1>3

(* Only rows of the outbox, the page order and gate runs change. *)
LEMMA GateMoves ==
  ASSUME IInv, exec' = exec, wf' = wf, missed' = missed, TypeOK', RowsKept,
         \A g \in Gates : gate'[g] = gate[g] \/ GateFacts(g)'
  PROVE  IInv'
<1>1. \A e \in Execs : wf'[e] = "none" \/ (wf[e] # "none" /\ MissedKept(e))
  BY DEF MissedKept
<1> QED BY <1>1, ExecsKept, Frame

LEMMA GateRunIs ==
  ASSUME NEW e \in Execs, NEW n \in 0 .. MaxEpochs, NEW outbox \in BOOLEAN
  PROVE  LET v == GateRun(e, n, outbox) IN v \in RunType /\ v.exec = e /\ v.pc = "read"
<1>1. e \in 0 .. N
  BY GateAssumption DEF Execs
<1> QED BY <1>1 DEF GateRun, RunType, Classes

LEMMA IdleIs == Idle \in RunType /\ Idle.pc = "idle"
  BY GateAssumption DEF Idle, RunType, Classes

LEMMA EndedIs ==
  ASSUME TypeOK, NEW e \in Execs
  PROVE  /\ Ended(e) \in ExecType /\ Ended(e).state = "ended" /\ ~Ended(e).rejudge
         /\ Ended(e).class = "background"
  BY Typed DEF Ended, ExecType, Classes

LEMMA ForgetIs ==
  ASSUME TypeOK, NEW e \in Execs
  PROVE  /\ Forget(e) \in [Execs -> SUBSET Execs]
         /\ \A x, y \in Execs : y \in missed[x] /\ y \notin Forget(e)[x] => e \in {x, y}
<1>1. \A x \in Execs : Forget(e)[x] = IF x = e THEN {} ELSE missed[x] \ {e}
  BY DEF Forget
<1>2. Forget(e) \in [Execs -> SUBSET Execs]
  BY Typed DEF Forget
<1> QED BY <1>1, <1>2

LEMMA InitIInv == Init => IInv
<1> SUFFICES ASSUME Init PROVE IInv
  OBVIOUS
<1>1. TypeOK
  BY IdleIs, GateAssumption DEF Init, TypeOK, RunType, Classes
<1>2. \A e \in Execs : ExecFacts(e) /\ StartFacts(e)
  BY DEF Init, ExecFacts, StartFacts, Exists, Open
<1>3. \A g \in Gates : GateFacts(g)
  BY IdleIs DEF Init, GateFacts
<1>4. \A e \in Execs : RowFacts(e)
  BY DEF Init, RowFacts
<1> QED BY <1>1, <1>2, <1>3, <1>4 DEF IInv

-----------------------------------------------------------------------------
(* Acceptance and the end of executions. *)

(* Nobody knows anything of the new execution. *)
LEMMA AcceptStep ==
  ASSUME IInv, NEW e \in Execs, NEW old \in Execs, NEW rejudge \in BOOLEAN,
         Accept(e, rejudge, old)
  PROVE  IInv'
<1> DEFINE new == [state |-> "open", epoch |-> 0, rejudge |-> rejudge,
                   class |-> IF rejudge THEN "background" ELSE "foreground"]
           first == GateRun(e, 0, FALSE)
<1>1. /\ exec[e].state = "absent" /\ wf' = wf /\ wake' = wake
      /\ row' = [row EXCEPT ![e] = "pending"]
      /\ exec' = [exec EXCEPT ![old] = Ended(old), ![e] = new]
      /\ gate' = gate \/ \E g \in Gates : gate' = [gate EXCEPT ![g] = first]
  BY DEF Accept, Exists
<1>2. TypeOK
  BY DEF IInv
<1>3. new \in ExecType /\ new.state = "open" /\ new.rejudge = rejudge
      /\ (rejudge => new.class = "background") /\ (~rejudge => new.class = "foreground")
  BY <1>2, Typed DEF ExecType, Classes
<1>4. first \in RunType /\ first.pc = "read" /\ first.exec = e
  BY <1>2, Typed, GateRunIs
<1> HIDE DEF new, first
<1>5. /\ exec' \in [Execs -> ExecType] /\ exec'[e] = new
      /\ \A x \in Execs : x # e => exec'[x] = IF x = old THEN Ended(old) ELSE exec[x]
  BY <1>1, <1>2, <1>3, Typed, EndedIs
<1>6. due' \in Seq(Execs)
  BY <1>2, Typed, WithoutIs, InsertNowIs DEF Accept
<1>15. /\ missed' \in [Execs -> SUBSET Execs]
       /\ \A x, y \in Execs : y \in missed[x] /\ y \notin missed'[x] => old # e /\ old \in {x, y}
  BY <1>2, Typed, ForgetIs DEF Accept
<1>7. gate' \in [Gates -> RunType] /\ \A g \in Gates : gate'[g] = gate[g] \/ gate'[g] = first
  BY <1>1, <1>2, <1>4, Typed
<1>8. TypeOK'
  BY <1>1, <1>2, <1>5, <1>6, <1>7, <1>15, Typed DEF TypeOK, ExecType, RunType
<1>9. /\ old # e => exec[old].state = "open" /\ exec'[old] = Ended(old)
      /\ Ended(old).state = "ended" /\ ~Ended(old).rejudge /\ Ended(old).class = "background"
  BY <1>2, <1>5, EndedIs DEF Accept, Open
<1>10. Steady
  BY <1>1, <1>5, <1>9 DEF Steady, Exists, Open
<1>11. \A x \in Execs : Exists(x)' <=> Exists(x) \/ x = e
  BY <1>1, <1>3, <1>5, <1>9 DEF Exists
<1>16. \A x \in Execs : MissedKept(x)
  BY <1>9, <1>15 DEF MissedKept, Exists, Open
<1>12. ASSUME NEW x \in Execs PROVE ExecFacts(x)'
  <2>1. CASE x = e
    BY <1>1, <1>3, <1>5, <1>11, <2>1 DEF ExecFacts, Open, IInv, Exists
  <2>2. CASE x = old /\ x # e
    BY <1>1, <1>9, <2>2 DEF ExecFacts, Open, Exists
  <2>3. CASE x # old /\ x # e
    BY <1>1, <1>5, <2>3 DEF ExecFacts, IInv, Open, Exists, MayHoldLease
  <2> QED BY <2>1, <2>2, <2>3
<1>13. ASSUME NEW g \in Gates PROVE gate'[g] = gate[g] \/ GateFacts(g)'
  BY <1>4, <1>7, <1>11 DEF GateFacts
<1>14. RowsKept
  BY <1>1, <1>2, <1>11, Typed DEF RowsKept
<1> QED BY <1>1, <1>8, <1>10, <1>12, <1>13, <1>14, <1>16, Frame

(* An execution ends, or moves to the background, or gets a new epoch. *)
LEMMA ExecChanges ==
  ASSUME IInv, NEW e \in Execs, Open(e), NEW new \in ExecType,
         exec' = [exec EXCEPT ![e] = new], new.state \in {"open", "ended"},
         new.rejudge => exec[e].rejudge,
         new.class = exec[e].class \/ new.class = "background",
         TypeOK', \A x \in Execs : x # e => wf'[x] = wf[x],
         wf'[e] # "none" => wf[e] # "none",
         new.state = "open" /\ new.class = "background" => wf'[e] # "none" \/ new.epoch > 0,
         \A g \in Gates : gate'[g] = gate[g],
         \A x \in Execs : x # e => row'[x] = row[x],
         \/ missed' = missed
         \/ missed' = Forget(e) /\ new.state = "ended"
  PROVE  IInv'
<1>1. exec'[e] = new /\ \A x \in Execs : x # e => exec'[x] = exec[x]
  BY Typed DEF IInv
<1>2. Steady
  BY <1>1, Typed DEF IInv, Steady, Exists, Open
<1>3. \A x \in Execs : Exists(x)' <=> Exists(x)
  BY <1>1 DEF Exists, Open
<1>4. ASSUME NEW x \in Execs PROVE ExecFacts(x)'
  <2>1. CASE x = e
    BY <1>1, <1>3, <2>1 DEF IInv, ExecFacts, Open, Exists, MayHoldLease
  <2>2. CASE x # e
    BY <1>1, <1>3, <2>2 DEF IInv, ExecFacts, Open, MayHoldLease
  <2> QED BY <2>1, <2>2
<1>5. \A x \in Execs : wf'[x] = "none" \/ (wf[x] # "none" /\ MissedKept(x))
  <2>1. \A x \in Execs : MissedKept(x)
    BY <1>1, ForgetIs DEF MissedKept, Exists, Open, IInv
  <2> QED BY <2>1
<1>6. RowsKept
  BY <1>3 DEF RowsKept, Exists, Open
<1> QED BY <1>2, <1>4, <1>5, <1>6, Frame

LEMMA FinishStep ==
  ASSUME IInv, NEW e \in Execs, Finish(e)
  PROVE  IInv'
<1> DEFINE new == Ended(e)
<1>1. TypeOK /\ Open(e) /\ wf[e] = "running"
  BY DEF IInv, Finish
<1>2. new \in ExecType /\ new.state = "ended" /\ ~new.rejudge /\ new.class = "background"
  BY <1>1, EndedIs
<1>3. /\ exec' = [exec EXCEPT ![e] = new] /\ wf' = [wf EXCEPT ![e] = "closed"]
      /\ due' = Without(due, e) /\ wake' = "foreground" /\ missed' = Forget(e) /\ UNCHANGED <<row, gate>>
  BY DEF Finish
<1> HIDE DEF new
<1>4. /\ exec' \in [Execs -> ExecType] /\ wf' \in [Execs -> {"none", "running", "closed"}]
      /\ due' \in Seq(Execs) /\ \A x \in Execs : x # e => wf'[x] = wf[x]
  BY <1>1, <1>2, <1>3, Typed, WithoutIs
<1>6. missed' \in [Execs -> SUBSET Execs]
  BY <1>1, <1>3, ForgetIs
<1>5. TypeOK'
  BY <1>1, <1>3, <1>4, <1>6 DEF TypeOK, ExecType, RunType, Classes
<1> QED BY <1>1, <1>2, <1>3, <1>4, <1>5, ExecChanges

LEMMA CancelStep ==
  ASSUME IInv, NEW e \in Execs, Cancel(e)
  PROVE  IInv'
<1> DEFINE new == Ended(e)
<1>1. TypeOK /\ Open(e)
  BY DEF IInv, Cancel
<1>2. new \in ExecType /\ new.state = "ended" /\ ~new.rejudge /\ new.class = "background"
  BY <1>1, EndedIs
<1>3. /\ exec' = [exec EXCEPT ![e] = new] /\ wake' = "foreground" /\ due' = Without(due, e)
      /\ missed' = Forget(e) /\ UNCHANGED <<wf, row, gate>>
  BY DEF Cancel
<1> HIDE DEF new
<1>4. exec' \in [Execs -> ExecType] /\ due' \in Seq(Execs)
  BY <1>1, <1>2, <1>3, Typed, WithoutIs
<1>6. missed' \in [Execs -> SUBSET Execs]
  BY <1>1, <1>3, ForgetIs
<1>5. TypeOK'
  BY <1>1, <1>3, <1>4, <1>6 DEF TypeOK, ExecType, RunType, Classes
<1> QED BY <1>1, <1>2, <1>3, <1>4, <1>5, ExecChanges

LEMMA DemoteStep ==
  ASSUME IInv, NEW e \in Execs, Demote(e)
  PROVE  IInv'
<1> DEFINE new == [exec[e] EXCEPT !.class = "background"]
<1>1. TypeOK /\ Open(e) /\ wf[e] = "running"
  BY DEF IInv, Demote
<1>2. new \in ExecType /\ new.state = "open" /\ new.rejudge = exec[e].rejudge /\ new.class = "background"
  BY <1>1, Typed DEF ExecType, Classes, Open
<1>3. exec' = [exec EXCEPT ![e] = new] /\ due' = Later(due, e)
      /\ UNCHANGED <<wf, row, gate, wake, missed>>
  BY DEF Demote
<1> HIDE DEF new
<1>4. exec' \in [Execs -> ExecType] /\ due' \in Seq(Execs)
  BY <1>1, <1>2, <1>3, Typed, LaterIs
<1>5. TypeOK'
  BY <1>1, <1>3, <1>4 DEF TypeOK, ExecType, RunType
<1> QED BY <1>1, <1>2, <1>3, <1>4, <1>5, ExecChanges

LEMMA SweepClosedStep ==
  ASSUME IInv, NEW e \in Execs, SweepClosed(e)
  PROVE  IInv'
<1> DEFINE new == [exec[e] EXCEPT !.epoch = exec[e].epoch + 1, !.class = "background"]
<1>1. TypeOK /\ Open(e) /\ wf[e] = "closed" /\ exec[e].epoch + 1 \in 0 .. MaxEpochs /\ exec[e].epoch + 1 > 0
  <2>1. TypeOK /\ Open(e) /\ wf[e] = "closed" /\ exec[e].epoch < MaxEpochs
    BY DEF IInv, SweepClosed, Candidate
  <2> QED BY <2>1, Typed, GateAssumption DEF ExecType
<1>2. new \in ExecType /\ new.state = "open" /\ new.rejudge = exec[e].rejudge
      /\ new.class = "background" /\ new.epoch > 0
  BY <1>1, Typed DEF ExecType, Classes, Open
<1>3. /\ exec' = [exec EXCEPT ![e] = new] /\ wf' = [wf EXCEPT ![e] = "none"]
      /\ row' = [row EXCEPT ![e] = "pending"] /\ due' = Later(due, e)
      /\ UNCHANGED <<gate, wake, missed>>
  BY DEF SweepClosed
<1> HIDE DEF new
<1>4. /\ exec' \in [Execs -> ExecType] /\ due' \in Seq(Execs)
      /\ wf' \in [Execs -> {"none", "running", "closed"}]
      /\ row' \in [Execs -> {"none", "pending", "leased", "ended"}]
      /\ \A x \in Execs : x # e => wf'[x] = wf[x] /\ row'[x] = row[x]
  BY <1>1, <1>2, <1>3, Typed, LaterIs
<1>5. TypeOK'
  BY <1>1, <1>3, <1>4 DEF TypeOK, ExecType, RunType
<1>6. /\ new.state \in {"open", "ended"} /\ (new.rejudge => exec[e].rejudge)
      /\ wf'[e] # "none" => wf[e] # "none"
      /\ new.state = "open" /\ new.class = "background" => wf'[e] # "none" \/ new.epoch > 0
      /\ \A g \in Gates : gate'[g] = gate[g]
      /\ missed' = missed
  BY <1>1, <1>2, <1>3
<1> QED BY <1>1, <1>2, <1>3, <1>4, <1>5, <1>6, ExecChanges

(* Workflows die, wake-ups happen or are lost: what is started stays started. *)
LEMMA WorkflowDiesStep ==
  ASSUME IInv, NEW e \in Execs, WorkflowDies(e)
  PROVE  IInv'
<1>1. /\ TypeOK /\ wf[e] = "running" /\ wf' = [wf EXCEPT ![e] = "closed"]
      /\ UNCHANGED <<exec, row, due, gate, wake, missed>>
  BY DEF WorkflowDies, IInv
<1>2. wf' \in [Execs -> {"none", "running", "closed"}]
      /\ \A x \in Execs : wf'[x] = "none" <=> wf[x] = "none"
  BY <1>1, Typed
<1>3. TypeOK'
  BY <1>1, <1>2 DEF TypeOK
<1>4. RowsKept /\ \A x \in Execs : MissedKept(x)
  BY <1>1 DEF RowsKept, MissedKept
<1> QED BY <1>1, <1>2, <1>3, <1>4, ExecsKept, Frame

LEMMA EnqueuedIs ==
  ASSUME TypeOK, NEW e \in Execs
  PROVE  /\ Enqueued(e) \in [Execs -> {"none", "pending", "leased", "ended"}]
         /\ \A x \in Execs : Enqueued(e)[x] # "none" => row[x] # "none"
  BY Typed DEF Enqueued

LEMMA WakeNextStep ==
  ASSUME IInv, WakeNext
  PROVE  IInv'
<1>1. TypeOK /\ exec' = exec /\ wf' = wf /\ due' = due /\ missed' = missed
  BY DEF IInv, WakeNext
<1>2. wake' \in Classes \cup {"none"}
  BY DEF WakeNext, Following, Classes
<1>3. CASE UNCHANGED <<row, gate>>
  BY <1>1, <1>2, <1>3, GateMoves DEF TypeOK, RowsKept
<1>4. CASE \E x \in Execs : NextOf(wake, x) /\ row' = Enqueued(x) /\ DirectGate(x)
  <2>1. PICK x \in Execs : Open(x) /\ row' = Enqueued(x) /\ DirectGate(x)
    BY <1>4 DEF NextOf
  <2> DEFINE v == GateRun(x, exec[x].epoch, FALSE)
  <2>2. v \in RunType /\ v.pc = "read" /\ v.exec = x
    BY <1>1, Typed, GateRunIs DEF ExecType
  <2>3. gate' = gate \/ \E g \in Gates : gate' = [gate EXCEPT ![g] = v]
    BY <2>1 DEF DirectGate
  <2> HIDE DEF v
  <2>4. gate' \in [Gates -> RunType] /\ \A g \in Gates : gate'[g] = gate[g] \/ gate'[g] = v
    BY <1>1, <2>2, <2>3, Typed
  <2>5. TypeOK'
    BY <1>1, <1>2, <2>1, <2>4, EnqueuedIs DEF TypeOK, RunType
  <2>6. ASSUME NEW g \in Gates PROVE gate'[g] = gate[g] \/ GateFacts(g)'
    BY <1>1, <2>1, <2>2, <2>4 DEF GateFacts, Exists, Open
  <2>7. RowsKept
    BY <1>1, <2>1, EnqueuedIs DEF RowsKept
  <2> QED BY <1>1, <2>5, <2>6, <2>7, GateMoves
<1> QED BY <1>3, <1>4 DEF WakeNext

(* A row or the order of the page changes. *)
LEMMA RowMoves ==
  ASSUME IInv, exec' = exec, wf' = wf, gate' = gate, missed' = missed, TypeOK',
         \A e \in Execs : row'[e] = "none" \/ row[e] # "none"
  PROVE  IInv'
  BY GateMoves DEF RowsKept

LEMMA OtherSteps ==
  ASSUME IInv,
         \/ WakeLost
         \/ \E e \in Execs : LeaseExpires(e) \/ SweepMissing(e) \/ SweepRunning(e)
  PROVE  IInv'
<1>1. TypeOK
  BY DEF IInv
<1>2. CASE WakeLost
  BY <1>1, <1>2, RowMoves DEF WakeLost, TypeOK
<1>3. ASSUME NEW e \in Execs, LeaseExpires(e)
      PROVE  IInv'
  <2>1. /\ row' \in [Execs -> {"none", "pending", "leased", "ended"}]
        /\ \A x \in Execs : row'[x] = "none" \/ row[x] # "none"
    BY <1>1, <1>3, Typed DEF LeaseExpires
  <2> QED BY <1>1, <1>3, <2>1, RowMoves DEF LeaseExpires, TypeOK
<1>4. ASSUME NEW e \in Execs, SweepMissing(e)
      PROVE  IInv'
  BY <1>1, <1>4, EnqueuedIs, RowMoves DEF SweepMissing, TypeOK
<1>5. ASSUME NEW e \in Execs, SweepRunning(e)
      PROVE  IInv'
  <2>1. due' \in Seq(Execs)
    BY <1>1, <1>5, Typed, LaterIs DEF SweepRunning
  <2> QED BY <1>1, <1>5, <2>1, RowMoves DEF SweepRunning, TypeOK
<1> QED BY <1>2, <1>3, <1>4, <1>5

-----------------------------------------------------------------------------
(* Gate runs. *)

LEMMA ClaimRowStep ==
  ASSUME IInv, NEW g \in Gates, NEW e \in Execs, ClaimRow(g, e)
  PROVE  IInv'
<1> DEFINE v == GateRun(e, exec[e].epoch, TRUE)
<1>1. TypeOK /\ Exists(e) /\ row[e] = "pending" /\ UNCHANGED <<exec, wf, due, wake, missed>>
  BY DEF IInv, ClaimRow, RowFacts
<1>2. v \in RunType /\ v.pc = "read" /\ v.exec = e
  BY <1>1, Typed, GateRunIs DEF ExecType
<1>3. row' = [row EXCEPT ![e] = "leased"] /\ gate' = [gate EXCEPT ![g] = v]
  BY DEF ClaimRow
<1> HIDE DEF v
<1>4. /\ row' \in [Execs -> {"none", "pending", "leased", "ended"}]
      /\ gate' \in [Gates -> RunType] /\ \A h \in Gates : gate'[h] = gate[h] \/ gate'[h] = v
  BY <1>1, <1>2, <1>3, Typed
<1>5. TypeOK'
  BY <1>1, <1>4 DEF TypeOK, RunType
<1>6. ASSUME NEW h \in Gates PROVE gate'[h] = gate[h] \/ GateFacts(h)'
  BY <1>1, <1>2, <1>4 DEF GateFacts, Exists
<1>7. RowsKept
  BY <1>1, <1>3, Typed DEF RowsKept
<1> QED BY <1>1, <1>5, <1>6, <1>7, GateMoves

(* A gate run that ends, well or not, leaves its row in some state. *)
LEMMA GateEnds ==
  ASSUME IInv, NEW g \in Gates, UNCHANGED <<due, wake>>,
         EndGate(g) \/ GateFails(g)
  PROVE  /\ row' \in [Execs -> {"none", "pending", "leased", "ended"}]
         /\ gate' \in [Gates -> RunType]
         /\ \A h \in Gates : gate'[h] = gate[h] \/ GateFacts(h)'
         /\ RowsKept
<1>1. TypeOK /\ gate' = [gate EXCEPT ![g] = Idle]
  BY DEF IInv, EndGate, GateFails
<1>2. row' \in [Execs -> {"none", "pending", "leased", "ended"}] /\ RowsKept
  <2>1. \/ row' = row
        \/ row[gate[g].exec] = "leased" /\ row' = [row EXCEPT ![gate[g].exec] = "ended"]
        \/ row[gate[g].exec] = "leased" /\ row' = [row EXCEPT ![gate[g].exec] = "pending"]
    BY DEF EndGate, GateFails
  <2> QED BY <1>1, <2>1, Typed DEF RowsKept
<1>3. gate' \in [Gates -> RunType] /\ \A h \in Gates : gate'[h] = gate[h] \/ gate'[h] = Idle
  BY <1>1, Typed, IdleIs
<1> QED BY <1>2, <1>3, IdleIs DEF GateFacts

LEMMA GateFailsStep ==
  ASSUME IInv, NEW g \in Gates, GateFails(g)
  PROVE  IInv'
<1>1. TypeOK /\ UNCHANGED <<exec, wf, due, wake, missed>>
  BY DEF IInv, GateFails
<1>2. TypeOK'
  BY <1>1, GateEnds DEF TypeOK, RunType
<1> QED BY <1>1, <1>2, GateEnds, GateMoves

(* A gate run goes on to its next step. *)
LEMMA GateGoesOn ==
  ASSUME IInv, NEW g \in Gates, NEW v \in RunType,
         gate' = [gate EXCEPT ![g] = v], UNCHANGED <<exec, wf, row, due, wake, missed>>,
         v.exec \in Execs, Exists(v.exec),
         exec[v.exec].rejudge => v.class = "background",
         v.pc = "start" => Clear(v.exec, v.missed)
  PROVE  IInv'
<1>1. gate' \in [Gates -> RunType] /\ \A h \in Gates : gate'[h] = gate[h] \/ gate'[h] = v
  BY Typed DEF IInv
<1>2. TypeOK'
  BY <1>1 DEF IInv, TypeOK, RunType
<1>3. ASSUME NEW h \in Gates PROVE gate'[h] = gate[h] \/ GateFacts(h)'
  BY <1>1 DEF GateFacts, Exists, Clear, Open
<1>4. RowsKept
  BY DEF RowsKept
<1> QED BY <1>2, <1>3, <1>4, GateMoves

LEMMA ReadRunStep ==
  ASSUME IInv, NEW g \in Gates, ReadRun(g)
  PROVE  IInv'
<1> DEFINE e == gate[g].exec
           v == [gate[g] EXCEPT !.pc = "check", !.class = exec[e].class]
<1>1. /\ TypeOK /\ gate[g] \in RunType /\ e \in Execs /\ Exists(e) /\ ExecFacts(e)
      /\ UNCHANGED <<exec, wf, due, wake, missed>>
  BY Typed DEF IInv, ReadRun, GateFacts
<1>2. CASE Open(e) /\ Current(g)
  <2>1. gate' = [gate EXCEPT ![g] = v] /\ row' = row
    BY <1>2 DEF ReadRun
  <2>2. v \in RunType /\ v.pc = "check" /\ v.class = exec[e].class /\ v.exec = e
    BY <1>1, Typed DEF RunType, ExecType
  <2>3. exec[e].rejudge => v.class = "background"
    BY <1>1, <2>2 DEF ExecFacts
  <2> HIDE DEF v
  <2> QED BY <1>1, <2>1, <2>2, <2>3, GateGoesOn
<1>3. CASE ~(Open(e) /\ Current(g))
  <2>1. EndGate(g)
    BY <1>3 DEF ReadRun
  <2>2. TypeOK'
    BY <1>1, <2>1, GateEnds DEF TypeOK, RunType
  <2> QED BY <1>1, <2>1, <2>2, GateEnds, GateMoves
<1> QED BY <1>2, <1>3

(* Nobody blocks: that is what Clear says. *)
LEMMA CheckBlockerStep ==
  ASSUME IInv, NEW g \in Gates, CheckBlocker(g)
  PROVE  IInv'
<1> DEFINE e == gate[g].exec
           v == [gate[g] EXCEPT !.pc = "start", !.class = "background", !.missed = NotThereYet(e)]
<1>1. /\ TypeOK /\ gate[g] \in RunType /\ e \in Execs /\ Exists(e)
      /\ (exec[e].rejudge => gate[g].class = "background")
      /\ gate[g].class \in {"foreground", "background"}
      /\ UNCHANGED <<exec, wf, due, wake, missed>>
  BY Typed DEF IInv, CheckBlocker, GateFacts, RunType, Classes
<1>2. CASE Blocked(e, gate[g].class)
  <2>1. EndGate(g)
    BY <1>2 DEF CheckBlocker
  <2>2. TypeOK'
    BY <1>1, <2>1, GateEnds DEF TypeOK, RunType
  <2> QED BY <1>1, <2>1, <2>2, GateEnds, GateMoves
<1>3. CASE ~Blocked(e, gate[g].class)
  <2>1. gate' = [gate EXCEPT ![g] = v] /\ row' = row
    BY <1>3 DEF CheckBlocker
  <2>2. v \in RunType /\ v.class = "background" /\ v.exec = e /\ v.missed = NotThereYet(e)
    <3>1. NotThereYet(e) \in SUBSET Execs
      BY <1>1, Older DEF NotThereYet
    <3> QED BY <1>1, <3>1 DEF RunType, Classes
  <2>3. Clear(e, NotThereYet(e))
    <3> SUFFICES ASSUME NEW x \in 1 .. e - 1, x \notin NotThereYet(e)
                 PROVE  /\ Exists(x)
                        /\ Open(x) => exec[x].class = "background" /\ ~exec[e].rejudge
      BY DEF Clear
    <3>1. x \in Execs \ {e} /\ x < e
      BY <1>1, Older
    <3>2. exec[x].class \in {"foreground", "background"}
      BY <1>1, <3>1, Typed
    <3>3. Exists(x)
      BY <3>1 DEF NotThereYet, Exists
    <3>4. Open(x) => exec[x].class = "background" /\ gate[g].class = "foreground"
      BY <1>1, <1>3, <3>1, <3>2 DEF Blocked
    <3> QED BY <1>1, <3>3, <3>4
  <2> HIDE DEF v
  <2> QED BY <1>1, <2>1, <2>2, <2>3, GateGoesOn
<1> QED BY <1>2, <1>3

LEMMA StartWorkflowStep ==
  ASSUME IInv, NEW g \in Gates, StartWorkflow(g)
  PROVE  IInv'
<1>0. PICK e \in Execs : e = gate[g].exec
  BY DEF IInv, StartWorkflow, GateFacts
<1>1. /\ TypeOK /\ Exists(e) /\ Clear(e, gate[g].missed) /\ gate[g] \in RunType
      /\ EndGate(g) /\ UNCHANGED <<exec, due, wake>>
      /\ \/ wf' = wf /\ missed' = missed
         \/ /\ wf[e] = "none" /\ wf' = [wf EXCEPT ![e] = "running"]
            /\ missed' = [missed EXCEPT ![e] = gate[g].missed]
  BY <1>0, Typed DEF IInv, StartWorkflow, GateFacts
<1>2. /\ wf' \in [Execs -> {"none", "running", "closed"}]
      /\ missed' \in [Execs -> SUBSET Execs]
      /\ \A x \in Execs : x # e => wf'[x] = wf[x] /\ missed'[x] = missed[x]
  BY <1>1, Typed DEF RunType
<1>3. TypeOK'
  BY <1>1, <1>2, GateEnds DEF TypeOK, RunType
<1>4. ASSUME NEW x \in Execs PROVE ExecFacts(x)'
  <2>1. CASE wf'[x] = wf[x]
    BY <1>1, <2>1, ExecsKept
  <2>2. CASE wf'[x] # wf[x]
    <3>1. x = e /\ wf[e] = "none"
      BY <1>1, <1>2, <2>2
    <3> QED BY <1>1, <3>1, ExecsKept
  <2> QED BY <2>1, <2>2
<1>5. CASE wf' = wf /\ missed' = missed
  <2>1. \A x \in Execs : wf'[x] = "none" \/ (wf[x] # "none" /\ MissedKept(x))
    BY <1>5 DEF MissedKept
  <2> QED BY <1>1, <1>3, <1>4, <2>1, GateEnds, ExecsKept, Frame
<1>6. CASE missed' = [missed EXCEPT ![e] = gate[g].missed] /\ wf[e] = "none"
  <2>1. StartFacts(e)'
    <3>0. missed'[e] = gate[g].missed
      BY <1>1, <1>6, Typed
    <3> SUFFICES ASSUME NEW x \in 1 .. e - 1, x \notin gate[g].missed
                 PROVE  Exists(x) /\ (Open(x) => ~Alike(x, e))
      BY <1>1, <3>0 DEF StartFacts, Open, Alike, Exists
    <3>1. x \in Execs /\ Exists(x) /\ (Open(x) => exec[x].class = "background" /\ ~exec[e].rejudge)
      BY <1>1, Older DEF Clear
    <3> QED BY <3>1 DEF Alike
  <2>2. ASSUME NEW x \in Execs, x # e
        PROVE  wf'[x] = "none" \/ (wf[x] # "none" /\ MissedKept(x))
    BY <1>2, <2>2 DEF MissedKept
  <2>3. \A x \in Execs : \/ wf'[x] = "none" \/ StartFacts(x)'
                         \/ wf[x] # "none" /\ MissedKept(x)
    BY <2>1, <2>2
  <2> QED BY <1>1, <1>3, <1>4, <2>3, GateEnds, ExecsKept, Frame
<1> QED BY <1>1, <1>5, <1>6

-----------------------------------------------------------------------------
LEMMA NextIInv ==
  ASSUME IInv, [Next]_vars
  PROVE  IInv'
<1>1. CASE Next
  <2>1. CASE \E e, old \in Execs : \E rejudge \in BOOLEAN : Accept(e, rejudge, old)
    BY <2>1, AcceptStep
  <2>2. CASE \E e \in Execs : \/ Finish(e) \/ Cancel(e) \/ Demote(e) \/ WorkflowDies(e)
                             \/ LeaseExpires(e) \/ Sweep(e)
                             \/ \E g \in Gates : ClaimRow(g, e)
    BY <2>2, FinishStep, CancelStep, DemoteStep, WorkflowDiesStep, SweepClosedStep,
       ClaimRowStep, OtherSteps DEF Sweep
  <2>3. CASE \E g \in Gates : GateStep(g) \/ GateFails(g)
    BY <2>3, ReadRunStep, CheckBlockerStep, StartWorkflowStep, GateFailsStep DEF GateStep
  <2>4. CASE WakeNext \/ WakeLost
    BY <2>4, WakeNextStep, OtherSteps
  <2> QED BY <1>1, <2>1, <2>2, <2>3, <2>4 DEF Next
<1>2. CASE UNCHANGED vars
  <2>1. /\ TypeOK /\ exec' = exec /\ wf' = wf /\ row' = row /\ gate' = gate /\ due' = due
        /\ wake' = wake /\ missed' = missed
    BY <1>2 DEF vars, IInv
  <2>2. TypeOK'
    BY <2>1 DEF TypeOK
  <2> QED BY <2>1, <2>2, RowMoves
<1> QED BY <1>1, <1>2

LEMMA AlwaysIInv == Spec => []IInv
<1>1. IInv /\ [Next]_vars => IInv'
  BY NextIInv
<1> QED BY <1>1, InitIInv, PTL DEF Spec

(* Rows, workflows, gate runs and what they missed stay in their types. *)
THEOREM TypeCorrect == Spec => []TypeOK
<1>1. IInv => TypeOK
  BY DEF IInv
<1> QED BY <1>1, AlwaysIInv, PTL

(* Of two executions of a student that are dispatched at once and that both  *)
(* were submitted and never put back, or both are rejudges, the older one    *)
(* became visible after the gate run that started the younger one had looked *)
(* (judge-recovery.ts:24, the blocker is read before the workflow starts).   *)
THEOREM Single == Spec => []OneAtATime
<1>1. ASSUME IInv, NEW e \in Execs, NEW x \in 1 .. e - 1,
             Dispatched(e), Dispatched(x), Alike(x, e), x \notin missed[e]
      PROVE  FALSE
  BY <1>1 DEF IInv, StartFacts, Dispatched
<1>2. IInv => OneAtATime
  BY <1>1 DEF OneAtATime, Alike
<1> QED BY <1>2, AlwaysIInv, PTL

(* No submission is started while an older one of the student that its gate  *)
(* run could see still waits, and no rejudge while such a rejudge does       *)
(* (judge-recovery.ts:24-37).                                                *)
THEOREM Overtaking == Spec => InAcceptanceOrder
<1> DEFINE Fair(e) == wf[e] = "none" /\ wf'[e] = "running" =>
             \A x \in 1 .. e - 1 :
               /\ Open(x) /\ wf[x] = "none" /\ exec[x].epoch = 0
               /\ exec[x].rejudge = exec[e].rejudge
               => x \in missed'[e]
<1>1. ASSUME IInv, [Next]_vars, NEW e \in Execs PROVE Fair(e)
  <2> SUFFICES ASSUME wf[e] = "none", wf'[e] = "running",
                      NEW x \in 1 .. e - 1, Open(x), wf[x] = "none", exec[x].epoch = 0,
                      exec[x].rejudge = exec[e].rejudge, x \notin missed'[e]
               PROVE  FALSE
    OBVIOUS
  <2>1. TypeOK /\ x \in Execs
    BY <1>1, Older DEF IInv
  <2>2. PICK g \in Gates : StartWorkflow(g) /\ gate[g].exec = e
    <3>1. ASSUME NEW y \in Execs, wf' = [wf EXCEPT ![y] = "closed"] \/ wf' = [wf EXCEPT ![y] = "none"]
          PROVE  FALSE
      BY <2>1, <3>1, Typed
    <3>2. wf' # wf
      OBVIOUS
    <3>3. ASSUME NEW y \in Execs PROVE ~Finish(y) /\ ~WorkflowDies(y) /\ ~SweepClosed(y)
      BY <3>1 DEF Finish, WorkflowDies, SweepClosed
    <3>4. PICK g \in Gates : StartWorkflow(g)
      BY <1>1, <3>2, <3>3 DEF Next, Accept, Cancel, Demote, LeaseExpires, Sweep, SweepMissing,
         SweepRunning, ClaimRow, GateStep, ReadRun, CheckBlocker, GateFails, WakeNext,
         WakeLost, vars
    <3>5. wf' = [wf EXCEPT ![gate[g].exec] = "running"]
      BY <3>2, <3>4 DEF StartWorkflow
    <3>6. gate[g].exec = e
      BY <2>1, <3>5, Typed
    <3> QED BY <3>4, <3>6
  <2>3. Clear(e, gate[g].missed) /\ ExecFacts(x)
    BY <1>1, <2>1, <2>2 DEF IInv, GateFacts, StartWorkflow
  <2>4. missed'[e] = gate[g].missed
    <3>1. missed' = [missed EXCEPT ![e] = gate[g].missed]
      BY <2>2 DEF StartWorkflow
    <3> QED BY <2>1, <3>1, Typed
  <2>5. exec[x].class = "background" /\ ~exec[e].rejudge
    BY <2>3, <2>4 DEF Clear
  <2> QED BY <2>3, <2>5 DEF ExecFacts, MayHoldLease
<1>2. IInv /\ [Next]_vars => \A e \in Execs : Fair(e)
  BY <1>1
<1>3. UNCHANGED vars => \A e \in Execs : Fair(e)
  BY DEF vars
<1>4. IInv /\ [Next]_vars => [\A e \in Execs : Fair(e)]_vars
  BY <1>2
<1>5. [\A e \in Execs : Fair(e)]_vars =>
        [\A e \in Execs : wf[e] = "none" /\ wf'[e] = "running" =>
           \A x \in 1 .. e - 1 :
             /\ Open(x) /\ wf[x] = "none" /\ exec[x].epoch = 0
             /\ exec[x].rejudge = exec[e].rejudge
             => x \in missed'[e]]_vars
  OBVIOUS
<1> QED BY <1>4, <1>5, AlwaysIInv, PTL DEF Spec, InAcceptanceOrder
=============================================================================
