-------------------------- MODULE DurableWorkProofs --------------------------
(***************************************************************************)
(* The safety properties of the transactional outbox, for any set of rows  *)
(* and owners, any number of kinds and attempts and any concurrency.       *)
(***************************************************************************)
EXTENDS DurableWork, TLAPS

(* What the fence of complete relies on: a batch whose handler has returned, *)
(* and whose lease the row still names, has served that row.                 *)
ReturnedWasServed ==
  \A o \in Owners, k \in Keys :
    /\ batch[o].pc = "returned" /\ batch[o].key = k
    /\ work[k].status = "leased" /\ work[k].owner = o
    => hist[k].served

Busy == {"handling", "returned", "threw"}

(* A batch that handles a row has a row. *)
HandledRowExists == \A o \in Owners : batch[o].pc \in Busy => batch[o].key \in Keys

(* Rows are claimed, served and finished in step with their history. *)
RowsInv ==
  /\ RunsAreCounted
  /\ SucceededWasServed
  /\ DeadWasTried
  /\ LeaseNamesClaimer
  /\ ReturnedWasServed
  /\ HandledRowExists

IInv == TypeOK /\ RowsInv

(* What the bounds on the constants give the types. *)
LEMMA Zero == 0 \in 0 .. MaxAttempts /\ 0 \in 0 .. NumKinds - 1 /\ 0 \in 0 .. NumKinds
BY ParameterAssumption

-----------------------------------------------------------------------------
LEMMA InitIInv == Init => IInv
<1> SUFFICES ASSUME Init PROVE IInv
  OBVIOUS
<1>1. TypeOK
  BY ParameterAssumption
  DEF Init, TypeOK, Row, Batch, History, IdleBatch, NoHistory, NoOwner, NoKey, Active, Terminal
<1>2. RowsInv
  BY ParameterAssumption
  DEF Init, RowsInv, RunsAreCounted, SucceededWasServed, DeadWasTried, LeaseNamesClaimer,
      ReturnedWasServed, HandledRowExists, Busy, IdleBatch, NoHistory, NoOwner
<1> QED BY <1>1, <1>2 DEF IInv

LEMMA IdleBatchType == IdleBatch \in Batch
BY ParameterAssumption DEF IdleBatch, Batch

LEMMA EndedBatchType ==
  ASSUME NEW o \in Owners, NEW pc \in {"claimed", "empty"}
  PROVE  EndedBatch(o, pc) \in Batch /\ EndedBatch(o, pc).pc \notin Busy
BY ParameterAssumption DEF EndedBatch, IdleBatch, Batch, Busy

LEMMA FailedRunType ==
  ASSUME TypeOK, NEW o \in Owners
  PROVE  FailedRun(o) \in [offset : 0 .. NumKinds - 1, wave : SUBSET Owners]
BY ParameterAssumption DEF TypeOK, FailedRun

LEMMA ReleaseSiblingsType ==
  ASSUME NEW o \in Owners, NEW b \in [Owners -> Batch]
  PROVE  /\ ReleaseSiblings(o, b) \in [Owners -> Batch]
         /\ \A p \in Owners : ReleaseSiblings(o, b)[p] \in {b[p], IdleBatch}
BY IdleBatchType DEF ReleaseSiblings

-----------------------------------------------------------------------------
(* One step of the invariant for each operation of the repository.          *)

LEMMA EnqueueManyStep ==
  ASSUME IInv, NEW S \in SUBSET Keys, NEW due \in BOOLEAN, EnqueueMany(S, due)
  PROVE  IInv'
<1> DEFINE Inserted(k) == [work[k] EXCEPT !.status = "pending", !.due = due]
<1>1. \A k \in Keys : \/ work'[k] = work[k]
                      \/ work[k].status = "absent" /\ work'[k] = Inserted(k)
  BY DEF EnqueueMany
<1>2. \A k \in Keys : Inserted(k) \in Row
  BY DEF IInv, TypeOK, Row, Active
<1>3. TypeOK'
  <2>1. work' \in [Keys -> Row]
    BY <1>2 DEF IInv, TypeOK, EnqueueMany
  <2> QED BY <2>1 DEF IInv, TypeOK, EnqueueMany
<1>4. \A k \in Keys : \/ work'[k] = work[k]
                      \/ /\ work[k].status = "absent"
                         /\ work'[k].status = "pending"
                         /\ work'[k].attempt = work[k].attempt
                         /\ work'[k].owner = work[k].owner
  <2> TAKE k \in Keys
  <2>1. work[k] \in Row
    BY DEF IInv, TypeOK
  <2>2. /\ Inserted(k).status = "pending"
        /\ Inserted(k).attempt = work[k].attempt
        /\ Inserted(k).owner = work[k].owner
    BY <2>1 DEF Row
  <2> HIDE DEF Inserted
  <2> QED BY <1>1, <2>2
<1>5. UNCHANGED <<batch, hist>>
  BY DEF EnqueueMany
<1>6. RowsInv'
  BY <1>4, <1>5 DEF IInv, RowsInv, RunsAreCounted, SucceededWasServed, DeadWasTried,
     LeaseNamesClaimer, ReturnedWasServed, HandledRowExists
<1> QED BY <1>3, <1>6 DEF IInv

(* A row that leaves its lease keeps its attempts. *)
LEMMA UnleasedRow ==
  ASSUME NEW row \in Row, NEW s \in {"pending", "succeeded", "dead", "cancelled"}
  PROVE  LET r == [Unleased(row) EXCEPT !.status = s]
         IN /\ r \in Row
            /\ r.status = s /\ r.attempt = row.attempt /\ r.owner = NoOwner
            /\ [r EXCEPT !.due = FALSE] \in Row
            /\ [r EXCEPT !.due = FALSE].status = s
            /\ [r EXCEPT !.due = FALSE].attempt = row.attempt
            /\ [r EXCEPT !.due = FALSE].owner = NoOwner
BY DEF Row, Unleased, Active, Terminal

LEMMA RenewedRow ==
  ASSUME NEW row \in Row
  PROVE  LET r == [Unleased(row) EXCEPT !.status = "pending", !.attempt = 0]
         IN r \in Row /\ r.status = "pending" /\ r.attempt = 0 /\ r.owner = NoOwner
BY Zero DEF Row, Unleased, Active, Terminal

LEMMA CancelStep ==
  ASSUME IInv, NEW k \in Keys, Cancel(k)
  PROVE  IInv'
<1> DEFINE Cancelled == [Unleased(work[k]) EXCEPT !.status = "cancelled"]
<1>1. /\ Cancelled \in Row
      /\ Cancelled.status = "cancelled"
      /\ Cancelled.attempt = work[k].attempt
      /\ Cancelled.owner = NoOwner
  BY UnleasedRow DEF IInv, TypeOK
<1>2. work' = [work EXCEPT ![k] = Cancelled] /\ UNCHANGED <<batch, drain, hist>>
  BY DEF Cancel
<1> HIDE DEF Cancelled
<1>3. TypeOK'
  BY <1>1, <1>2 DEF IInv, TypeOK
<1>4. RowsInv'
  BY <1>1, <1>2 DEF IInv, TypeOK, RowsInv, RunsAreCounted, SucceededWasServed, DeadWasTried,
     LeaseNamesClaimer, ReturnedWasServed, HandledRowExists
<1> QED BY <1>3, <1>4 DEF IInv

LEMMA ReactivateStep ==
  ASSUME IInv, NEW k \in Keys, Reactivate(k)
  PROVE  IInv'
<1> DEFINE Renewed == [Unleased(work[k]) EXCEPT !.status = "pending", !.attempt = 0]
<1>1. /\ Renewed \in Row
      /\ Renewed.status = "pending"
      /\ Renewed.attempt = 0
      /\ Renewed.owner = NoOwner
  BY RenewedRow DEF IInv, TypeOK
<1>2. /\ work' = [work EXCEPT ![k] = Renewed]
      /\ hist' = [hist EXCEPT ![k] = NoHistory]
      /\ UNCHANGED <<batch, drain>>
  BY DEF Reactivate
<1>3. NoHistory \in History /\ NoHistory.runs = 0
  BY ParameterAssumption DEF NoHistory, History
<1> HIDE DEF Renewed
<1>4. TypeOK'
  BY <1>1, <1>2, <1>3 DEF IInv, TypeOK
<1>5. RowsInv'
  BY <1>1, <1>2, <1>3, ParameterAssumption
  DEF IInv, TypeOK, RowsInv, RunsAreCounted, SucceededWasServed, DeadWasTried, LeaseNamesClaimer,
      ReturnedWasServed, HandledRowExists
<1> QED BY <1>4, <1>5 DEF IInv

(* A step that leaves status, attempt and owner of every row, the history    *)
(* and the batches alone.                                                    *)
LEMMA OnlyTimesChange ==
  ASSUME IInv, UNCHANGED <<batch, hist>>,
         \A k \in Keys : /\ work'[k].status = work[k].status
                         /\ work'[k].attempt = work[k].attempt
                         /\ work'[k].owner = work[k].owner
  PROVE  RowsInv'
BY DEF IInv, RowsInv, RunsAreCounted, SucceededWasServed, DeadWasTried, LeaseNamesClaimer,
   ReturnedWasServed, HandledRowExists, Busy

LEMMA RescheduleStep ==
  ASSUME IInv, NEW k \in Keys, NEW due \in BOOLEAN,
         work' = [work EXCEPT ![k].due = due],
         UNCHANGED <<batch, drain, hist>>
  PROVE  IInv'
<1>1. TypeOK' /\ \A j \in Keys : /\ work'[j].status = work[j].status
                                 /\ work'[j].attempt = work[j].attempt
                                 /\ work'[j].owner = work[j].owner
  BY DEF IInv, TypeOK, Row
<1> QED BY <1>1, OnlyTimesChange DEF IInv

LEMMA LeaseExpiresStep ==
  ASSUME IInv, NEW k \in Keys, LeaseExpires(k)
  PROVE  IInv'
<1>1. TypeOK' /\ \A j \in Keys : /\ work'[j].status = work[j].status
                                 /\ work'[j].attempt = work[j].attempt
                                 /\ work'[j].owner = work[j].owner
  BY ZenonT(60) DEF IInv, TypeOK, Row, LeaseExpires
<1> QED BY <1>1, OnlyTimesChange DEF IInv, LeaseExpires

-----------------------------------------------------------------------------
(* Steps of the workflow and of its failures, which leave the table alone.   *)

LEMMA OnlyBatchesChange ==
  ASSUME IInv, UNCHANGED <<work, hist>>,
         \A o \in Owners : batch'[o].pc \in Busy => batch'[o] = batch[o]
  PROVE  RowsInv'
BY DEF IInv, RowsInv, RunsAreCounted, SucceededWasServed, DeadWasTried, LeaseNamesClaimer,
   ReturnedWasServed, HandledRowExists, Busy

LEMMA LaunchWaveStep ==
  ASSUME IInv, LaunchWave
  PROVE  IInv'
<1>1. PICK slot \in [0 .. Concurrency - 1 -> {o \in Owners : Free(o)}] :
       /\ batch' = [o \in Owners |->
            IF \E i \in DOMAIN slot : slot[i] = o
            THEN [IdleBatch EXCEPT !.pc = "scan",
                    !.first = (drain.offset + (CHOOSE i \in DOMAIN slot : slot[i] = o)) % NumKinds]
            ELSE batch[o]]
       /\ drain' = [drain EXCEPT !.wave = {slot[i] : i \in DOMAIN slot}]
  BY DEF LaunchWave
<1> DEFINE Scanner(n) == [IdleBatch EXCEPT !.pc = "scan", !.first = n]
<1>2. \A n \in 0 .. NumKinds - 1 : Scanner(n) \in Batch /\ Scanner(n).pc \notin Busy
  BY Zero DEF IdleBatch, Batch, Busy
<1>3. ASSUME NEW o \in Owners
      PROVE  batch'[o] \in Batch /\ (batch'[o].pc \in Busy => batch'[o] = batch[o])
  <2>1. CASE \E i \in DOMAIN slot : slot[i] = o
    <3> DEFINE c == CHOOSE i \in DOMAIN slot : slot[i] = o
               n == (drain.offset + c) % NumKinds
    <3>1. c \in 0 .. Concurrency - 1
      BY <2>1
    <3>2. drain.offset \in Nat
      BY DEF IInv, TypeOK
    <3> HIDE DEF c
    <3>3. n \in 0 .. NumKinds - 1
      BY <3>1, <3>2, ParameterAssumption
    <3>4. batch'[o] = Scanner(n)
      BY <1>1, <2>1 DEF c
    <3> HIDE DEF Scanner, n
    <3> QED BY <1>2, <3>3, <3>4
  <2>2. CASE ~\E i \in DOMAIN slot : slot[i] = o
    BY <1>1, <2>2 DEF IInv, TypeOK
  <2> QED BY <2>1, <2>2
<1>4. batch' \in [Owners -> Batch]
  <2>1. batch' = [o \in Owners |-> batch'[o]]
    BY <1>1
  <2> QED BY <1>3, <2>1
<1>5. drain' \in [offset : 0 .. NumKinds - 1, wave : SUBSET Owners]
  <2> DEFINE launched == {slot[i] : i \in DOMAIN slot}
  <2>1. launched \in SUBSET Owners
    OBVIOUS
  <2> HIDE DEF launched
  <2>2. drain' = [drain EXCEPT !.wave = launched]
    BY <1>1 DEF launched
  <2> QED BY <2>1, <2>2 DEF IInv, TypeOK
<1>6. UNCHANGED <<work, hist>>
  BY DEF LaunchWave
<1> QED BY <1>3, <1>4, <1>5, <1>6, OnlyBatchesChange DEF IInv, TypeOK

LEMMA FinishWaveStep ==
  ASSUME IInv, FinishWave
  PROVE  IInv'
<1>1. /\ drain'.wave = {}
      /\ drain'.offset \in {0, (drain.offset + Concurrency) % NumKinds}
      /\ drain' = [offset |-> drain'.offset, wave |-> drain'.wave]
      /\ batch' = [o \in Owners |-> IF o \in drain.wave THEN IdleBatch ELSE batch[o]]
      /\ UNCHANGED <<work, hist>>
  BY DEF FinishWave
<1>2. (drain.offset + Concurrency) % NumKinds \in 0 .. NumKinds - 1
  BY ParameterAssumption DEF IInv, TypeOK
<1>3. TypeOK'
  BY <1>1, <1>2, IdleBatchType, ParameterAssumption DEF IInv, TypeOK
<1>4. IdleBatch.pc \notin Busy
  BY DEF IdleBatch, Busy
<1> QED BY <1>1, <1>3, <1>4, OnlyBatchesChange DEF IInv

(* LeaseLost and Crash: the batch ends and fails the run that awaits it.     *)
LEMMA BatchFailsStep ==
  ASSUME IInv, NEW o \in Owners,
         batch' = ReleaseSiblings(o, [batch EXCEPT ![o] = IdleBatch]),
         drain' = FailedRun(o), UNCHANGED <<work, hist>>
  PROVE  IInv'
<1> DEFINE b == [batch EXCEPT ![o] = IdleBatch]
<1>1. b \in [Owners -> Batch]
  BY IdleBatchType DEF IInv, TypeOK
<1>2. /\ batch' \in [Owners -> Batch]
      /\ \A p \in Owners : batch'[p] \in {batch[p], IdleBatch}
  BY ZenonT(60), <1>1, ReleaseSiblingsType DEF IInv, TypeOK
<1>3. IdleBatch.pc \notin Busy
  BY DEF IdleBatch, Busy
<1> QED BY <1>2, <1>3, FailedRunType, OnlyBatchesChange DEF IInv, TypeOK

LEMMA ActivityTimeoutStep ==
  ASSUME IInv, NEW o \in Owners, ActivityTimeout(o)
  PROVE  IInv'
<1>1. /\ batch' \in [Owners -> Batch]
      /\ \A p \in Owners : batch'[p] \in {batch[p], IdleBatch}
  BY ReleaseSiblingsType DEF IInv, TypeOK, ActivityTimeout
<1>2. IdleBatch.pc \notin Busy
  BY DEF IdleBatch, Busy
<1> QED BY <1>1, <1>2, FailedRunType, OnlyBatchesChange DEF IInv, TypeOK, ActivityTimeout

-----------------------------------------------------------------------------
(* Steps of processDurableWorkBatch.                                         *)

(* What one claimBatch statement does to a row.                              *)
Buried(k) == /\ Exhausted(k)
             /\ work'[k] = [Unleased(work[k]) EXCEPT !.status = "dead"]
             /\ hist'[k] = hist[k]

ClaimedBy(k, o) == /\ Candidate(k)
                   /\ work'[k] = Claimed(work[k], o)
                   /\ hist'[k] = RunBy(hist[k], o)
                   /\ batch'[o] = Handling(batch[o], k, Claimed(work[k], o).attempt)

LEMMA ClaimBatchRows ==
  ASSUME IInv, NEW o \in Owners, ClaimBatch(o)
  PROVE  /\ work' = [k \in Keys |-> work'[k]]
         /\ hist' = [k \in Keys |-> hist'[k]]
         /\ batch' = [batch EXCEPT ![o] = batch'[o]]
         /\ UNCHANGED drain
         /\ \A k \in Keys : \/ work'[k] = work[k] /\ hist'[k] = hist[k]
                            \/ Buried(k)
                            \/ ClaimedBy(k, o)
         /\ \/ \E k \in Keys : ClaimedBy(k, o)
            \/ batch'[o] = EndedBatch(o, "empty")
            \/ ~LastKind(o) /\ batch'[o] = NextKind(batch[o])
<1> DEFINE mine == {k \in Keys : KindOf[k] = ScannedKind(o)}
           candidates == {k \in mine : Candidate(k)}
           burial(k) == [Unleased(work[k]) EXCEPT !.status = "dead"]
           buried == [k \in Keys |-> IF k \in mine /\ Exhausted(k) THEN burial(k) ELSE work[k]]
           Claims(k) ==
             /\ work' = [buried EXCEPT ![k] = Claimed(@, o)]
             /\ batch' = [batch EXCEPT ![o] = Handling(@, k, Claimed(work[k], o).attempt)]
             /\ hist' = [hist EXCEPT ![k] = RunBy(@, o)]
           Passes ==
             /\ work' = buried
             /\ batch' = [batch EXCEPT ![o] = IF LastKind(o) THEN EndedBatch(o, "empty")
                                              ELSE NextKind(@)]
             /\ UNCHANGED hist
<1>1. (\E k \in candidates : Claims(k)) \/ Passes
  BY DEF ClaimBatch
<1>2. UNCHANGED drain
  BY DEF ClaimBatch
<1>3. work \in [Keys -> Row] /\ hist \in [Keys -> History] /\ batch \in [Owners -> Batch]
  BY DEF IInv, TypeOK
<1>4. ASSUME NEW k \in candidates, Claims(k)
      PROVE  /\ ClaimedBy(k, o)
             /\ \A j \in Keys \ {k} : (work'[j] = work[j] /\ hist'[j] = hist[j]) \/ Buried(j)
             /\ batch' = [batch EXCEPT ![o] = batch'[o]]
             /\ work' = [j \in Keys |-> work'[j]] /\ hist' = [j \in Keys |-> hist'[j]]
  <2>1. Candidate(k) /\ ~Exhausted(k)
    <3>1. work[k].attempt \in Nat /\ MaxAttempts \in Nat
      BY <1>3, ParameterAssumption DEF Row
    <3> QED BY <3>1 DEF Candidate, Exhausted
  <2>2. ClaimedBy(k, o)
    BY <1>3, <1>4, <2>1 DEF ClaimedBy
  <2>3. \A j \in Keys \ {k} : (work'[j] = work[j] /\ hist'[j] = hist[j]) \/ Buried(j)
    BY <1>3, <1>4 DEF Buried
  <2> QED BY <1>3, <1>4, <2>2, <2>3
<1>5. ASSUME Passes
      PROVE  /\ \A k \in Keys : (work'[k] = work[k] /\ hist'[k] = hist[k]) \/ Buried(k)
             /\ batch' = [batch EXCEPT ![o] = batch'[o]]
             /\ work' = [k \in Keys |-> work'[k]] /\ hist' = [k \in Keys |-> hist'[k]]
             /\ \/ batch'[o] = EndedBatch(o, "empty")
                \/ ~LastKind(o) /\ batch'[o] = NextKind(batch[o])
  BY <1>3, <1>5 DEF Buried
<1> QED
  <2> HIDE DEF Claims, Passes
  <2> QED BY <1>1, <1>2, <1>4, <1>5

LEMMA ClaimedRow ==
  ASSUME NEW row \in Row, row.attempt < MaxAttempts, NEW o \in Owners
  PROVE  LET r == Claimed(row, o)
         IN r \in Row /\ r.status = "leased" /\ r.owner = o /\ r.attempt = row.attempt + 1
<1>1. row.attempt + 1 \in 0 .. MaxAttempts
  BY ParameterAssumption DEF Row
<1> QED BY <1>1 DEF Row, Claimed, Active, Terminal

LEMMA RunByHistory ==
  ASSUME NEW h \in History, h.runs < MaxAttempts, NEW o \in Owners
  PROVE  LET g == RunBy(h, o)
         IN g \in History /\ g.runs = h.runs + 1 /\ g.served = h.served /\ g.by = h.by \cup {o}
<1>1. h.runs + 1 \in 0 .. MaxAttempts
  BY ParameterAssumption DEF History
<1> QED BY <1>1 DEF History, RunBy

LEMMA HandlingBatch ==
  ASSUME NEW b \in Batch, NEW k \in Keys, NEW n \in 0 .. MaxAttempts
  PROVE  LET c == Handling(b, k, n) IN c \in Batch /\ c.pc = "handling" /\ c.key = k
BY DEF Batch, Handling

LEMMA ClaimBatchStep ==
  ASSUME IInv, NEW o \in Owners, ClaimBatch(o)
  PROVE  IInv'
<1>1. work \in [Keys -> Row] /\ hist \in [Keys -> History] /\ batch \in [Owners -> Batch]
  BY DEF IInv, TypeOK
<1>2. ASSUME NEW k \in Keys, ClaimedBy(k, o)
      PROVE  /\ work'[k] \in Row /\ work'[k].status = "leased" /\ work'[k].owner = o
             /\ work'[k].attempt = work[k].attempt + 1
             /\ hist'[k] \in History /\ hist'[k].runs = hist[k].runs + 1
             /\ hist'[k].by = hist[k].by \cup {o}
             /\ hist'[k].runs <= MaxAttempts
             /\ batch'[o] \in Batch /\ batch'[o].pc = "handling" /\ batch'[o].key = k
  <2>1. work[k].attempt < MaxAttempts /\ hist[k].runs = work[k].attempt
    BY <1>2 DEF ClaimedBy, Candidate, IInv, RowsInv, RunsAreCounted
  <2>2. Claimed(work[k], o).attempt \in 0 .. MaxAttempts
    BY <1>1, <2>1, ClaimedRow DEF Row
  <2>3. hist'[k] \in History => hist'[k].runs <= MaxAttempts
    BY ParameterAssumption DEF History
  <2> QED BY <1>1, <1>2, <2>1, <2>2, <2>3, ClaimedRow, RunByHistory, HandlingBatch DEF ClaimedBy
<1>3. ASSUME NEW k \in Keys, Buried(k)
      PROVE  /\ work'[k] \in Row /\ work'[k].status = "dead" /\ work'[k].owner = NoOwner
             /\ work'[k].attempt = work[k].attempt /\ hist'[k] = hist[k]
             /\ work'[k].attempt = MaxAttempts
  <2> DEFINE dead == [Unleased(work[k]) EXCEPT !.status = "dead"]
  <2>1. work'[k] = dead /\ hist'[k] = hist[k] /\ Exhausted(k)
    BY <1>3 DEF Buried
  <2>2. /\ dead \in Row /\ dead.status = "dead"
        /\ dead.attempt = work[k].attempt /\ dead.owner = NoOwner
    BY <1>1, UnleasedRow
  <2> HIDE DEF dead
  <2>3. work[k].attempt = MaxAttempts
    <3>1. work[k].attempt \in 0 .. MaxAttempts /\ MaxAttempts \in Nat
      BY <1>1, ParameterAssumption DEF Row
    <3>2. work[k].attempt >= MaxAttempts
      BY <2>1 DEF Exhausted
    <3> QED BY <3>1, <3>2
  <2> QED BY <2>1, <2>2, <2>3
<1>4. ~LastKind(o) => NextKind(batch[o]) \in Batch
  <2>1. ~LastKind(o) => batch[o].tried + 1 \in 0 .. NumKinds
    BY <1>1, ParameterAssumption DEF Batch, LastKind
  <2> QED BY <1>1, <2>1 DEF Batch, NextKind
<1>5. NextKind(batch[o]).pc \notin Busy
  BY <1>1 DEF ClaimBatch, NextKind, Batch, Busy
<1>6. /\ batch'[o] \in Batch
      /\ batch'[o].pc # "returned"
      /\ batch'[o].pc \in Busy => batch'[o].key \in Keys
  BY <1>2, <1>4, <1>5, ClaimBatchRows, EndedBatchType DEF Busy
<1>7. TypeOK'
  BY <1>1, <1>2, <1>3, <1>6, ClaimBatchRows DEF IInv, TypeOK
<1>8. RunsAreCounted' /\ DeadWasTried'
  BY <1>2, <1>3, ClaimBatchRows DEF IInv, RowsInv, RunsAreCounted, DeadWasTried
<1>9. SucceededWasServed'
  BY <1>2, <1>3, ClaimBatchRows DEF IInv, RowsInv, SucceededWasServed
<1>10. LeaseNamesClaimer'
  <2>1. o # NoOwner
    BY ParameterAssumption
  <2> QED BY <1>2, <1>3, <2>1, ClaimBatchRows DEF IInv, RowsInv, LeaseNamesClaimer
<1>11. ReturnedWasServed' /\ HandledRowExists'
  <2>1. \A p \in Owners \ {o} : batch'[p] = batch[p]
    BY <1>1, ClaimBatchRows
  <2> QED BY <1>2, <1>3, <1>6, <2>1, ClaimBatchRows
      DEF IInv, RowsInv, ReturnedWasServed, HandledRowExists
<1> QED BY <1>7, <1>8, <1>9, <1>10, <1>11 DEF IInv, RowsInv

LEMMA HandlerEndsStep ==
  ASSUME IInv, NEW o \in Owners, NEW pc \in {"returned", "threw"}, HandlerEnds(o, pc)
  PROVE  IInv'
<1> DEFINE k == batch[o].key
           serves == pc = "returned" /\ o \in hist[k].by
<1>1. /\ batch' = [batch EXCEPT ![o].pc = pc]
      /\ hist' = [hist EXCEPT ![k].served = @ \/ serves]
      /\ UNCHANGED <<work, drain>>
  BY DEF HandlerEnds
<1>2. work \in [Keys -> Row] /\ hist \in [Keys -> History] /\ batch \in [Owners -> Batch]
  BY DEF IInv, TypeOK
<1>3. /\ batch' \in [Owners -> Batch]
      /\ batch'[o].pc = pc /\ batch'[o].key = k
      /\ \A p \in Owners \ {o} : batch'[p] = batch[p]
  BY <1>1, <1>2 DEF Batch
<1>4. /\ hist' \in [Keys -> History]
      /\ \A j \in Keys : hist'[j].runs = hist[j].runs /\ hist'[j].by = hist[j].by
      /\ \A j \in Keys : hist[j].served => hist'[j].served
      /\ k \in Keys /\ serves => hist'[k].served
  BY ZenonT(60), <1>1, <1>2 DEF History
<1>5. TypeOK'
  BY <1>1, <1>3, <1>4 DEF IInv, TypeOK
<1>6. RunsAreCounted' /\ SucceededWasServed' /\ DeadWasTried' /\ LeaseNamesClaimer'
  BY <1>1, <1>4 DEF IInv, RowsInv, RunsAreCounted, SucceededWasServed, DeadWasTried, LeaseNamesClaimer
<1>7. ReturnedWasServed'
  BY <1>1, <1>3, <1>4 DEF IInv, RowsInv, LeaseNamesClaimer, ReturnedWasServed
<1>8. HandledRowExists'
  BY <1>3 DEF IInv, RowsInv, HandledRowExists, HandlerEnds, Busy
<1> QED BY <1>5, <1>6, <1>7, <1>8 DEF IInv, RowsInv

(* complete and retryOrDead rewrite the row of the batch that holds its lease. *)
LEMMA LeaseHolderStep ==
  ASSUME IInv, NEW o \in Owners, HoldsLease(o), batch[o].pc \in {"returned", "threw"},
         NEW row \in Row, row.status \in {"pending", "succeeded", "dead"}, row.owner = NoOwner,
         row.attempt = work[batch[o].key].attempt,
         row.status = "succeeded" => batch[o].pc = "returned",
         row.status = "dead" => row.attempt = MaxAttempts,
         work' = [work EXCEPT ![batch[o].key] = row],
         batch' = [batch EXCEPT ![o] = EndedBatch(o, "claimed")],
         UNCHANGED <<drain, hist>>
  PROVE  IInv'
<1> DEFINE k == batch[o].key
<1>1. work \in [Keys -> Row] /\ batch \in [Owners -> Batch]
  BY DEF IInv, TypeOK
<1>2. /\ batch' \in [Owners -> Batch]
      /\ \A p \in Owners : batch'[p].pc \in Busy => p # o /\ batch'[p] = batch[p]
  BY <1>1, EndedBatchType DEF Busy
<1>3. work' \in [Keys -> Row]
  BY <1>1
<1>4. TypeOK'
  BY <1>2, <1>3 DEF IInv, TypeOK
<1>5. k \in Keys /\ row.status = "succeeded" => hist[k].served
  BY DEF IInv, RowsInv, ReturnedWasServed, HoldsLease
<1>6. \A j \in Keys : IF j = k THEN work'[j] = row ELSE work'[j] = work[j]
  BY <1>1
<1>7. RunsAreCounted' /\ DeadWasTried' /\ SucceededWasServed'
  BY <1>5, <1>6 DEF IInv, RowsInv, RunsAreCounted, DeadWasTried, SucceededWasServed
<1>8. LeaseNamesClaimer'
  BY <1>6 DEF IInv, RowsInv, LeaseNamesClaimer
<1>9. ReturnedWasServed' /\ HandledRowExists'
  BY <1>2, <1>6 DEF IInv, RowsInv, ReturnedWasServed, HandledRowExists, Busy
<1> QED BY <1>4, <1>7, <1>8, <1>9 DEF IInv, RowsInv

LEMMA CompleteStep ==
  ASSUME IInv, NEW o \in Owners, Complete(o)
  PROVE  IInv'
<1> DEFINE row == [Unleased(work[batch[o].key]) EXCEPT !.status = "succeeded"]
<1>1. /\ batch[o].pc = "returned"
      /\ HoldsLease(o)
      /\ work' = [work EXCEPT ![batch[o].key] = row]
      /\ batch' = [batch EXCEPT ![o] = EndedBatch(o, "claimed")]
      /\ UNCHANGED <<drain, hist>>
  BY DEF Complete
<1>2. work[batch[o].key] \in Row
  BY <1>1 DEF IInv, TypeOK, RowsInv, HandledRowExists, Busy
<1>3. /\ row \in Row /\ row.status = "succeeded" /\ row.owner = NoOwner
      /\ row.attempt = work[batch[o].key].attempt
  BY <1>2, UnleasedRow
<1> HIDE DEF row
<1> QED BY <1>1, <1>3, LeaseHolderStep

LEMMA RetryOrDeadStep ==
  ASSUME IInv, NEW o \in Owners, RetryOrDead(o)
  PROVE  IInv'
<1> DEFINE old == work[batch[o].key]
           dead == [Unleased(old) EXCEPT !.status = "dead"]
           later == [Unleased(old) EXCEPT !.status = "pending", !.due = FALSE]
           row == IF old.attempt >= MaxAttempts THEN dead ELSE later
<1>1. /\ batch[o].pc = "threw"
      /\ HoldsLease(o)
      /\ work' = [work EXCEPT ![batch[o].key] = row]
      /\ batch' = [batch EXCEPT ![o] = EndedBatch(o, "claimed")]
      /\ UNCHANGED <<drain, hist>>
  BY DEF RetryOrDead
<1>2. old \in Row
  BY <1>1 DEF IInv, TypeOK, RowsInv, HandledRowExists, Busy
<1>3. /\ dead \in Row /\ dead.status = "dead" /\ dead.owner = NoOwner
      /\ dead.attempt = old.attempt
      /\ later \in Row /\ later.status = "pending" /\ later.owner = NoOwner
      /\ later.attempt = old.attempt
  BY <1>2, UnleasedRow
<1>4. old.attempt >= MaxAttempts => old.attempt = MaxAttempts
  BY <1>2, ParameterAssumption DEF Row
<1> HIDE DEF dead, later
<1>5. /\ row \in Row /\ row.status \in {"pending", "dead"} /\ row.owner = NoOwner
      /\ row.attempt = old.attempt
      /\ row.status = "dead" => row.attempt = MaxAttempts
  BY <1>3, <1>4
<1> HIDE DEF row
<1> QED BY <1>1, <1>5, LeaseHolderStep

-----------------------------------------------------------------------------
LEMMA Inductive == IInv /\ [Next]_vars => IInv'
<1> SUFFICES ASSUME IInv, [Next]_vars PROVE IInv'
  OBVIOUS
<1>1. CASE \E S \in SUBSET Keys, due \in BOOLEAN : EnqueueMany(S, due)
  BY <1>1, EnqueueManyStep
<1>2. CASE \E k \in Keys : Cancel(k) \/ Reactivate(k) \/ BecomesDue(k) \/ LeaseExpires(k)
  BY <1>2, CancelStep, ReactivateStep, RescheduleStep, LeaseExpiresStep DEF BecomesDue
<1>3. CASE \E k \in Keys, due \in BOOLEAN : Reschedule(k, due)
  BY <1>3, RescheduleStep DEF Reschedule
<1>4. CASE LaunchWave
  BY <1>4, LaunchWaveStep
<1>5. CASE FinishWave
  BY <1>5, FinishWaveStep
<1>6. ASSUME NEW o \in Owners,
             \/ ClaimBatch(o) \/ Complete(o) \/ RetryOrDead(o) \/ LeaseLost(o)
             \/ HandlerEnds(o, "returned") \/ HandlerEnds(o, "threw")
             \/ Crash(o) \/ ActivityTimeout(o)
      PROVE  IInv'
  <2>1. CASE ClaimBatch(o)
    BY <2>1, ClaimBatchStep
  <2>2. CASE Complete(o)
    BY <2>2, CompleteStep
  <2>3. CASE RetryOrDead(o)
    BY <2>3, RetryOrDeadStep
  <2>4. CASE LeaseLost(o) \/ Crash(o)
    BY <2>4, BatchFailsStep DEF LeaseLost, Crash
  <2>5. CASE HandlerEnds(o, "returned") \/ HandlerEnds(o, "threw")
    BY <2>5, HandlerEndsStep
  <2>6. CASE ActivityTimeout(o)
    BY <2>6, ActivityTimeoutStep
  <2> QED BY <1>6, <2>1, <2>2, <2>3, <2>4, <2>5, <2>6
<1>7. CASE UNCHANGED vars
  BY <1>7 DEF vars, IInv, TypeOK, RowsInv, RunsAreCounted, SucceededWasServed, DeadWasTried,
     LeaseNamesClaimer, ReturnedWasServed, HandledRowExists
<1> QED BY <1>1, <1>2, <1>3, <1>4, <1>5, <1>6, <1>7 DEF Next

LEMMA Invariance == Spec => []IInv
BY InitIInv, Inductive, PTL DEF Spec

(* Every variable stays in its type; in particular no row is claimed more    *)
(* often than its attempts allow (claimBatch, durable-work.ts).              *)
THEOREM TypeCorrect == Spec => []TypeOK
<1>1. IInv => TypeOK
  BY DEF IInv
<1> QED BY <1>1, Invariance, PTL

(* A row is handed to a handler once for each attempt it has spent.          *)
THEOREM AttemptsBoundRuns == Spec => []RunsAreCounted
<1>1. IInv => RunsAreCounted
  BY DEF IInv, RowsInv
<1> QED BY <1>1, Invariance, PTL

(* No late batch completes a row that was not served since its activation.   *)
THEOREM SuccessIsServed == Spec => []SucceededWasServed
<1>1. IInv => SucceededWasServed
  BY DEF IInv, RowsInv
<1> QED BY <1>1, Invariance, PTL

(* No row is given up before its last attempt.                               *)
THEOREM DeadIsTried == Spec => []DeadWasTried
<1>1. IInv => DeadWasTried
  BY DEF IInv, RowsInv
<1> QED BY <1>1, Invariance, PTL

(* A lease names the batch that claimed the row last.                        *)
THEOREM FenceNamesClaimer == Spec => []LeaseNamesClaimer
<1>1. IInv => LeaseNamesClaimer
  BY DEF IInv, RowsInv
<1> QED BY <1>1, Invariance, PTL

(* What a step may do to a finished row. *)
StaysFinished(k) ==
  work[k].status \in Terminal => \/ work'[k] = work[k]
                                 \/ work'[k].status = "pending" /\ work'[k].attempt = 0

LEMMA FinishedStep == IInv /\ [Next]_vars => \A k \in Keys : StaysFinished(k)
<1> SUFFICES ASSUME IInv, [Next]_vars, NEW k \in Keys, work[k].status \in Terminal
             PROVE  work'[k] = work[k] \/ (work'[k].status = "pending" /\ work'[k].attempt = 0)
  BY DEF StaysFinished
<1>0. work \in [Keys -> Row]
  BY DEF IInv, TypeOK
<1>1. ASSUME NEW S \in SUBSET Keys, NEW due \in BOOLEAN, EnqueueMany(S, due)
      PROVE  work'[k] = work[k]
  BY <1>1 DEF EnqueueMany, Terminal
<1>2. ASSUME NEW j \in Keys, Cancel(j) \/ BecomesDue(j) \/ LeaseExpires(j)
      PROVE  work'[k] = work[k]
  BY <1>0, <1>2 DEF Cancel, BecomesDue, LeaseExpires, Active, Terminal
<1>3. ASSUME NEW j \in Keys, Reactivate(j)
      PROVE  work'[k] = work[k] \/ (work'[k].status = "pending" /\ work'[k].attempt = 0)
  <2> DEFINE r == [Unleased(work[j]) EXCEPT !.status = "pending", !.attempt = 0]
  <2>1. work' = [work EXCEPT ![j] = r]
    BY <1>3 DEF Reactivate
  <2>2. r.status = "pending" /\ r.attempt = 0
    BY <1>0, RenewedRow
  <2> HIDE DEF r
  <2> QED BY <1>0, <2>1, <2>2
<1>4. ASSUME NEW j \in Keys, NEW due \in BOOLEAN, Reschedule(j, due)
      PROVE  work'[k] = work[k]
  BY <1>0, <1>4 DEF Reschedule, Terminal
<1>5. ASSUME NEW o \in Owners, ClaimBatch(o)
      PROVE  work'[k] = work[k]
  BY <1>5, ClaimBatchRows DEF Buried, ClaimedBy, Exhausted, Candidate, Terminal
<1>6. ASSUME NEW o \in Owners, Complete(o) \/ RetryOrDead(o)
      PROVE  work'[k] = work[k]
  <2>1. k # batch[o].key
    BY <1>6 DEF Complete, RetryOrDead, HoldsLease, Terminal
  <2> QED BY <1>0, <1>6, <2>1 DEF Complete, RetryOrDead
<1>7. ASSUME UNCHANGED work
      PROVE  work'[k] = work[k]
  BY <1>7
<1> QED BY <1>1, <1>2, <1>3, <1>4, <1>5, <1>6, <1>7
    DEF Next, vars, LaunchWave, FinishWave, LeaseLost, HandlerEnds, Crash, ActivityTimeout

(* No claim, late completion or retry brings a finished row back.            *)
THEOREM FinishedIsStable == Spec => TerminalIsStable
<1>1. IInv /\ [Next]_vars => [\A k \in Keys : StaysFinished(k)]_vars
  BY FinishedStep
<1>2. Spec => [][\A k \in Keys : StaysFinished(k)]_vars
  BY <1>1, Invariance, PTL DEF Spec
<1> QED BY <1>2 DEF TerminalIsStable, StaysFinished

=============================================================================
