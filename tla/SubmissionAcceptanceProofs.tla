--------------------- MODULE SubmissionAcceptanceProofs ---------------------
(***************************************************************************)
(* What acceptance and the sweep promise, for any number of requests, any  *)
(* contexts, cooldowns and times.                                          *)
(*                                                                         *)
(* Nearly every step is about one submission, so most of the invariant is  *)
(* about one request, its row and its execution (RowOk), and one lemma     *)
(* (OneRow) serves all of these steps.  The daily limit is about a set of  *)
(* requests, and has an invariant of its own next to it (LimitInv).        *)
(***************************************************************************)
EXTENDS SubmissionAcceptance, FiniteSetTheorems, TLAPS

ReqType ==
  [pc : {"idle", "arrived", "admitted", "counted", "inserted", "failing", "over"},
   context : Contexts, received : 0 .. MaxTime]
RowType ==
  [status : {"none", "system_error", "judged", "pending_upload", "queued"},
   updated : 0 .. Horizon, erred : BOOLEAN, swept : BOOLEAN]
SweepType == [cutoff : Int, ids : SUBSET Requests, killing : SUBSET Requests]

(* A request q, its row w and the state x of its execution. *)
RowOk(q, w, x) ==
  /\ x # "none" => w.status \in {"queued", "system_error", "judged"}
  /\ x = "completed" <=> w.status = "judged"
  /\ w.swept => w.status = "system_error" /\ x = "none"
  /\ q.pc \in {"idle", "arrived", "admitted", "counted"} => w.status = "none"
  /\ w.status = "system_error" => w.erred

(* A request of the exam that was let in holds the session open. *)
Held(q) ==
  q.context = ExamContext /\ q.pc \in {"admitted", "counted"} => session = "active"

(* A submission about to be given up has no execution, or was published      *)
(* after the sweep fixed its cutoff.                                         *)
Spared(r, c) ==
  exec[r] = "none" \/ row[r].status = "judged" \/ row[r].updated >= c

SweepOk ==
  /\ sweep.killing \subseteq sweep.ids
  /\ sweep.cutoff <= clock
  /\ \A r \in sweep.killing : Spared(r, sweep.cutoff)

(* p is before q by more than the cooldown of the context. *)
Before(p, q) == req[p].received < req[q].received - Cooldown[req[q].context]

SameLimit(p, q) ==
  p # q /\ req[p].context = req[q].context /\ Cooldown[req[q].context] > 0

(* Counting is done under a lock, and looks at all that was inserted. *)
LimitOk(p, q) ==
  SameLimit(p, q) =>
    /\ Clean(p) /\ Clean(q) => Before(p, q) \/ Before(q, p)
    /\ Clean(p) /\ req[q].pc = "counted" => Before(p, q)
    /\ ~(req[p].pc = "counted" /\ req[q].pc = "counted")

(* What a request that has counted knows. *)
Alone(r) ==
  \A p \in Requests : SameLimit(p, r) =>
    req[p].pc # "counted" /\ (Clean(p) => Before(p, r))

IInv ==
  /\ clock \in 0 .. Horizon
  /\ req \in [Requests -> ReqType]
  /\ row \in [Requests -> RowType]
  /\ exec \in [Requests -> {"none", "open", "completed"}]
  /\ session \in {"active", "ended"}
  /\ sweep \in SweepType
  /\ \A r \in Requests : RowOk(req[r], row[r], exec[r]) /\ Held(req[r])
  /\ SweepOk
  /\ \A p, q \in Requests : LimitOk(p, q)

-----------------------------------------------------------------------------
LEMMA Constants ==
  /\ MaxTime \in Nat /\ Horizon \in Nat /\ MaxTime <= Horizon /\ 0 \in 0 .. MaxTime
  /\ ExamContext \in Contexts
  /\ \A c \in Contexts : Cooldown[c] \in Nat
  BY ContextAssumption, TimeAssumption DEF Horizon

LEMMA NoRequestIs ==
  /\ NoRequest \in ReqType
  /\ [NoRequest EXCEPT !.pc = "over"] \in ReqType
  /\ [NoRequest EXCEPT !.pc = "over"].pc = "over"
  /\ NoRequest.pc = "idle"
  BY Constants DEF NoRequest, ReqType

LEMMA NoRowIs ==
  NoRow \in RowType /\ NoRow.status = "none" /\ ~NoRow.swept /\ ~NoRow.erred
  BY Constants DEF NoRow, RowType

LEMMA NoSweepIs ==
  NoSweep \in SweepType /\ NoSweep.killing = {} /\ NoSweep.ids = {} /\ NoSweep.cutoff = 0
  BY DEF NoSweep, SweepType

LEMMA InitIInv == Init => IInv
<1> SUFFICES ASSUME Init PROVE IInv
  OBVIOUS
<1>1. /\ clock = 0 /\ session = "active" /\ sweep = NoSweep
      /\ \A r \in Requests : req[r] = NoRequest /\ row[r] = NoRow /\ exec[r] = "none"
      /\ req \in [Requests -> ReqType] /\ row \in [Requests -> RowType]
      /\ exec \in [Requests -> {"none", "open", "completed"}]
  BY NoRequestIs, NoRowIs DEF Init
<1>2. \A r \in Requests : RowOk(req[r], row[r], exec[r]) /\ Held(req[r])
  BY <1>1, NoRequestIs, NoRowIs DEF RowOk, Held
<1>3. SweepOk
  BY <1>1, NoSweepIs DEF SweepOk
<1>4. \A p, q \in Requests : LimitOk(p, q)
  BY <1>1, NoRequestIs, NoRowIs DEF LimitOk, Clean, Exists
<1>5. clock \in 0 .. Horizon
  BY <1>1, Constants
<1> QED BY <1>1, <1>2, <1>3, <1>4, <1>5, NoSweepIs DEF IInv

(* One submission's request, row and execution change to q, w and x. *)
LEMMA OneRow ==
  ASSUME IInv, NEW r \in Requests, NEW q \in ReqType, NEW w \in RowType,
         NEW x \in {"none", "open", "completed"},
         req' = [req EXCEPT ![r] = q], row' = [row EXCEPT ![r] = w],
         exec' = [exec EXCEPT ![r] = x], UNCHANGED <<clock, session>>,
         sweep' = sweep \/ (sweep' \in SweepType /\ sweep'.killing = {} /\ sweep'.cutoff <= clock),
         RowOk(q, w, x), Held(q),
         x = "none" \/ w.status = "judged" \/ w.updated = clock
           \/ (x = exec[r] /\ w.updated = row[r].updated /\ row[r].status # "judged"),
         q.pc = "counted" \/ (w.status # "none" /\ ~w.erred) =>
           q.context = req[r].context /\ q.received = req[r].received,
         w.status # "none" /\ ~w.erred => Clean(r) \/ req[r].pc = "counted",
         q.pc = "counted" => req[r].pc = "counted" \/ Alone(r)
  PROVE  IInv'
<1>1. /\ req' \in [Requests -> ReqType] /\ row' \in [Requests -> RowType]
      /\ exec' \in [Requests -> {"none", "open", "completed"}]
      /\ req'[r] = q /\ row'[r] = w /\ exec'[r] = x
      /\ \A p \in Requests : p # r => req'[p] = req[p] /\ row'[p] = row[p] /\ exec'[p] = exec[p]
  BY DEF IInv
<1>2. clock \in 0 .. Horizon /\ session \in {"active", "ended"} /\ sweep' \in SweepType
  BY DEF IInv
<1>3. ASSUME NEW p \in Requests
      PROVE  RowOk(req'[p], row'[p], exec'[p]) /\ Held(req[p])'
  <2>1. CASE p = r
    BY <1>1, <2>1 DEF Held
  <2>2. CASE p # r
    BY <1>1, <2>2 DEF Held, IInv
  <2> QED BY <2>1, <2>2
<1>4. SweepOk'
  <2>1. CASE sweep' = sweep
    <3>1. sweep.killing \subseteq Requests /\ sweep.cutoff \in Int /\ sweep.cutoff <= clock
          /\ sweep.killing \subseteq sweep.ids
      BY DEF IInv, SweepOk, SweepType
    <3>2. ASSUME NEW p \in sweep.killing
          PROVE  Spared(p, sweep.cutoff)'
      <4>1. p \in Requests /\ Spared(p, sweep.cutoff)
        BY <3>1 DEF IInv, SweepOk
      <4>2. CASE p # r
        BY <1>1, <2>1, <4>1, <4>2 DEF Spared
      <4>3. CASE p = r
        <5>1. x = "none" \/ w.status = "judged" \/ w.updated >= sweep.cutoff
          BY <1>2, <3>1, <4>1, <4>3 DEF Spared
        <5> QED BY <1>1, <2>1, <4>3, <5>1 DEF Spared
      <4> QED BY <4>2, <4>3
    <3> QED BY <2>1, <3>1, <3>2 DEF SweepOk
  <2>2. CASE sweep'.killing = {} /\ sweep'.cutoff <= clock
    BY <2>2 DEF SweepOk
  <2> QED BY <2>1, <2>2
<1>5. \A p \in Requests : p # r => (Clean(p)' <=> Clean(p))
  BY <1>1 DEF Clean, Exists
<1>6. Clean(r)' => Clean(r) \/ req[r].pc = "counted"
  BY <1>1 DEF Clean, Exists
<1>7. Clean(r)' \/ q.pc = "counted" => q.context = req[r].context /\ q.received = req[r].received
  BY <1>1 DEF Clean, Exists
<1>8. \A p \in Requests : req[p].received \in Nat /\ Cooldown[req[p].context] \in Nat
  BY Constants DEF IInv, ReqType
<1>9. ASSUME NEW p \in Requests, p # r, SameLimit(p, r)'
      PROVE  /\ Clean(p)' /\ Clean(r)' => Before(p, r)' \/ Before(r, p)'
             /\ Clean(p)' /\ q.pc = "counted" => Before(p, r)'
             /\ Clean(r)' /\ req[p].pc = "counted" => Before(r, p)'
             /\ ~(req[p].pc = "counted" /\ q.pc = "counted")
  <2>1. CASE Clean(r)' \/ q.pc = "counted"
    <3>1. SameLimit(p, r) /\ SameLimit(r, p)
      BY <1>1, <1>7, <1>9, <2>1 DEF SameLimit
    <3>2. (Before(p, r)' <=> Before(p, r)) /\ (Before(r, p)' <=> Before(r, p))
      BY <1>1, <1>7, <1>9, <2>1 DEF Before
    <3>3. LimitOk(p, r) /\ LimitOk(r, p)
      BY DEF IInv
    <3> QED BY <1>5, <1>6, <1>9, <3>1, <3>2, <3>3 DEF LimitOk, Alone
  <2>2. CASE ~(Clean(r)' \/ q.pc = "counted")
    BY <2>2
  <2> QED BY <2>1, <2>2
<1>10. ASSUME NEW p \in Requests, NEW s \in Requests
       PROVE  LimitOk(p, s)'
  <2>1. CASE p # r /\ s # r
    <3>1. (SameLimit(p, s)' <=> SameLimit(p, s)) /\ (Before(p, s)' <=> Before(p, s))
          /\ (Before(s, p)' <=> Before(s, p))
      BY <1>1, <2>1 DEF SameLimit, Before
    <3> QED BY <1>1, <1>5, <2>1, <3>1 DEF LimitOk, IInv
  <2>2. CASE p # r /\ s = r
    BY <1>1, <1>9, <2>2 DEF LimitOk
  <2>3. CASE p = r /\ s # r
    <3>1. SameLimit(r, s)' => SameLimit(s, r)'
      BY DEF SameLimit
    <3> QED BY <1>1, <1>9, <2>3, <3>1 DEF LimitOk
  <2>4. CASE p = r /\ s = r
    BY <2>4 DEF LimitOk, SameLimit
  <2> QED BY <2>1, <2>2, <2>3, <2>4
<1> QED BY <1>1, <1>2, <1>3, <1>4, <1>10 DEF IInv

(* Row and execution stay as they are. *)
LEMMA OneRequest ==
  ASSUME IInv, NEW r \in Requests, NEW q \in ReqType,
         req' = [req EXCEPT ![r] = q], UNCHANGED <<clock, row, exec, session, sweep>>,
         RowOk(q, row[r], exec[r]), Held(q),
         q.pc = "counted" \/ Exists(r) =>
           q.context = req[r].context /\ q.received = req[r].received,
         q.pc = "counted" => req[r].pc = "counted" \/ Alone(r)
  PROVE  IInv'
<1>0. PICK w \in RowType, x \in {"none", "open", "completed"} : w = row[r] /\ x = exec[r]
  BY DEF IInv
<1>1. /\ row' = [row EXCEPT ![r] = w] /\ exec' = [exec EXCEPT ![r] = x]
      /\ sweep' = sweep /\ UNCHANGED <<clock, session>>
  BY <1>0 DEF IInv
<1>2. \/ x = "none" \/ w.status = "judged" \/ w.updated = clock
      \/ x = exec[r] /\ w.updated = row[r].updated /\ row[r].status # "judged"
  BY <1>0
<1>3. /\ q.pc = "counted" \/ (w.status # "none" /\ ~w.erred) =>
           q.context = req[r].context /\ q.received = req[r].received
      /\ w.status # "none" /\ ~w.erred => Clean(r) \/ req[r].pc = "counted"
  BY <1>0 DEF Exists, Clean
<1>4. RowOk(q, w, x)
  BY <1>0
<1>5. CASE q.pc = "counted"
  <2>1. w.status = "none" /\ x = "none"
    BY <1>4, <1>5 DEF RowOk
  <2>2. /\ q.context = req[r].context /\ q.received = req[r].received
        /\ req[r].pc = "counted" \/ Alone(r)
    BY <1>3, <1>5
  <2>3. CASE req[r].pc = "counted"
    BY <1>1, <1>4, <1>5, <2>1, <2>2, <2>3, OneRow
  <2>4. CASE Alone(r)
    BY <1>1, <1>4, <1>5, <2>1, <2>2, <2>4, OneRow
  <2> QED BY <2>2, <2>3, <2>4
<1>6. CASE q.pc # "counted" /\ w.status # "none" /\ ~w.erred
  <2>1. /\ q.context = req[r].context /\ q.received = req[r].received
        /\ Clean(r)
    BY <1>0, <1>6 DEF Exists, Clean
  <2> QED BY <1>1, <1>2, <1>4, <1>6, <2>1, OneRow
<1>7. CASE q.pc # "counted" /\ ~(w.status # "none" /\ ~w.erred)
  <2>1. q.pc # "counted" /\ ~(w.status # "none" /\ ~w.erred)
    BY <1>7
  <2>2. sweep' = sweep \/ (sweep' \in SweepType /\ sweep'.killing = {} /\ sweep'.cutoff <= clock)
    BY <1>1
  <2>3. /\ q.pc = "counted" \/ (w.status # "none" /\ ~w.erred) =>
             q.context = req[r].context /\ q.received = req[r].received
        /\ w.status # "none" /\ ~w.erred => Clean(r) \/ req[r].pc = "counted"
        /\ q.pc = "counted" => req[r].pc = "counted" \/ Alone(r)
    BY <2>1
  <2>4. /\ x = "none" \/ w.status = "judged" \/ w.updated = clock
           \/ (x = exec[r] /\ w.updated = row[r].updated /\ row[r].status # "judged")
    BY <1>2
  <2>5. /\ row' = [row EXCEPT ![r] = w] /\ exec' = [exec EXCEPT ![r] = x]
        /\ UNCHANGED <<clock, session>>
    BY <1>1
  <2> QED BY <1>4, <2>2, <2>3, <2>4, <2>5, OneRow, ZenonT(60)
<1> QED BY <1>5, <1>6, <1>7

-----------------------------------------------------------------------------
(* Requests. *)

LEMMA GoesIs ==
  ASSUME IInv, NEW r \in Requests, NEW pc, Goes(r, pc),
         pc \in {"admitted", "counted", "inserted", "failing", "over"}
  PROVE  \E q \in ReqType : /\ req' = [req EXCEPT ![r] = q] /\ q.pc = pc
                            /\ q.context = req[r].context /\ q.received = req[r].received
<1> DEFINE q == [req[r] EXCEPT !.pc = pc]
<1>1. req[r] \in ReqType
  BY DEF IInv
<1>2. q \in ReqType /\ q.pc = pc /\ q.context = req[r].context /\ q.received = req[r].received
  BY <1>1 DEF ReqType
<1>3. req' = [req EXCEPT ![r] = q]
  BY DEF Goes
<1> QED BY <1>2, <1>3

LEMMA EndsStep ==
  ASSUME IInv, NEW r \in Requests, Ends(r), UNCHANGED <<clock, row, exec, session, sweep>>
  PROVE  IInv'
<1>1. RowOk(req[r], row[r], exec[r])
  BY DEF IInv
<1>2. CASE Exists(r)
  <2>1. PICK q \in ReqType : /\ req' = [req EXCEPT ![r] = q] /\ q.pc = "over"
                             /\ q.context = req[r].context /\ q.received = req[r].received
    BY <1>2, GoesIs DEF Ends
  <2>2. RowOk(q, row[r], exec[r]) /\ Held(q)
    BY <1>1, <2>1 DEF RowOk, Held
  <2> QED BY <2>1, <2>2, OneRequest
<1>3. CASE ~Exists(r)
  <2> DEFINE q == [NoRequest EXCEPT !.pc = "over"]
  <2>1. req' = [req EXCEPT ![r] = q] /\ q \in ReqType /\ q.pc = "over"
    BY <1>3, NoRequestIs DEF Ends
  <2> HIDE DEF q
  <2>2. RowOk(q, row[r], exec[r]) /\ Held(q)
    BY <1>1, <2>1 DEF RowOk, Held
  <2> QED BY <1>3, <2>1, <2>2, OneRequest
<1> QED BY <1>2, <1>3

LEMMA ArriveStep ==
  ASSUME IInv, NEW r \in Requests, NEW c \in Contexts, Arrive(r, c)
  PROVE  IInv'
<1> DEFINE q == [context |-> c, received |-> clock,
                 pc |-> IF c = ExamContext THEN "arrived" ELSE "admitted"]
<1>1. /\ RowOk(req[r], row[r], exec[r]) /\ req[r].pc = "idle"
      /\ req' = [req EXCEPT ![r] = q] /\ UNCHANGED <<clock, row, exec, session, sweep>>
  BY DEF IInv, Arrive
<1>2. clock \in 0 .. MaxTime
  BY Constants DEF IInv, Arrive, Serving
<1>3. q \in ReqType /\ q.pc \in {"arrived", "admitted"} /\ (q.context = ExamContext => q.pc = "arrived")
  BY <1>2 DEF ReqType
<1> HIDE DEF q
<1>4. RowOk(q, row[r], exec[r]) /\ Held(q) /\ ~Exists(r)
  BY <1>1, <1>3 DEF RowOk, Held, Exists
<1> QED BY <1>1, <1>3, <1>4, OneRequest

LEMMA AdmitStep ==
  ASSUME IInv, NEW r \in Requests, Admit(r)
  PROVE  IInv'
<1>1. /\ RowOk(req[r], row[r], exec[r]) /\ req[r].pc = "arrived"
      /\ UNCHANGED <<clock, row, exec, session, sweep>>
  BY DEF IInv, Admit
<1>2. CASE Admitted(r)
  <2>1. PICK q \in ReqType : /\ req' = [req EXCEPT ![r] = q] /\ q.pc = "admitted"
                             /\ q.context = req[r].context /\ q.received = req[r].received
    BY <1>2, GoesIs DEF Admit
  <2>2. RowOk(q, row[r], exec[r]) /\ Held(q)
    BY <1>1, <1>2, <2>1 DEF RowOk, Held, Admitted
  <2> QED BY <1>1, <2>1, <2>2, OneRequest
<1>3. CASE ~Admitted(r)
  BY <1>1, <1>3, EndsStep DEF Admit
<1> QED BY <1>2, <1>3

(* The lock of the cooldown, and the look at what was inserted before. *)
LEMMA CountStep ==
  ASSUME IInv, NEW r \in Requests, Count(r)
  PROVE  IInv'
<1> DEFINE c == req[r].context
           refused == \/ Cooldown[c] > 0 /\ CoolingDown(r)
                      \/ DailyLimit[c] > 0 /\ LimitReached(r)
<1>1. /\ RowOk(req[r], row[r], exec[r]) /\ req[r].pc = "admitted" /\ Held(req[r])
      /\ UNCHANGED <<clock, row, exec, session, sweep>>
  BY DEF IInv, Count
<1>2. CASE refused
  <2>1. Ends(r)
    BY <1>2 DEF Count
  <2> QED BY <1>1, <2>1, EndsStep
<1>3. CASE ~refused
  <2>1. Goes(r, "counted")
    BY <1>3 DEF Count
  <2>2. PICK q \in ReqType : /\ req' = [req EXCEPT ![r] = q] /\ q.pc = "counted"
                             /\ q.context = req[r].context /\ q.received = req[r].received
    BY <2>1, GoesIs
  <2>3. RowOk(q, row[r], exec[r]) /\ Held(q)
    BY <1>1, <2>2 DEF RowOk, Held
  <2>4. Alone(r)
    <3> SUFFICES ASSUME NEW p \in Requests, SameLimit(p, r)
                 PROVE  req[p].pc # "counted" /\ (Clean(p) => Before(p, r))
      BY DEF Alone
    <3>1. req[p].context = c /\ Cooldown[c] > 0
      BY DEF SameLimit
    <3>2. Cooldown[c] \in Nat /\ req[p].received \in Nat /\ req[r].received \in Nat
      BY Constants DEF IInv, ReqType
    <3>3. req[p].pc # "counted"
      <4>1. req[p].pc = "counted" => Cooldown[c] = 0
        BY <3>1 DEF Count, LocksFree
      <4> QED BY <3>1, <3>2, <4>1
    <3>4. ASSUME Clean(p) PROVE Before(p, r)
      <4>1. p \in Counted(c)
        BY <3>1, <3>4 DEF Counted, Clean, IInv, RowOk
      <4>2. ~CoolingDown(r)
        BY <1>3, <3>1
      <4>3. ~(req[p].received >= req[r].received - Cooldown[c])
        BY <4>1, <4>2 DEF CoolingDown
      <4> QED BY <3>2, <4>3 DEF Before
    <3> QED BY <3>3, <3>4
  <2> QED BY <1>1, <2>2, <2>3, <2>4, OneRequest
<1> QED BY <1>2, <1>3

LEMMA PublishFailsStep ==
  ASSUME IInv, NEW r \in Requests, PublishFails(r)
  PROVE  IInv'
<1>1. RowOk(req[r], row[r], exec[r]) /\ UNCHANGED <<clock, row, exec, session, sweep>>
  BY DEF IInv, PublishFails
<1>2. PICK q \in ReqType : /\ req' = [req EXCEPT ![r] = q] /\ q.pc = "failing"
                           /\ q.context = req[r].context /\ q.received = req[r].received
  BY GoesIs DEF PublishFails
<1>3. RowOk(q, row[r], exec[r]) /\ Held(q)
  BY <1>1, <1>2 DEF RowOk, Held
<1> QED BY <1>1, <1>2, <1>3, OneRequest

-----------------------------------------------------------------------------
(* Submissions. *)

LEMMA InsertStep ==
  ASSUME IInv, NEW r \in Requests, Insert(r)
  PROVE  IInv'
<1> DEFINE w == [NoRow EXCEPT !.status = "pending_upload", !.updated = clock]
<1>1. /\ RowOk(req[r], row[r], exec[r]) /\ req[r].pc = "counted"
      /\ exec[r] \in {"none", "open", "completed"} /\ clock \in 0 .. Horizon
      /\ UNCHANGED <<clock, exec, session, sweep>>
  BY DEF IInv, Insert
<1>2. PICK q \in ReqType : /\ req' = [req EXCEPT ![r] = q] /\ q.pc = "inserted"
                           /\ q.context = req[r].context /\ q.received = req[r].received
  BY GoesIs DEF Insert
<1>3. w \in RowType /\ w.status = "pending_upload" /\ ~w.swept /\ row' = [row EXCEPT ![r] = w]
  BY <1>1 DEF Insert, NoRow, RowType
<1> HIDE DEF w
<1>4. exec[r] = "none" /\ RowOk(q, w, exec[r]) /\ Held(q)
  BY <1>1, <1>2, <1>3 DEF RowOk, Held
<1>5. exec' = [exec EXCEPT ![r] = exec[r]]
  BY <1>1 DEF IInv
<1> QED BY <1>1, <1>2, <1>3, <1>4, <1>5, OneRow

LEMMA PublishStep ==
  ASSUME IInv, NEW r \in Requests, Publish(r)
  PROVE  IInv'
<1> DEFINE w == [row[r] EXCEPT !.status = "queued", !.updated = clock]
<1>1. /\ RowOk(req[r], row[r], exec[r]) /\ row[r].status = "pending_upload"
      /\ row[r] \in RowType /\ clock \in 0 .. Horizon
      /\ exec' = [exec EXCEPT ![r] = "open"] /\ UNCHANGED <<clock, session, sweep>>
  BY DEF IInv, Publish, StillPending
<1>2. PICK q \in ReqType : /\ req' = [req EXCEPT ![r] = q] /\ q.pc \in {"over", "failing"}
                           /\ q.context = req[r].context /\ q.received = req[r].received
  BY GoesIs DEF Publish
<1>3. /\ w \in RowType /\ w.status = "queued" /\ w.updated = clock
      /\ w.swept = row[r].swept /\ w.erred = row[r].erred /\ row' = [row EXCEPT ![r] = w]
  BY <1>1 DEF Publish, RowType
<1> HIDE DEF w
<1>4. RowOk(q, w, "open") /\ Held(q) /\ (~w.erred => Clean(r))
  BY <1>1, <1>2, <1>3 DEF RowOk, Held, Clean, Exists
<1> QED BY <1>1, <1>2, <1>3, <1>4, OneRow

LEMMA GiveUpStep ==
  ASSUME IInv, NEW r \in Requests, GiveUp(r)
  PROVE  IInv'
<1> DEFINE at == IF exec[r] = "none" THEN 0 ELSE clock
           w == [row[r] EXCEPT !.status = "system_error", !.erred = TRUE, !.updated = at]
<1>1. /\ RowOk(req[r], row[r], exec[r]) /\ row[r] \in RowType /\ clock \in 0 .. Horizon
      /\ exec[r] \in {"none", "open", "completed"} /\ UNCHANGED <<clock, exec, session, sweep>>
  BY DEF IInv, GiveUp
<1>2. PICK q \in ReqType : /\ req' = [req EXCEPT ![r] = q] /\ q.pc = "over"
                           /\ q.context = req[r].context /\ q.received = req[r].received
  BY GoesIs DEF GiveUp
<1>3. CASE StillInProgress(r)
  <2>1. row' = [row EXCEPT ![r] = w]
    BY <1>3 DEF GiveUp
  <2>2. at \in 0 .. Horizon /\ (exec[r] # "none" => at = clock)
    BY <1>1, Constants
  <2>3. /\ w \in RowType /\ w.status = "system_error" /\ w.erred /\ w.updated = at
        /\ w.swept = row[r].swept
    BY <1>1, <2>2 DEF RowType
  <2> HIDE DEF w, at
  <2>4. RowOk(q, w, exec[r]) /\ Held(q)
    BY <1>1, <1>2, <1>3, <2>3 DEF RowOk, Held, StillInProgress, InProgress
  <2>5. exec' = [exec EXCEPT ![r] = exec[r]]
    BY <1>1 DEF IInv
  <2> QED BY <1>1, <1>2, <2>1, <2>2, <2>3, <2>4, <2>5, OneRow
<1>4. CASE ~StillInProgress(r)
  <2>1. row' = row
    BY <1>4 DEF GiveUp
  <2>2. RowOk(q, row[r], exec[r]) /\ Held(q)
    BY <1>1, <1>2 DEF RowOk, Held
  <2> QED BY <1>1, <1>2, <2>1, <2>2, OneRequest
<1> QED BY <1>3, <1>4

LEMMA JudgingStep ==
  ASSUME IInv, NEW r \in Requests, Shows(r) \/ Judge(r)
  PROVE  IInv'
<1>1. /\ RowOk(req[r], row[r], exec[r]) /\ Held(req[r]) /\ exec[r] = "open"
      /\ req[r] \in ReqType /\ row[r] \in RowType
      /\ UNCHANGED <<clock, session, sweep>> /\ req' = [req EXCEPT ![r] = req[r]]
  BY DEF IInv, Shows, Judge
<1>2. CASE Shows(r)
  <2>1. PICK status \in {"queued", "system_error"} :
          row' = [row EXCEPT ![r].status = status,
                             ![r].erred = row[r].erred \/ status = "system_error"]
    BY <1>2 DEF Shows
  <2> DEFINE erred == row[r].erred \/ status = "system_error"
             w == [row[r] EXCEPT !.status = status, !.erred = erred]
  <2>2. row' = [row EXCEPT ![r] = w] /\ exec' = [exec EXCEPT ![r] = "open"]
    BY <1>1, <1>2, <2>1 DEF Shows, IInv
  <2>3. erred \in BOOLEAN /\ (erred <=> row[r].erred \/ status = "system_error")
    BY <1>1 DEF RowType
  <2> HIDE DEF erred
  <2>4. /\ w \in RowType /\ w.status = status /\ w.erred = erred
        /\ w.updated = row[r].updated /\ w.swept = row[r].swept
    BY <1>1, <2>3 DEF RowType
  <2> HIDE DEF w
  <2>5. RowOk(req[r], w, "open") /\ row[r].status # "judged" /\ (~w.erred => Clean(r))
    BY <1>1, <2>3, <2>4 DEF RowOk, Clean, Exists
  <2> QED BY <1>1, <2>2, <2>4, <2>5, OneRow
<1>3. CASE Judge(r)
  <2> DEFINE w == [row[r] EXCEPT !.status = "judged", !.updated = 0]
  <2>1. row' = [row EXCEPT ![r] = w] /\ exec' = [exec EXCEPT ![r] = "completed"]
    BY <1>3 DEF Judge
  <2>2. /\ w \in RowType /\ w.status = "judged" /\ w.erred = row[r].erred
        /\ w.swept = row[r].swept
    <3>1. 0 \in 0 .. Horizon
      BY Constants
    <3> QED BY <1>1, <3>1 DEF RowType
  <2> HIDE DEF w
  <2>3. RowOk(req[r], w, "completed") /\ (~w.erred => Clean(r))
    BY <1>1, <2>2 DEF RowOk, Clean, Exists
  <2> QED BY <1>1, <2>1, <2>2, <2>3, OneRow
<1> QED BY <1>2, <1>3

-----------------------------------------------------------------------------
(* The sweep. *)

LEMMA WithoutIs ==
  ASSUME IInv, NEW r \in Requests
  PROVE  /\ Without(r) \in SweepType /\ Without(r).killing = {}
         /\ Without(r).cutoff <= clock
<1>1. sweep \in SweepType /\ sweep.cutoff <= clock /\ clock \in 0 .. Horizon
  BY DEF IInv, SweepOk
<1>2. CASE sweep.ids = {r}
  BY <1>1, <1>2, NoSweepIs, Constants DEF Without
<1>3. CASE sweep.ids # {r}
  <2> DEFINE rest == sweep.ids \ {r}
  <2>1. Without(r) = [sweep EXCEPT !.ids = rest, !.killing = {}]
    BY <1>3 DEF Without
  <2>2. rest \in SUBSET Requests
    BY <1>1 DEF SweepType
  <2> HIDE DEF rest
  <2> QED BY <1>1, <2>1, <2>2 DEF SweepType
<1> QED BY <1>2, <1>3

(* Whoever the sweep kills has no execution: it would be too young. *)
LEMMA SweepKillsStep ==
  ASSUME IInv, NEW r \in Requests, SweepKills(r)
  PROVE  IInv'
<1> DEFINE w == [status |-> "system_error", erred |-> TRUE, swept |-> TRUE, updated |-> 0]
<1>1. /\ RowOk(req[r], row[r], exec[r]) /\ Held(req[r]) /\ Spared(r, sweep.cutoff)
      /\ req[r] \in ReqType /\ row[r] \in RowType /\ sweep.cutoff \in Int
      /\ exec[r] \in {"none", "open", "completed"}
      /\ UNCHANGED <<clock, req, exec, session>> /\ sweep' = Without(r)
      /\ req' = [req EXCEPT ![r] = req[r]] /\ exec' = [exec EXCEPT ![r] = exec[r]]
  BY DEF IInv, SweepKills, SweepOk, SweepType
<1>2. sweep' \in SweepType /\ sweep'.killing = {} /\ sweep'.cutoff <= clock
  BY <1>1, WithoutIs
<1>3. CASE StillStale(r)
  <2>1. row' = [row EXCEPT ![r] = w]
    BY <1>3 DEF SweepKills
  <2>2. w \in RowType /\ w.status = "system_error" /\ w.erred
    BY Constants DEF RowType
  <2> HIDE DEF w
  <2>3. exec[r] = "none"
    BY <1>1, <1>3, Constants DEF StillStale, Spared, RowType, InProgress
  <2>4. RowOk(req[r], w, exec[r])
    BY <1>1, <1>3, <2>2, <2>3 DEF RowOk, StillStale, InProgress
  <2> QED BY <1>1, <1>2, <2>1, <2>2, <2>3, <2>4, OneRow
<1>4. CASE ~StillStale(r)
  <2>1. row' = [row EXCEPT ![r] = row[r]]
    BY <1>4 DEF SweepKills, IInv
  <2> QED BY <1>1, <1>2, <2>1, OneRow DEF Clean, Exists
<1> QED BY <1>3, <1>4

LEMMA SweepMoves ==
  ASSUME IInv, UNCHANGED <<clock, req, row, exec, session>>, sweep' \in SweepType, SweepOk'
  PROVE  IInv'
<1>1. \A r \in Requests : RowOk(req[r], row[r], exec[r])' /\ Held(req[r])'
  BY DEF IInv, Held
<1>2. \A p, q \in Requests : LimitOk(p, q)'
  BY DEF IInv, LimitOk, SameLimit, Before, Clean, Exists
<1> QED BY <1>1, <1>2 DEF IInv

LEMMA OtherSweepSteps ==
  ASSUME IInv, SweepReads \/ \E r \in Requests : SweepLooks(r) \/ SweepFails(r)
  PROVE  IInv'
<1>1. sweep \in SweepType /\ sweep.cutoff <= clock /\ clock \in 0 .. Horizon
  BY DEF IInv, SweepOk
<1>2. ASSUME UNCHANGED <<clock, req, row, exec, session>>, sweep' \in SweepType,
             sweep'.killing = {}, sweep'.cutoff <= clock
      PROVE  IInv'
  BY <1>2, SweepMoves DEF SweepOk
<1>3. CASE SweepReads
  <2> DEFINE cutoff == clock - Timeout
             stale == {r \in Requests : row[r].status \in StaleStatuses /\ row[r].updated < cutoff}
  <2>1. sweep' = [cutoff |-> cutoff, ids |-> stale, killing |-> {}]
        /\ UNCHANGED <<clock, req, row, exec, session>>
    BY <1>3 DEF SweepReads
  <2>2. cutoff \in Int /\ cutoff <= clock /\ stale \subseteq Requests
    BY <1>1, Constants, TimeAssumption
  <2> HIDE DEF cutoff, stale
  <2>3. sweep' \in SweepType /\ sweep'.killing = {} /\ sweep'.cutoff <= clock
    BY <2>1, <2>2 DEF SweepType
  <2> QED BY <1>2, <2>1, <2>3
<1>4. ASSUME NEW r \in Requests, SweepFails(r)
      PROVE  IInv'
  <2>1. sweep' \in {Without(r), NoSweep} /\ UNCHANGED <<clock, req, row, exec, session>>
    BY <1>4 DEF SweepFails
  <2>2. sweep' \in SweepType /\ sweep'.killing = {} /\ sweep'.cutoff <= clock
    BY <1>1, <2>1, WithoutIs, NoSweepIs, Constants
  <2> QED BY <1>2, <2>1, <2>2
<1>5. ASSUME NEW r \in Requests, SweepLooks(r)
      PROVE  IInv'
  <2>1. UNCHANGED <<clock, req, row, exec, session>> /\ r \in sweep.ids
    BY <1>5 DEF SweepLooks
  <2>2. CASE exec[r] = "none"
    <3> DEFINE next == [sweep EXCEPT !.killing = {r}]
    <3>1. sweep' = next
      BY <1>5, <2>2 DEF SweepLooks
    <3>2. next \in SweepType /\ next.killing = {r} /\ next.cutoff = sweep.cutoff /\ next.ids = sweep.ids
      BY <1>1 DEF SweepType
    <3> HIDE DEF next
    <3>3. SweepOk'
      BY <1>1, <2>1, <2>2, <3>1, <3>2 DEF SweepOk, Spared
    <3> QED BY <2>1, <3>1, <3>2, <3>3, SweepMoves
  <2>3. CASE exec[r] # "none"
    <3>1. sweep' = Without(r)
      BY <1>5, <2>3 DEF SweepLooks
    <3> QED BY <1>2, <2>1, <3>1, WithoutIs
  <2> QED BY <2>2, <2>3
<1> QED BY <1>3, <1>4, <1>5

LEMMA TimeAndSessionSteps ==
  ASSUME IInv, SessionEnds \/ Tick \/ UNCHANGED vars
  PROVE  IInv'
<1>1. /\ UNCHANGED <<req, row, exec, sweep>>
      /\ clock' \in 0 .. Horizon /\ clock <= clock'
      /\ \/ session' = session
         \/ session' = "ended" /\ ~ExamHeld
  BY Constants DEF IInv, SessionEnds, Tick, vars
<1>2. \A r \in Requests : RowOk(req[r], row[r], exec[r])' /\ Held(req[r])'
  BY <1>1 DEF IInv, Held, ExamHeld
<1>3. \A p, q \in Requests : LimitOk(p, q)'
  BY <1>1 DEF IInv, LimitOk, SameLimit, Before, Clean, Exists
<1>4. SweepOk'
  <2>1. sweep.cutoff \in Int /\ sweep.cutoff <= clock /\ clock \in Nat
    BY Constants DEF IInv, SweepOk, SweepType
  <2>2. sweep.cutoff <= clock'
    BY <1>1, <2>1, Constants
  <2> QED BY <1>1, <2>2 DEF IInv, SweepOk, Spared
<1> QED BY <1>1, <1>2, <1>3, <1>4 DEF IInv

LEMMA NextIInv ==
  ASSUME IInv, [Next]_vars
  PROVE  IInv'
<1>1. ASSUME NEW r \in Requests,
             Request(r) \/ Shows(r) \/ Judge(r) \/ SweepOf(r) \/ SweepFails(r)
      PROVE  IInv'
  <2>1. CASE Request(r)
    <3>1. CASE Die(r)
      BY <3>1, EndsStep DEF Die
    <3> QED BY <2>1, <3>1, ArriveStep, AdmitStep, CountStep, InsertStep, PublishStep,
               PublishFailsStep, GiveUpStep DEF Request
  <2>2. CASE Shows(r) \/ Judge(r) \/ SweepOf(r) \/ SweepFails(r)
    BY <2>2, JudgingStep, SweepKillsStep, OtherSweepSteps DEF SweepOf
  <2> QED BY <1>1, <2>1, <2>2
<1> QED BY <1>1, OtherSweepSteps, TimeAndSessionSteps DEF Next

LEMMA AlwaysIInv == Spec => []IInv
<1>1. IInv /\ [Next]_vars => IInv'
  BY NextIInv
<1> QED BY <1>1, InitIInv, PTL DEF Spec

-----------------------------------------------------------------------------
(* Clocks, requests, submissions and sweeps stay in their types. *)
THEOREM TypeCorrect == Spec => []TypeOK
<1>1. IInv => TypeOK
  BY DEF IInv, TypeOK, SweepOk, ReqType, RowType, SweepType, InProgress
<1> QED BY <1>1, AlwaysIInv, PTL

(* Whatever order requests are checked in, and whatever they do between      *)
(* check and insert, two submissions of a context are further apart than its *)
(* cooldown (submit-cooldown.ts:38-70).                                      *)
THEOREM CooldownHolds == Spec => []CooldownKept
<1>1. ASSUME IInv PROVE CooldownKept
  <2> SUFFICES ASSUME NEW p \in Requests, NEW q \in Requests,
                      p # q, Clean(p), Clean(q), req[q].context = req[p].context,
                      Cooldown[req[p].context] > 0, req[p].received <= req[q].received
               PROVE  req[q].received - req[p].received > Cooldown[req[p].context]
    BY DEF CooldownKept
  <2>1. Before(p, q) \/ Before(q, p)
    BY <1>1 DEF IInv, LimitOk, SameLimit
  <2>2. req[p].received \in Nat /\ req[q].received \in Nat /\ Cooldown[req[p].context] \in Nat
    BY <1>1, Constants DEF IInv, ReqType
  <2> QED BY <2>1, <2>2 DEF Before
<1>2. IInv => CooldownKept
  BY <1>1
<1> QED BY <1>2, AlwaysIInv, PTL

(* What the sweep gave up is never judged (sweep.ts:57-88).                  *)
THEOREM GivenUpIsNotJudged == Spec => []SweptIsNotJudged
<1>1. IInv => SweptIsNotJudged
  BY DEF IInv, RowOk, SweptIsNotJudged
<1> QED BY <1>1, AlwaysIInv, PTL

(* The steps that write a submission, each in the state it asks for.         *)
LEMMA RowSteps ==
  ASSUME IInv, [Next]_vars, NEW r \in Requests, row'[r] # row[r]
  PROVE  \/ Insert(r) \/ Publish(r) \/ Shows(r) \/ Judge(r)
         \/ row[r].status \in InProgress /\ row'[r].status = "system_error"
<1>1. PICK p \in Requests : Insert(p) \/ Publish(p) \/ GiveUp(p) \/ Shows(p) \/ Judge(p) \/ SweepKills(p)
  BY DEF Next, Request, SweepOf, Arrive, Admit, Count, PublishFails, Die, SweepLooks, SweepFails,
         SessionEnds, SweepReads, Tick, vars
<1>2. p = r
  BY <1>1 DEF IInv, Insert, Publish, GiveUp, Shows, Judge, SweepKills
<1>3. CASE GiveUp(r)
  <2>1. StillInProgress(r)
    BY <1>3 DEF GiveUp
  <2>2. row'[r].status = "system_error"
    BY <1>3, <2>1 DEF GiveUp, IInv, RowType
  <2> QED BY <2>1, <2>2 DEF StillInProgress
<1>4. CASE SweepKills(r)
  <2>1. StillStale(r)
    BY <1>4 DEF SweepKills
  <2>2. row'[r].status = "system_error"
    BY <1>4, <2>1 DEF SweepKills, IInv
  <2> QED BY <2>1, <2>2 DEF StillStale
<1> QED BY <1>1, <1>2, <1>3, <1>4

(* Nothing is inserted for an exam that was handed in or closed              *)
(* (creation.ts:263-267, 425-446).                                           *)
THEOREM ClosedExamsStayClosed == Spec => NothingAfterClose
<1>1. ASSUME IInv, [Next]_vars, NEW r \in Requests, ~Exists(r), Exists(r)',
             req[r].context = ExamContext
      PROVE  session = "active"
  <2>1. row'[r] # row[r]
    BY <1>1 DEF Exists
  <2>2. RowOk(req[r], row[r], exec[r]) /\ Held(req[r]) /\ row[r].status = "none"
    BY <1>1 DEF IInv, Exists
  <2>3. Insert(r)
    BY <1>1, <2>1, <2>2, RowSteps DEF Publish, StillPending, Shows, Judge, RowOk, InProgress
  <2> QED BY <1>1, <2>2, <2>3 DEF Insert, Held
<1>2. IInv /\ [Next]_vars =>
        [\A r \in Requests : ~Exists(r) /\ Exists(r)' /\ req[r].context = ExamContext
           => session = "active"]_vars
  BY <1>1
<1> QED BY <1>2, AlwaysIInv, PTL DEF Spec, NothingAfterClose

(* A verdict is overwritten neither by a request that failed nor by a sweep  *)
(* (creation.ts:470-486, lifecycle.ts:46-57).                                *)
THEOREM VerdictStays == Spec => VerdictIsKept
<1>1. ASSUME IInv, [Next]_vars, NEW r \in Requests, row[r].status = "judged"
      PROVE  row'[r].status = "judged"
  <2>1. RowOk(req[r], row[r], exec[r])
    BY <1>1 DEF IInv
  <2>2. row'[r] = row[r]
    BY <1>1, <2>1, RowSteps DEF Insert, Publish, StillPending, Shows, Judge, RowOk, InProgress
  <2> QED BY <1>1, <2>2
<1>2. IInv /\ [Next]_vars =>
        [\A r \in Requests : row[r].status = "judged" => row'[r].status = "judged"]_vars
  BY <1>1
<1> QED BY <1>2, AlwaysIInv, PTL DEF Spec, VerdictIsKept

-----------------------------------------------------------------------------
(* The windows of the daily limit. *)

InWindow(t, d) == t >= d * Day + Reset /\ t < (d + 1) * Day + Reset

LEMMA Multiples ==
  ASSUME NEW n \in Nat \ {0}, NEW k \in Int, k >= 1
  PROVE  n * k >= n
OBVIOUS

(* Quotient and remainder are unique. *)
LEMMA Remainder ==
  ASSUME NEW n \in Nat \ {0}, NEW x \in Int, NEW k \in Int, NEW s \in 0 .. n - 1,
         x = (n * k) + s
  PROVE  x % n = s
<1> DEFINE quotient == x \div n
           rest == x % n
<1>1. rest \in 0 .. n - 1 /\ quotient \in Int /\ x = (n * quotient) + rest
  OBVIOUS
<1> HIDE DEF quotient, rest
<1>2. n * (quotient - k) = s - rest
  BY <1>1
<1>3. CASE quotient - k >= 1
  BY <1>1, <1>2, <1>3, Multiples
<1>4. CASE k - quotient >= 1
  <2>1. n * (k - quotient) = rest - s
    BY <1>1, <1>2
  <2> QED BY <1>1, <1>4, <2>1, Multiples
<1>5. CASE quotient = k
  <2>1. rest = s
    BY <1>1, <1>5
  <2> QED BY <2>1 DEF rest
<1> QED BY <1>1, <1>3, <1>4, <1>5

(* A time finds the start of its window. *)
LEMMA StartOfWindow ==
  ASSUME NEW t \in Int, NEW d \in Int, InWindow(t, d)
  PROVE  WindowStart(t) = d * Day + Reset
<1> DEFINE s == t - (d * Day + Reset)
<1>1. Day \in Nat \ {0} /\ Reset \in Int /\ d * Day \in Int
  BY TimeAssumption
<1>2. (d + 1) * Day = d * Day + Day /\ Day * (d + 1) = d * Day + Day
  BY <1>1
<1>3. s \in 0 .. Day - 1
  BY <1>1, <1>2 DEF InWindow
<1>4. t + Day - Reset = (Day * (d + 1)) + s
  BY <1>1, <1>2
<1>5. (t + Day - Reset) % Day = s
  <2> DEFINE x == t + Day - Reset
             k == d + 1
  <2>1. Day \in Nat \ {0} /\ x \in Int /\ k \in Int /\ s \in 0 .. Day - 1 /\ x = (Day * k) + s
    BY <1>1, <1>3, <1>4
  <2> HIDE DEF s, x, k
  <2>2. x % Day = s
    BY <2>1, Remainder
  <2> QED BY <2>2 DEF x
<1> QED BY <1>1, <1>5 DEF WindowStart

-----------------------------------------------------------------------------
(* The daily limit: a request that was counted and is not inserted yet has   *)
(* its place among the attempts.                                             *)

Reserves(r) == Clean(r) \/ req[r].pc = "counted"

Reserved(c, d) ==
  {r \in Requests : Reserves(r) /\ req[r].context = c /\ InWindow(req[r].received, d)}

LimitInv ==
  \A c \in Contexts, d \in Int :
    DailyLimit[c] > 0 => Cardinality(Reserved(c, d)) <= DailyLimit[c]

(* A submission is clean from its insert on, if at all. *)
LEMMA CleanIsInserted ==
  ASSUME IInv, [Next]_vars, NEW r \in Requests, Clean(r)'
  PROVE  Reserves(r)
<1>r. RowOk(req[r], row[r], exec[r]) /\ row[r] \in RowType
  BY DEF IInv
<1>1. CASE row'[r] = row[r]
  BY <1>1 DEF Clean, Exists, Reserves
<1>2. CASE row'[r] # row[r]
  <2>1. CASE Insert(r)
    BY <2>1 DEF Insert, Reserves
  <2>2. CASE Publish(r)
    <3>1. row'[r].erred = row[r].erred /\ row[r].status # "none"
      BY <1>r, <2>2 DEF Publish, StillPending, IInv, RowType
    <3> QED BY <3>1 DEF Clean, Exists, Reserves
  <2>3. CASE Shows(r)
    <3>1. PICK status \in {"queued", "system_error"} :
            row' = [row EXCEPT ![r].status = status,
                               ![r].erred = row[r].erred \/ status = "system_error"]
      BY <2>3 DEF Shows
    <3>2. row'[r].erred = (row[r].erred \/ status = "system_error")
      BY <1>r, <3>1 DEF IInv, RowType
    <3>3. row[r].status # "none"
      BY <1>r, <2>3 DEF Shows, RowOk
    <3> QED BY <3>2, <3>3, Zenon DEF Clean, Exists, Reserves
  <2>4. CASE Judge(r)
    <3>1. row'[r].erred = row[r].erred
      BY <1>r, <2>4 DEF Judge, IInv, RowType
    <3>2. row[r].status # "none"
      BY <1>r, <2>4 DEF Judge, RowOk
    <3> QED BY <3>1, <3>2 DEF Clean, Exists, Reserves
  <2>5. CASE row[r].status \in InProgress /\ row'[r].status = "system_error"
    <3>1. row'[r].erred
      BY <2>5, NextIInv DEF IInv, RowOk
    <3> QED BY <3>1 DEF Clean
  <2> QED BY <1>2, <2>1, <2>2, <2>3, <2>4, <2>5, RowSteps
<1> QED BY <1>1, <1>2

(* Context and time of a request stay, except that a request arrives and     *)
(* one that leaves no submission is forgotten.                               *)
LEMMA RequestSteps ==
  ASSUME IInv, [Next]_vars, NEW r \in Requests, req'[r] # req[r]
  PROVE  /\ \/ req'[r].context = req[r].context /\ req'[r].received = req[r].received
            \/ req'[r].pc # "counted" /\ row'[r].status = "none"
         /\ req'[r].pc = "counted" => Count(r)
<1>t. /\ req \in [Requests -> ReqType] /\ req[r] \in ReqType
      /\ RowOk(req[r], row[r], exec[r])
  BY DEF IInv
<1>1. PICK p \in Requests : Request(p)
  BY DEF Next, Shows, Judge, SweepOf, SweepLooks, SweepKills, SweepFails, SessionEnds, SweepReads,
     Tick, vars
<1> DEFINE Kept == req'[r].context = req[r].context /\ req'[r].received = req[r].received
<1>g. ASSUME NEW pc, Goes(p, pc) PROVE p = r /\ Kept /\ req'[r].pc = pc
  BY <1>t, <1>g DEF Goes, ReqType
<1>e. ASSUME Ends(p), row' = row
      PROVE  p = r /\ req'[r].pc = "over" /\ (Kept \/ row'[r].status = "none")
  <2>1. CASE Exists(p)
    BY <1>e, <1>g, <2>1 DEF Ends
  <2>2. CASE ~Exists(p)
    <3>1. req' = [req EXCEPT ![p] = [NoRequest EXCEPT !.pc = "over"]]
      BY <1>e, <2>2 DEF Ends
    <3>2. p = r
      BY <1>t, <3>1
    <3> QED BY <1>t, <1>e, <2>2, <3>1, <3>2, NoRequestIs DEF Exists
  <2> QED BY <2>1, <2>2
<1>2. ASSUME NEW c \in Contexts, Arrive(p, c)
      PROVE  req'[r].pc # "counted" /\ row'[r].status = "none"
  <2>1. p = r
    BY <1>t, <1>2 DEF Arrive
  <2>2. req'[r].pc \in {"arrived", "admitted"}
    BY <1>t, <1>2, <2>1 DEF Arrive
  <2>3. row' = row /\ row[r].status = "none"
    BY <1>t, <1>2, <2>1 DEF Arrive, RowOk
  <2> QED BY <2>2, <2>3
<1>3. CASE Admit(p)
  <2>1. (Goes(p, "admitted") \/ Ends(p)) /\ row' = row
    BY <1>3 DEF Admit
  <2> QED BY <1>e, <1>g, <2>1
<1>4. CASE Count(p)
  <2>1. (Goes(p, "counted") \/ Ends(p)) /\ row' = row
    BY <1>4 DEF Count
  <2> QED BY <1>4, <1>e, <1>g, <2>1
<1>5. CASE Insert(p) \/ Publish(p) \/ PublishFails(p) \/ GiveUp(p)
  <2>1. \E pc \in {"inserted", "over", "failing"} : Goes(p, pc)
    BY <1>5 DEF Insert, Publish, PublishFails, GiveUp
  <2> QED BY <1>g, <2>1
<1>6. CASE Die(p)
  BY <1>6, <1>e DEF Die
<1> QED BY <1>1, <1>2, <1>3, <1>4, <1>5, <1>6 DEF Request

(* Only counting takes a place. *)
LEMMA PlacesStay ==
  ASSUME IInv, [Next]_vars, NEW r \in Requests, Reserves(r)'
  PROVE  /\ Reserves(r) \/ (Count(r) /\ req'[r].pc = "counted")
         /\ req'[r].context = req[r].context /\ req'[r].received = req[r].received
<1>1. Clean(r)' => Reserves(r)
  BY CleanIsInserted
<1>2. CASE req'[r] = req[r]
  BY <1>1, <1>2 DEF Reserves
<1>3. CASE req'[r] # req[r]
  BY <1>1, <1>3, RequestSteps DEF Reserves, Clean, Exists
<1> QED BY <1>2, <1>3

(* Who counts sees every place of its window, and there is one left. *)
LEMMA PlaceIsLeft ==
  ASSUME IInv, NEW r \in Requests, Count(r), req'[r].pc = "counted",
         NEW d \in Int, InWindow(req[r].received, d), DailyLimit[req[r].context] > 0
  PROVE  Cardinality(Reserved(req[r].context, d)) < DailyLimit[req[r].context]
<1> DEFINE c == req[r].context
           seen == {q \in Counted(c) : req[q].received >= WindowStart(req[r].received)}
<1>t. /\ c \in Contexts /\ DailyLimit[c] \in Nat
      /\ \A q \in Requests : req[q].received \in Int /\ RowOk(req[q], row[q], exec[q])
  BY ContextAssumption, TimeAssumption DEF IInv, ReqType
<1>1. ~LimitReached(r) /\ LocksFree(r)
  <2>1. ~Ends(r)
    <3>1. Exists(r) => req'[r].pc = "over"
      BY DEF Count, IInv, RowOk, Exists
    <3>2. ~Exists(r) /\ Ends(r) => req'[r].pc = "over"
      BY NoRequestIs DEF Ends, IInv
    <3> QED BY <3>1, <3>2
  <2> QED BY <2>1 DEF Count
<1>2. Cardinality(seen) < DailyLimit[c]
  <2>1. IsFiniteSet(seen)
    BY RequestAssumption, FS_Subset DEF Counted
  <2>2. Cardinality(seen) \in Nat
    BY <2>1, FS_CardinalityType
  <2>3. ~(Cardinality(seen) >= DailyLimit[c])
    BY <1>1 DEF LimitReached
  <2> HIDE DEF seen, c
  <2> QED BY <1>t, <2>2, <2>3
<1>3. Reserved(c, d) \subseteq seen
  <2> SUFFICES ASSUME NEW q \in Reserved(c, d) PROVE q \in seen
    OBVIOUS
  <2>1. q \in Requests /\ Reserves(q) /\ req[q].context = c /\ InWindow(req[q].received, d)
    BY DEF Reserved
  <2>2. /\ WindowStart(req[q].received) = d * Day + Reset
        /\ WindowStart(req[r].received) = d * Day + Reset
    BY <1>t, <2>1, StartOfWindow
  <2>3. req[q].pc # "counted"
    <3>1. req[q].pc = "counted" =>
            DailyLimit[c] = 0 \/ WindowStart(req[q].received) # WindowStart(req[r].received)
      BY <1>1, <2>1 DEF LocksFree
    <3> QED BY <2>2, <3>1
  <2>4. q \in Counted(c)
    BY <1>t, <2>1, <2>3 DEF Reserves, Clean, Counted, RowOk
  <2>5. req[q].received >= WindowStart(req[r].received)
    BY <2>1, <2>2 DEF InWindow
  <2> QED BY <2>4, <2>5
<1>4. IsFiniteSet(seen)
  BY RequestAssumption, FS_Subset DEF Counted
<1>5. /\ Cardinality(Reserved(c, d)) <= Cardinality(seen)
      /\ Cardinality(Reserved(c, d)) \in Nat /\ Cardinality(seen) \in Nat
  BY <1>3, <1>4, FS_Subset, FS_CardinalityType
<1> HIDE DEF seen, c
<1>6. Cardinality(Reserved(c, d)) < DailyLimit[c]
  BY <1>t, <1>2, <1>5
<1> QED BY <1>6 DEF c

LEMMA LimitStep ==
  ASSUME IInv, LimitInv, [Next]_vars
  PROVE  LimitInv'
<1> SUFFICES ASSUME NEW c \in Contexts, NEW d \in Int, DailyLimit[c] > 0
             PROVE  Cardinality(Reserved(c, d)') <= DailyLimit[c]
  BY DEF LimitInv
<1>1. \A s \in Requests : s \in Reserved(c, d)' =>
        \/ s \in Reserved(c, d)
        \/ /\ Count(s) /\ req'[s].pc = "counted"
           /\ req[s].context = c /\ InWindow(req[s].received, d)
  BY PlacesStay DEF Reserved, InWindow
<1>2. /\ IsFiniteSet(Reserved(c, d)) /\ IsFiniteSet(Reserved(c, d)')
      /\ Cardinality(Reserved(c, d)) \in Nat /\ Cardinality(Reserved(c, d)') \in Nat
  <2>1. Reserved(c, d) \subseteq Requests /\ Reserved(c, d)' \subseteq Requests
    BY DEF Reserved
  <2> QED BY <2>1, RequestAssumption, FS_Subset, FS_CardinalityType
<1>3. DailyLimit[c] \in Nat /\ Cardinality(Reserved(c, d)) <= DailyLimit[c]
  BY ContextAssumption DEF LimitInv
<1>s. Reserved(c, d)' \subseteq Requests
  BY DEF Reserved
<1>4. CASE Reserved(c, d)' \subseteq Reserved(c, d)
  <2>1. Cardinality(Reserved(c, d)') <= Cardinality(Reserved(c, d))
    BY <1>2, <1>4, FS_Subset
  <2> QED BY <1>2, <1>3, <2>1
<1>5. CASE ~(Reserved(c, d)' \subseteq Reserved(c, d))
  <2>1. PICK r \in Requests : /\ Count(r) /\ req'[r].pc = "counted"
                              /\ req[r].context = c /\ InWindow(req[r].received, d)
    BY <1>1, <1>5, <1>s
  <2>2. Cardinality(Reserved(c, d)) < DailyLimit[c]
    BY <2>1, PlaceIsLeft
  <2>3. Reserved(c, d)' \subseteq Reserved(c, d) \cup {r}
    <3>1. \A s \in Requests : Count(s) /\ req'[s].pc = "counted" => s = r
      <4> SUFFICES ASSUME NEW s \in Requests, s # r, Count(s), req'[s].pc = "counted"
                   PROVE  FALSE
        OBVIOUS
      <4>1. req[s].pc = "admitted"
        BY DEF Count
      <4>2. Goes(r, "counted") \/ Ends(r)
        BY <2>1 DEF Count
      <4>3. req'[s] = req[s]
        BY <4>2 DEF Goes, Ends, IInv
      <4> QED BY <4>1, <4>3
    <3> QED BY <1>1, <1>s, <3>1
  <2>4. /\ IsFiniteSet(Reserved(c, d) \cup {r})
        /\ Cardinality(Reserved(c, d) \cup {r}) <= Cardinality(Reserved(c, d)) + 1
        /\ Cardinality(Reserved(c, d) \cup {r}) \in Nat
    <3>1. /\ IsFiniteSet(Reserved(c, d) \cup {r})
          /\ Cardinality(Reserved(c, d) \cup {r}) =
               IF r \in Reserved(c, d) THEN Cardinality(Reserved(c, d))
               ELSE Cardinality(Reserved(c, d)) + 1
      BY <1>2, FS_AddElement, Zenon
    <3> QED BY <1>2, <3>1
  <2>5. Cardinality(Reserved(c, d)') <= Cardinality(Reserved(c, d) \cup {r})
    BY <2>3, <2>4, FS_Subset
  <2> QED BY <1>2, <1>3, <2>2, <2>4, <2>5
<1> QED BY <1>4, <1>5

(* However many requests are checked together, no day has more submissions   *)
(* of a context than its limit, in which a submission that showed a system   *)
(* error does not count (assertDailyAttemptLimit).                           *)
THEOREM DailyLimitHolds == Spec => []DailyLimitKept
<1>1. Init => LimitInv
  <2> SUFFICES ASSUME Init, NEW c \in Contexts, NEW d \in Int, DailyLimit[c] > 0
               PROVE  Cardinality(Reserved(c, d)) <= DailyLimit[c]
    BY DEF LimitInv
  <2>1. Reserved(c, d) = {}
    BY DEF Init, Reserved, Reserves, Clean, Exists, NoRequest, NoRow
  <2> QED BY <2>1, FS_EmptySet, ContextAssumption
<1>2. IInv /\ LimitInv /\ [Next]_vars => LimitInv'
  BY LimitStep
<1>3. LimitInv => DailyLimitKept
  <2> SUFFICES ASSUME LimitInv, NEW c \in Contexts, NEW d \in {-1} \cup 0 .. MaxTime,
                      DailyLimit[c] > 0
               PROVE  Cardinality({r \in Requests :
                        /\ Clean(r) /\ req[r].context = c
                        /\ req[r].received >= d * Day + Reset
                        /\ req[r].received < (d + 1) * Day + Reset}) <= DailyLimit[c]
    BY DEF DailyLimitKept
  <2> DEFINE attempts == {r \in Requests :
                        /\ Clean(r) /\ req[r].context = c
                        /\ req[r].received >= d * Day + Reset
                        /\ req[r].received < (d + 1) * Day + Reset}
  <2>1. d \in Int /\ DailyLimit[c] \in Nat /\ Cardinality(Reserved(c, d)) <= DailyLimit[c]
    BY TimeAssumption, ContextAssumption DEF LimitInv
  <2>2. attempts \subseteq Reserved(c, d) /\ Reserved(c, d) \subseteq Requests
    BY DEF Reserved, Reserves, InWindow
  <2> HIDE DEF attempts
  <2>3. IsFiniteSet(Reserved(c, d))
    BY <2>2, RequestAssumption, FS_Subset
  <2>4. /\ Cardinality(attempts) <= Cardinality(Reserved(c, d))
        /\ Cardinality(attempts) \in Nat /\ Cardinality(Reserved(c, d)) \in Nat
    BY <2>2, <2>3, FS_Subset, FS_CardinalityType
  <2>5. Cardinality(attempts) <= DailyLimit[c]
    BY <2>1, <2>4
  <2> QED BY <2>5 DEF attempts
<1> QED BY <1>1, <1>2, <1>3, AlwaysIInv, PTL DEF Spec
=============================================================================
