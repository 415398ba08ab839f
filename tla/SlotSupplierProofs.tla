-------------------------- MODULE SlotSupplierProofs --------------------------
(***************************************************************************)
(* The safety properties of the judge's activity slots, for any number of  *)
(* callers, any limits of the budget and any capacity signals.             *)
(***************************************************************************)
EXTENDS SlotSupplier, FiniteSetTheorems, SequenceTheorems, TLAPS

Permits == {"none", "waiting", "reserved", "used"}

(* What PauseIsKept relies on: of a pause at most what was sampled since the *)
(* signal has run off.                                                       *)
PauseRemembered == \A k \in Kinds : quiet[k] + pausedSamples >= Pause[k]

IInv == TypeOK /\ SlotsAreCounted /\ NoIdleSlot /\ PauseRemembered

-----------------------------------------------------------------------------
(* Arithmetic of the helpers.                                               *)

LEMMA SmallerFact ==
  ASSUME NEW a \in Int, NEW b \in Int
  PROVE  /\ Smaller(a, b) \in {a, b} /\ Smaller(a, b) <= a /\ Smaller(a, b) <= b
         /\ Larger(a, b) \in {a, b} /\ Larger(a, b) >= a /\ Larger(a, b) >= b
BY DEF Smaller, Larger

(* The budget never shrinks below Min, and never grows by shrinking. *)
LEMMA ShrunkFact ==
  ASSUME budget \in Min .. Max, used \in Nat
  PROVE  Shrunk \in Min .. Max /\ Shrunk <= budget
BY SlotAssumption DEF Shrunk, Smaller, Larger

(* Woken takes what is there, and fills the budget or empties the queue. *)
LEMMA WokenFact ==
  ASSUME NEW b \in Nat, NEW i \in Nat, Len(waiters) \in Nat
  PROVE  /\ Woken(b, i) \in 0 .. Len(waiters)
         /\ Woken(b, i) # 0 => i + Woken(b, i) <= b
         /\ Woken(b, i) = Len(waiters) \/ i + Woken(b, i) >= b
BY DEF Woken, Smaller

-----------------------------------------------------------------------------
(* Queues without repetition.                                               *)

Distinct(s) == \A m, n \in 1 .. Len(s) : s[m] = s[n] => m = n

(* The first k members of a queue are k callers. *)
LEMMA PrefixCardinality ==
  ASSUME NEW s \in Seq(Callers), Distinct(s), NEW k \in 0 .. Len(s)
  PROVE  LET P == {c \in Callers : \E n \in 1 .. k : s[n] = c}
         IN IsFiniteSet(P) /\ Cardinality(P) = k
<1> DEFINE P == {c \in Callers : \E n \in 1 .. k : s[n] = c}
           f == [n \in 1 .. k |-> s[n]]
<1>1. \A n \in 1 .. k : n \in 1 .. Len(s) /\ s[n] \in Callers
  OBVIOUS
<1>2. f \in [1 .. k -> P]
  BY <1>1
<1>3. f \in Injection(1 .. k, P)
  BY <1>1, <1>2 DEF Injection, IsInjective, Distinct
<1>4. f \in Surjection(1 .. k, P)
  BY <1>2 DEF Surjection
<1>5. ExistsBijection(1 .. k, P)
  BY <1>3, <1>4 DEF ExistsBijection, Bijection
<1>6. IsFiniteSet(P)
  BY <1>5, FS_NatBijection
<1>7. Cardinality(P) = k
  BY <1>5, FS_CountingElements
<1> QED BY <1>6, <1>7

LEMMA RestIsQueue ==
  ASSUME NEW s \in Seq(Callers), Distinct(s), NEW k \in 0 .. Len(s)
  PROVE  LET t == SubSeq(s, k + 1, Len(s))
         IN /\ t \in Seq(Callers) /\ Len(t) = Len(s) - k /\ Distinct(t)
            /\ \A n \in 1 .. Len(t) : t[n] = s[n + k]
            /\ \A c \in Callers : (\E n \in 1 .. Len(t) : t[n] = c)
                 <=> (\E n \in 1 .. Len(s) : s[n] = c) /\ ~\E n \in 1 .. k : s[n] = c
<1> DEFINE t == SubSeq(s, k + 1, Len(s))
<1>1. t \in Seq(Callers) /\ Len(t) = Len(s) - k
  OBVIOUS
<1>2. \A n \in 1 .. Len(t) : t[n] = s[n + k]
  OBVIOUS
<1>3. Distinct(t)
  BY <1>1, <1>2 DEF Distinct
<1>4. ASSUME NEW c \in Callers
      PROVE  (\E n \in 1 .. Len(t) : t[n] = c)
                 <=> (\E n \in 1 .. Len(s) : s[n] = c) /\ ~\E n \in 1 .. k : s[n] = c
  <2>1. ASSUME NEW n \in 1 .. Len(t), t[n] = c
        PROVE  (\E m \in 1 .. Len(s) : s[m] = c) /\ ~\E m \in 1 .. k : s[m] = c
    <3>1. n + k \in 1 .. Len(s) /\ s[n + k] = c
      BY <1>1, <1>2, <2>1
    <3> QED BY <3>1 DEF Distinct
  <2>2. ASSUME NEW m \in 1 .. Len(s), s[m] = c, ~\E n \in 1 .. k : s[n] = c
        PROVE  \E n \in 1 .. Len(t) : t[n] = c
    <3>1. m - k \in 1 .. Len(t)
      BY <1>1, <2>2
    <3>2. t[m - k] = s[m]
      BY <1>2, <3>1
    <3> QED BY <2>2, <3>1, <3>2
  <2> QED BY <2>1, <2>2
<1> QED BY <1>1, <1>2, <1>3, <1>4

(* The oldest waiter of a caller is taken out of the queue by onAbort. *)
LEMMA LeftIsQueue ==
  ASSUME waiters \in Seq(Callers), Distinct(waiters), NEW c \in Callers,
         \E n \in 1 .. Len(waiters) : waiters[n] = c
  PROVE  /\ LeftQueue(c) \in Seq(Callers) /\ Distinct(LeftQueue(c))
         /\ \A d \in Callers : (\E n \in 1 .. Len(LeftQueue(c)) : LeftQueue(c)[n] = d)
              <=> d # c /\ \E n \in 1 .. Len(waiters) : waiters[n] = d
<1> DEFINE n == CHOOSE m \in 1 .. Len(waiters) : waiters[m] = c
           t == SubSeq(waiters, 1, n - 1) \o SubSeq(waiters, n + 1, Len(waiters))
<1>1. n \in 1 .. Len(waiters) /\ waiters[n] = c
  OBVIOUS
<1>2. LeftQueue(c) = t
  BY DEF LeftQueue
<1> HIDE DEF n
<1>3. t \in Seq(Callers) /\ Len(t) = Len(waiters) - 1
         /\ \A m \in 1 .. Len(t) : t[m] = waiters[IF m < n THEN m ELSE m + 1]
  <2> DEFINE front == SubSeq(waiters, 1, n - 1)
             rest == SubSeq(waiters, n + 1, Len(waiters))
  <2>1. /\ front \in Seq(Callers) /\ Len(front) = n - 1
        /\ \A m \in 1 .. n - 1 : front[m] = waiters[m]
    BY <1>1
  <2>2. /\ rest \in Seq(Callers) /\ Len(rest) = Len(waiters) - n
        /\ \A m \in 1 .. Len(waiters) - n : rest[m] = waiters[n + m]
    BY <1>1
  <2>3. t = front \o rest
    OBVIOUS
  <2> HIDE DEF front, rest, t
  <2>4. t \in Seq(Callers) /\ Len(t) = Len(waiters) - 1
    <3>1. Len(t) = Len(front) + Len(rest) /\ t \in Seq(Callers)
      BY <2>1, <2>2, <2>3, ConcatProperties
    <3>2. n \in Nat /\ Len(waiters) \in Nat
      BY <1>1
    <3> QED BY <2>1, <2>2, <3>1, <3>2
  <2>5. ASSUME NEW m \in 1 .. Len(t)
        PROVE  t[m] = waiters[IF m < n THEN m ELSE m + 1]
    <3>3. /\ m \in 1 .. Len(front) + Len(rest) /\ m \in Nat /\ n \in Nat /\ Len(front) = n - 1
          /\ t[m] = IF m <= Len(front) THEN front[m] ELSE rest[m - Len(front)]
      <4>1. /\ Len(t) = Len(front) + Len(rest)
            /\ \A i \in 1 .. Len(front) + Len(rest) :
                 t[i] = IF i <= Len(front) THEN front[i] ELSE rest[i - Len(front)]
        BY <2>1, <2>2, <2>3, ConcatProperties
      <4> QED BY <1>1, <2>1, <4>1
    <3>1. CASE m < n
      <4>1. m <= Len(front) /\ m \in 1 .. n - 1
        BY <3>1, <3>3
      <4> QED BY <2>1, <3>1, <3>3, <4>1
    <3>2. CASE m >= n
      <4>1. t[m] = rest[m - (n - 1)]
        BY <3>2, <3>3
      <4>2. m - (n - 1) \in 1 .. Len(waiters) - n /\ n + (m - (n - 1)) = m + 1
        BY <1>1, <2>4, <3>2
      <4> QED BY <1>1, <2>2, <2>4, <3>2, <4>1, <4>2
    <3> QED BY <1>1, <2>4, <3>1, <3>2
  <2> QED BY <2>4, <2>5
<1> HIDE DEF t
<1>5. Distinct(t)
  <2> DEFINE at(m) == IF m < n THEN m ELSE m + 1
  <2>1. SUFFICES ASSUME NEW l \in 1 .. Len(t), NEW m \in 1 .. Len(t), t[l] = t[m]
                 PROVE  l = m
    BY DEF Distinct
  <2>2. at(l) \in 1 .. Len(waiters) /\ at(m) \in 1 .. Len(waiters)
    BY <1>1, <1>3
  <2>3. waiters[at(l)] = waiters[at(m)]
    BY <1>3, <2>1
  <2>4. at(l) = at(m)
    BY <2>2, <2>3 DEF Distinct
  <2> QED BY <1>1, <1>3, <2>4
<1>6. ASSUME NEW d \in Callers
      PROVE  (\E m \in 1 .. Len(t) : t[m] = d)
               <=> d # c /\ \E m \in 1 .. Len(waiters) : waiters[m] = d
  <2>1. ASSUME NEW m \in 1 .. Len(t), t[m] = d
        PROVE  d # c /\ \E l \in 1 .. Len(waiters) : waiters[l] = d
    BY <1>1, <1>3, <2>1 DEF Distinct
  <2>2. ASSUME d # c, NEW l \in 1 .. Len(waiters), waiters[l] = d
        PROVE  \E m \in 1 .. Len(t) : t[m] = d
    <3>1. CASE l < n
      BY <1>1, <1>3, <2>2, <3>1
    <3>2. CASE l > n
      <4>1. l - 1 \in 1 .. Len(t) /\ t[l - 1] = waiters[l]
        BY <1>1, <1>3, <3>2
      <4> QED BY <2>2, <4>1
    <3> QED BY <1>1, <2>2, <3>1, <3>2
  <2> QED BY <2>1, <2>2
<1> QED BY <1>2, <1>3, <1>5, <1>6

-----------------------------------------------------------------------------
(* Waking.                                                                  *)

HeldOf(p) == {c \in Callers : p[c] \in {"reserved", "used"}}
UsedOf(p) == {c \in Callers : p[c] = "used"}

LEMMA HeldFinite ==
  ASSUME NEW p
  PROVE  /\ IsFiniteSet(HeldOf(p)) /\ Cardinality(HeldOf(p)) \in Nat
         /\ IsFiniteSet(UsedOf(p)) /\ Cardinality(UsedOf(p)) \in Nat
         /\ Cardinality(UsedOf(p)) <= Cardinality(HeldOf(p))
<1>1. IsFiniteSet(HeldOf(p))
  BY SlotAssumption, FS_Subset DEF HeldOf
<1>2. UsedOf(p) \in SUBSET HeldOf(p)
  BY DEF HeldOf, UsedOf
<1>3. IsFiniteSet(UsedOf(p)) /\ Cardinality(UsedOf(p)) <= Cardinality(HeldOf(p))
  BY <1>1, <1>2, FS_Subset
<1> QED BY <1>1, <1>3, FS_CardinalityType

(* From permits of which i are out, a queue of exactly those who wait, and a *)
(* budget b, Wake leaves counters and queue exact, nobody waiting beside a   *)
(* free slot, and gives no permit beyond the budget.                         *)
LEMMA WakeStep ==
  ASSUME waiters \in Seq(Callers), Distinct(waiters),
         NEW b \in Min .. Max, NEW i \in 0 .. Max, NEW p \in [Callers -> Permits],
         i = Cardinality(HeldOf(p)),
         \A c \in Callers : p[c] = "waiting" <=> \E n \in 1 .. Len(waiters) : waiters[n] = c,
         Wake(b, i, p)
  PROVE  /\ issued' \in 0 .. Max /\ waiters' \in Seq(Callers) /\ permit' \in [Callers -> Permits]
         /\ issued' = Cardinality(HeldOf(permit')) /\ UsedOf(permit') = UsedOf(p)
         /\ QueueIsExact'
         /\ waiters' # <<>> => issued' >= b
         /\ issued' # i => issued' <= b
         /\ \A c \in Callers : permit'[c] # p[c] => p[c] = "waiting" /\ permit'[c] = "reserved"
         /\ issued' = i => permit' = p
<1> DEFINE k == Woken(b, i)
           P == {c \in Callers : \E n \in 1 .. k : waiters[n] = c}
<1>1. b \in Nat /\ b <= Max /\ Max \in Nat /\ Len(waiters) \in Nat
  BY SlotAssumption
<1>2. /\ k \in 0 .. Len(waiters)
      /\ k # 0 => i + k <= b
      /\ k = Len(waiters) \/ i + k >= b
  BY <1>1, WokenFact
<1>3. /\ issued' = i + k
      /\ waiters' = SubSeq(waiters, k + 1, Len(waiters))
      /\ permit' = [c \in Callers |-> IF c \in P THEN "reserved" ELSE p[c]]
  BY DEF Wake
<1>4. IsFiniteSet(P) /\ Cardinality(P) = k
  BY <1>2, PrefixCardinality
<1> HIDE DEF k
<1>5. P \subseteq Callers /\ \A c \in P : p[c] = "waiting"
  BY <1>2
<1>6. issued' \in 0 .. Max
  BY <1>1, <1>2, <1>3
<1>7. permit' \in [Callers -> Permits]
  BY <1>3 DEF Permits
<1>8. /\ waiters' \in Seq(Callers) /\ Len(waiters') = Len(waiters) - k
      /\ Distinct(waiters')
      /\ \A c \in Callers : (\E n \in 1 .. Len(waiters') : waiters'[n] = c)
              <=> (\E n \in 1 .. Len(waiters) : waiters[n] = c) /\ c \notin P
  <2> DEFINE w == SubSeq(waiters, k + 1, Len(waiters))
  <2>1. /\ w \in Seq(Callers) /\ Len(w) = Len(waiters) - k /\ Distinct(w)
        /\ \A c \in Callers : (\E n \in 1 .. Len(w) : w[n] = c)
             <=> (\E n \in 1 .. Len(waiters) : waiters[n] = c) /\ ~\E n \in 1 .. k : waiters[n] = c
    BY <1>2, RestIsQueue
  <2>2. waiters' = w
    BY <1>3
  <2> HIDE DEF w
  <2> QED BY <2>1, <2>2
<1>9. issued' = Cardinality(HeldOf(permit'))
  <2>1. HeldOf(permit') = HeldOf(p) \cup P /\ HeldOf(p) \cap P = {}
    BY <1>3, <1>5 DEF HeldOf
  <2>2. IsFiniteSet(HeldOf(p)) /\ Cardinality(HeldOf(p)) \in Nat
    BY HeldFinite
  <2> HIDE DEF P
  <2>3. Cardinality(HeldOf(p) \cup P) = Cardinality(HeldOf(p)) + Cardinality(P) - 0
    BY <1>4, <2>1, <2>2, FS_Union, FS_EmptySet
  <2>4. issued' = i + k /\ k \in Nat /\ i \in Nat
    BY <1>1, <1>2, <1>3
  <2>5. HeldOf(permit') = HeldOf(p) \cup P
    BY <2>1
  <2>6. Cardinality(HeldOf(permit')) = i + k
    BY <1>4, <2>3, <2>4, <2>5
  <2> QED BY <2>4, <2>6
<1>10. UsedOf(permit') = UsedOf(p)
  BY <1>3, <1>5 DEF UsedOf
<1>11. QueueIsExact'
  <2>1. \A c \in Callers : permit'[c] = "waiting" <=> p[c] = "waiting" /\ c \notin P
    BY <1>3
  <2> QED BY <1>8, <2>1 DEF QueueIsExact, Distinct
<1>12. waiters' # <<>> => issued' >= b
  BY <1>2, <1>3, <1>8
<1>13. issued' # i => issued' <= b
  BY <1>1, <1>2, <1>3
<1>14. \A c \in Callers : permit'[c] # p[c] => p[c] = "waiting" /\ permit'[c] = "reserved"
  BY <1>3, <1>5
<1>15. issued' = i => permit' = p
  BY <1>2, <1>3
<1> QED BY <1>6, <1>7, <1>8, <1>9, <1>10, <1>11, <1>12, <1>13, <1>14, <1>15

(* Wake takes from the front: whoever gets a permit stood before whoever is   *)
(* left waiting.                                                             *)
LEMMA WakeInOrder ==
  ASSUME waiters \in Seq(Callers), Distinct(waiters),
         NEW b \in Min .. Max, NEW i \in 0 .. Max, NEW p \in [Callers -> Permits],
         \A c \in Callers : p[c] = "waiting" <=> \E n \in 1 .. Len(waiters) : waiters[n] = c,
         Wake(b, i, p),
         NEW c \in Callers, p[c] = "waiting", permit'[c] = "waiting",
         NEW d \in Callers, p[d] # "reserved", permit'[d] = "reserved"
  PROVE  \E m, n \in 1 .. Len(waiters) : m < n /\ waiters[m] = d /\ waiters[n] = c
<1> DEFINE k == Woken(b, i)
<1>1. k \in 0 .. Len(waiters)
  BY SlotAssumption, WokenFact
<1>2. permit' = [x \in Callers |-> IF \E n \in 1 .. k : waiters[n] = x THEN "reserved" ELSE p[x]]
  BY DEF Wake
<1> HIDE DEF k
<1>3. PICK m \in 1 .. k : waiters[m] = d
  BY <1>2
<1>4. PICK n \in 1 .. Len(waiters) : waiters[n] = c
  OBVIOUS
<1>5. ~(n \in 1 .. k)
  BY <1>2, <1>4
<1>6. m \in 1 .. Len(waiters) /\ m < n
  BY <1>1, <1>3, <1>4, <1>5
<1> QED BY <1>3, <1>4, <1>6

-----------------------------------------------------------------------------
(* The invariant, step by step.                                             *)

LEMMA InitIInv == Init => IInv
<1> SUFFICES ASSUME Init PROVE IInv
  OBVIOUS
<1>1. TypeOK /\ NoIdleSlot /\ PauseRemembered
  BY SlotAssumption DEF Init, TypeOK, NoIdleSlot, PauseRemembered
<1>2. Held = {} /\ InUse = {}
  BY DEF Init, Held, InUse
<1>3. SlotsAreCounted
  BY <1>2, FS_EmptySet DEF Init, SlotsAreCounted, QueueIsExact
<1> QED BY <1>1, <1>3 DEF IInv

(* What every step may use. *)
LEMMA Facts ==
  ASSUME IInv
  PROVE  /\ budget \in Min .. Max /\ Min \in Nat /\ Max \in Nat
         /\ issued \in 0 .. Max /\ used \in 0 .. Max
         /\ permit \in [Callers -> Permits] /\ waiters \in Seq(Callers) /\ Distinct(waiters)
         /\ issued = Cardinality(HeldOf(permit)) /\ used = Cardinality(UsedOf(permit))
         /\ \A c \in Callers : permit[c] = "waiting" <=> \E n \in 1 .. Len(waiters) : waiters[n] = c
         /\ Held = HeldOf(permit) /\ InUse = UsedOf(permit)
BY SlotAssumption
DEF IInv, TypeOK, SlotsAreCounted, QueueIsExact, Permits, Distinct, HeldOf, UsedOf, Held, InUse

(* The parts of the next state a step has to establish. *)
LEMMA Assemble ==
  ASSUME budget' \in Min .. Max, issued' \in 0 .. Max, used' \in 0 .. Max,
         samplesSinceGrowth' \in 0 .. Cooldown, pausedSamples' \in Nat, quiet' \in [Kinds -> Nat],
         permit' \in [Callers -> Permits], waiters' \in Seq(Callers),
         issued' = Cardinality(HeldOf(permit')), used' = Cardinality(UsedOf(permit')),
         QueueIsExact', waiters' # <<>> => issued' >= budget', PauseRemembered'
  PROVE  IInv'
BY DEF IInv, TypeOK, SlotsAreCounted, NoIdleSlot, Held, InUse, HeldOf, UsedOf, Permits

(* A step that leaves queue and permits alone, and no waiter beside a slot. *)
LEMMA Unmoved ==
  ASSUME IInv, UNCHANGED <<issued, used, waiters, permit>>,
         budget' \in Min .. Max, budget' <= budget,
         samplesSinceGrowth' \in 0 .. Cooldown, pausedSamples' \in Nat, quiet' \in [Kinds -> Nat],
         PauseRemembered'
  PROVE  IInv'
<1>1. /\ issued' \in 0 .. Max /\ used' \in 0 .. Max
      /\ permit' \in [Callers -> Permits] /\ waiters' \in Seq(Callers)
      /\ issued' = Cardinality(HeldOf(permit')) /\ used' = Cardinality(UsedOf(permit'))
  BY Facts
<1>2. QueueIsExact'
  BY DEF IInv, SlotsAreCounted, QueueIsExact
<1>3. waiters' # <<>> => issued' >= budget'
  BY Facts DEF IInv, NoIdleSlot
<1> QED BY <1>1, <1>2, <1>3, Assemble

(* A sample: what is left of every pause is still known afterwards. *)
LEMMA SampleFact ==
  ASSUME IInv, LessPaused, Sampled
  PROVE  pausedSamples' \in Nat /\ quiet' \in [Kinds -> Nat] /\ PauseRemembered'
<1>1. pausedSamples \in Nat /\ quiet \in [Kinds -> Nat] /\ Pause \in [Kinds -> Nat]
  BY SlotAssumption DEF IInv, TypeOK
<1>2. pausedSamples' \in Nat /\ pausedSamples' >= pausedSamples - 1
  BY <1>1 DEF LessPaused, Larger
<1>3. \A k \in Kinds : quiet'[k] \in Nat /\ quiet'[k] \in {quiet[k] + 1, Pause[k]}
  BY <1>1 DEF Sampled, Smaller
<1>4. quiet' \in [Kinds -> Nat]
  BY <1>3 DEF Sampled
<1>5. \A k \in Kinds : quiet[k] + pausedSamples >= Pause[k]
  BY DEF IInv, PauseRemembered
<1>6. \A k \in Kinds : quiet'[k] + pausedSamples' >= Pause[k]
  BY <1>1, <1>2, <1>3, <1>5
<1> QED BY <1>2, <1>4, <1>6 DEF PauseRemembered

LEMMA CountFact ==
  ASSUME IInv
  PROVE  Count(samplesSinceGrowth) \in 0 .. Cooldown
BY SlotAssumption DEF IInv, TypeOK, Count, Smaller

LEMMA AdjustOverloadedStep ==
  ASSUME IInv, AdjustOverloaded
  PROVE  IInv' /\ budget' <= budget
<1>1. budget' \in Min .. Max /\ budget' <= budget
  BY Facts, ShrunkFact DEF AdjustOverloaded
<1>2. samplesSinceGrowth' \in 0 .. Cooldown
  BY CountFact DEF AdjustOverloaded
<1>3. pausedSamples' \in Nat /\ quiet' \in [Kinds -> Nat] /\ PauseRemembered'
  BY SampleFact DEF AdjustOverloaded
<1>4. UNCHANGED <<issued, used, waiters, permit>>
  BY DEF AdjustOverloaded
<1> QED BY <1>1, <1>2, <1>3, <1>4, Unmoved

LEMMA SignalStep ==
  ASSUME IInv, NEW k \in Kinds, Signal(k)
  PROVE  IInv' /\ budget' <= budget
<1>1. budget' \in Min .. Max /\ budget' <= budget
  BY Facts, ShrunkFact DEF Signal
<1>2. pausedSamples \in Nat /\ quiet \in [Kinds -> Nat] /\ Pause \in [Kinds -> Nat]
  BY SlotAssumption DEF IInv, TypeOK
<1>3. pausedSamples' \in Nat /\ pausedSamples' >= pausedSamples /\ pausedSamples' >= Pause[k]
  BY <1>2 DEF Signal, PausedBy, Larger
<1>4. quiet' \in [Kinds -> Nat] /\ \A j \in Kinds : j # k => quiet'[j] = quiet[j]
  BY <1>2 DEF Signal
<1>5. \A j \in Kinds : quiet[j] + pausedSamples >= Pause[j]
  BY DEF IInv, PauseRemembered
<1>6. \A j \in Kinds : quiet'[j] + pausedSamples' >= Pause[j]
  <2> TAKE j \in Kinds
  <2>1. quiet'[j] \in Nat /\ quiet[j] \in Nat /\ Pause[j] \in Nat
    BY <1>2, <1>4
  <2>2. CASE j = k
    BY <1>3, <2>1, <2>2
  <2>3. CASE j # k
    BY <1>2, <1>3, <1>4, <1>5, <2>1, <2>3
  <2> QED BY <2>2, <2>3
<1>7. samplesSinceGrowth' \in 0 .. Cooldown /\ UNCHANGED <<issued, used, waiters, permit>>
  BY DEF Signal, IInv, TypeOK
<1>8. PauseRemembered'
  BY <1>6 DEF PauseRemembered
<1> QED BY <1>1, <1>3, <1>4, <1>7, <1>8, Unmoved

LEMMA AdjustHealthyStep ==
  ASSUME IInv, AdjustHealthy
  PROVE  /\ IInv'
         /\ budget' > budget => pausedSamples = 0
         /\ budget' <= budget => UNCHANGED permit
         /\ \A c \in Callers : permit'[c] # permit[c] =>
              permit[c] = "waiting" /\ permit'[c] = "reserved" /\ issued' <= budget'
<1>1. pausedSamples' \in Nat /\ quiet' \in [Kinds -> Nat] /\ PauseRemembered'
  BY SampleFact DEF AdjustHealthy
<1>2. used' = used
  BY DEF AdjustHealthy
<1>3. CASE ~MayGrow
  <2>1. UNCHANGED <<budget, issued, used, waiters, permit>>
    BY <1>3 DEF AdjustHealthy
  <2>2. samplesSinceGrowth' \in 0 .. Cooldown
    BY <1>3, CountFact DEF AdjustHealthy
  <2>3. budget' \in Min .. Max /\ budget' <= budget /\ ~(budget' > budget)
    BY <2>1, Facts
  <2>4. IInv'
    BY <1>1, <2>1, <2>2, <2>3, Unmoved
  <2> QED BY <2>1, <2>3, <2>4
<1>4. CASE MayGrow
  <2>1. budget + 1 \in Min .. Max /\ budget' = budget + 1 /\ pausedSamples = 0
    BY <1>4, Facts DEF MayGrow, AdjustHealthy
  <2>2. Wake(budget + 1, issued, permit) /\ samplesSinceGrowth' \in 0 .. Cooldown
    BY <1>4, SlotAssumption DEF AdjustHealthy
  <2>3. /\ issued' \in 0 .. Max /\ waiters' \in Seq(Callers) /\ permit' \in [Callers -> Permits]
        /\ issued' = Cardinality(HeldOf(permit')) /\ UsedOf(permit') = UsedOf(permit)
        /\ QueueIsExact'
        /\ waiters' # <<>> => issued' >= budget + 1
        /\ issued' # issued => issued' <= budget + 1
        /\ \A c \in Callers : permit'[c] # permit[c] => permit[c] = "waiting" /\ permit'[c] = "reserved"
        /\ issued' = issued => permit' = permit
    BY <2>1, <2>2, Facts, WakeStep
  <2>4. used' \in 0 .. Max /\ used' = Cardinality(UsedOf(permit'))
    BY <1>2, <2>3, Facts
  <2>5. IInv'
    BY <1>1, <2>1, <2>2, <2>3, <2>4, Assemble
  <2> QED BY <2>1, <2>3, <2>5, Facts
<1> QED BY <1>3, <1>4

(* A caller gets a permit while there is room. *)
LEMMA GrantedStep ==
  ASSUME IInv, NEW c \in Callers, permit[c] = "none", issued < budget, Granted(c),
         UNCHANGED <<budget, used, samplesSinceGrowth, pausedSamples, quiet>>
  PROVE  IInv' /\ issued' <= budget' /\ \A d \in Callers : d # c => permit'[d] = permit[d]
<1>1. /\ issued' = issued + 1 /\ permit' = [permit EXCEPT ![c] = "reserved"] /\ waiters' = waiters
  BY DEF Granted
<1>2. permit' \in [Callers -> Permits] /\ \A d \in Callers : d # c => permit'[d] = permit[d]
  BY <1>1, Facts DEF Permits
<1>3. issued' \in 0 .. Max /\ issued' <= budget'
  BY <1>1, Facts
<1>4. HeldOf(permit') = HeldOf(permit) \cup {c} /\ c \notin HeldOf(permit)
      /\ UsedOf(permit') = UsedOf(permit)
  BY <1>1, Facts DEF HeldOf, UsedOf
<1>5. issued' = Cardinality(HeldOf(permit'))
  <2>1. IsFiniteSet(HeldOf(permit))
    BY HeldFinite
  <2>2. Cardinality(HeldOf(permit) \cup {c}) = Cardinality(HeldOf(permit)) + 1
    BY <1>4, <2>1, FS_AddElement
  <2> QED BY <1>1, <1>4, <2>2, Facts
<1>6. used' \in 0 .. Max /\ used' = Cardinality(UsedOf(permit'))
  BY <1>4, Facts
<1>7. QueueIsExact'
  <2>1. \A d \in Callers : permit'[d] = "waiting" <=> permit[d] = "waiting"
    BY <1>1, Facts
  <2> QED BY <1>1, <2>1 DEF IInv, SlotsAreCounted, QueueIsExact
<1>8. waiters' # <<>> => issued' >= budget'
  BY <1>1, Facts DEF IInv, NoIdleSlot
<1>9. samplesSinceGrowth' \in 0 .. Cooldown /\ pausedSamples' \in Nat /\ quiet' \in [Kinds -> Nat]
      /\ waiters' \in Seq(Callers) /\ budget' \in Min .. Max /\ PauseRemembered'
  BY <1>1 DEF IInv, TypeOK, PauseRemembered
<1>10. IInv'
  BY <1>2, <1>3, <1>5, <1>6, <1>7, <1>8, <1>9, Assemble
<1> QED BY <1>2, <1>3, <1>10

(* A reservation joins the end of the queue. *)
LEMMA QueuedStep ==
  ASSUME IInv, NEW c \in Callers, permit[c] = "none", ~(issued < budget),
         waiters' = Append(waiters, c), permit' = [permit EXCEPT ![c] = "waiting"],
         UNCHANGED <<issued, budget, used, samplesSinceGrowth, pausedSamples, quiet>>
  PROVE  IInv'
<1>1. permit' \in [Callers -> Permits] /\ waiters' \in Seq(Callers)
  BY Facts DEF Permits
<1>2. HeldOf(permit') = HeldOf(permit) /\ UsedOf(permit') = UsedOf(permit)
  BY Facts DEF HeldOf, UsedOf
<1>3. /\ issued' \in 0 .. Max /\ used' \in 0 .. Max
      /\ issued' = Cardinality(HeldOf(permit')) /\ used' = Cardinality(UsedOf(permit'))
  BY <1>2, Facts
<1>4. /\ Len(waiters') = Len(waiters) + 1 /\ waiters'[Len(waiters) + 1] = c
      /\ \A n \in 1 .. Len(waiters) : waiters'[n] = waiters[n] /\ waiters[n] # c
  BY Facts
<1>5. QueueIsExact'
  <2>1. ASSUME NEW d \in Callers
        PROVE  permit'[d] = "waiting" <=> \E n \in 1 .. Len(waiters') : waiters'[n] = d
    <3>1. CASE d = c
      BY <1>4, <3>1, Facts
    <3>2. CASE d # c
      <4>1. permit'[d] = permit[d]
        BY <3>2, Facts
      <4>2. (\E n \in 1 .. Len(waiters') : waiters'[n] = d)
               <=> \E n \in 1 .. Len(waiters) : waiters[n] = d
        BY <1>4, <3>2, Facts
      <4> QED BY <4>1, <4>2, Facts
    <3> QED BY <3>1, <3>2
  <2>2. Distinct(waiters')
    BY <1>4, Facts DEF Distinct
  <2> QED BY <2>1, <2>2 DEF QueueIsExact, Distinct
<1>6. waiters' # <<>> => issued' >= budget'
  BY Facts
<1>7. samplesSinceGrowth' \in 0 .. Cooldown /\ pausedSamples' \in Nat /\ quiet' \in [Kinds -> Nat]
      /\ budget' \in Min .. Max /\ PauseRemembered'
  BY DEF IInv, TypeOK, PauseRemembered
<1> QED BY <1>1, <1>3, <1>5, <1>6, <1>7, Assemble

LEMMA AbortStep ==
  ASSUME IInv, NEW c \in Callers, Abort(c)
  PROVE  IInv'
<1>1. /\ waiters' = LeftQueue(c) /\ permit' = [permit EXCEPT ![c] = "none"]
      /\ permit[c] = "waiting"
      /\ UNCHANGED <<budget, issued, used, samplesSinceGrowth, pausedSamples, quiet>>
  BY DEF Abort
<1>2. /\ waiters' \in Seq(Callers) /\ Distinct(waiters')
      /\ \A d \in Callers : (\E n \in 1 .. Len(waiters') : waiters'[n] = d)
              <=> d # c /\ \E n \in 1 .. Len(waiters) : waiters[n] = d
  <2> DEFINE q == LeftQueue(c)
  <2>1. /\ waiters \in Seq(Callers) /\ Distinct(waiters)
        /\ \E n \in 1 .. Len(waiters) : waiters[n] = c
    BY <1>1, Facts
  <2>2. /\ q \in Seq(Callers) /\ Distinct(q)
        /\ \A d \in Callers : (\E n \in 1 .. Len(q) : q[n] = d)
              <=> d # c /\ \E n \in 1 .. Len(waiters) : waiters[n] = d
    BY <2>1, LeftIsQueue
  <2>3. waiters' = q
    BY <1>1
  <2> HIDE DEF q
  <2> QED BY <2>2, <2>3
<1>3. permit' \in [Callers -> Permits]
  BY <1>1, Facts DEF Permits
<1>4. HeldOf(permit') = HeldOf(permit) /\ UsedOf(permit') = UsedOf(permit)
  BY <1>1, Facts DEF HeldOf, UsedOf
<1>5. /\ issued' \in 0 .. Max /\ used' \in 0 .. Max
      /\ issued' = Cardinality(HeldOf(permit')) /\ used' = Cardinality(UsedOf(permit'))
  BY <1>1, <1>4, Facts
<1>6. QueueIsExact'
  <2>1. \A d \in Callers : permit'[d] = "waiting" <=> d # c /\ permit[d] = "waiting"
    BY <1>1, Facts
  <2> QED BY <1>2, <2>1, Facts DEF QueueIsExact, Distinct
<1>7. issued' >= budget'
  <2>1. waiters # <<>>
    BY <1>1, Facts
  <2> QED BY <1>1, <2>1 DEF IInv, NoIdleSlot
<1>8. samplesSinceGrowth' \in 0 .. Cooldown /\ pausedSamples' \in Nat /\ quiet' \in [Kinds -> Nat]
      /\ budget' \in Min .. Max /\ PauseRemembered'
  BY <1>1 DEF IInv, TypeOK, PauseRemembered
<1> QED BY <1>2, <1>3, <1>5, <1>6, <1>7, <1>8, Assemble

LEMMA MarkSlotUsedStep ==
  ASSUME IInv, NEW c \in Callers, MarkSlotUsed(c)
  PROVE  IInv' /\ HeldOf(permit') = HeldOf(permit)
<1>1. /\ permit[c] = "reserved" /\ used' = used + 1 /\ permit' = [permit EXCEPT ![c] = "used"]
      /\ UNCHANGED <<budget, issued, samplesSinceGrowth, pausedSamples, waiters, quiet>>
  BY DEF MarkSlotUsed
<1>2. permit' \in [Callers -> Permits]
  BY <1>1, Facts DEF Permits
<1>3. /\ HeldOf(permit') = HeldOf(permit)
      /\ UsedOf(permit') = UsedOf(permit) \cup {c} /\ c \notin UsedOf(permit)
  BY <1>1, Facts DEF HeldOf, UsedOf
<1>4. used' = Cardinality(UsedOf(permit'))
  <2>1. IsFiniteSet(UsedOf(permit))
    BY HeldFinite
  <2>2. Cardinality(UsedOf(permit) \cup {c}) = Cardinality(UsedOf(permit)) + 1
    BY <1>3, <2>1, FS_AddElement
  <2> QED BY <1>1, <1>3, <2>2, Facts
<1>5. issued' \in 0 .. Max /\ issued' = Cardinality(HeldOf(permit'))
  BY <1>1, <1>3, Facts
<1>6. used' \in 0 .. Max
  <2>1. Cardinality(UsedOf(permit')) <= Cardinality(HeldOf(permit'))
    BY HeldFinite
  <2> QED BY <1>1, <1>4, <1>5, <2>1, Facts
<1>7. QueueIsExact'
  <2>1. \A d \in Callers : permit'[d] = "waiting" <=> permit[d] = "waiting"
    BY <1>1, Facts
  <2> QED BY <1>1, <2>1 DEF IInv, SlotsAreCounted, QueueIsExact
<1>8. waiters' # <<>> => issued' >= budget'
  BY <1>1 DEF IInv, NoIdleSlot
<1>9. samplesSinceGrowth' \in 0 .. Cooldown /\ pausedSamples' \in Nat /\ quiet' \in [Kinds -> Nat]
      /\ waiters' \in Seq(Callers) /\ budget' \in Min .. Max /\ PauseRemembered'
  BY <1>1 DEF IInv, TypeOK, PauseRemembered
<1>10. IInv'
  BY <1>2, <1>4, <1>5, <1>6, <1>7, <1>8, <1>9, Assemble
<1> QED BY <1>3, <1>10

(* A permit comes back, and the room it leaves is handed on. *)
LEMMA ReleaseSlotStep ==
  ASSUME IInv, NEW c \in Callers, ReleaseSlot(c)
  PROVE  /\ IInv'
         /\ \A d \in Callers : permit'[d] # permit[d] =>
              \/ permit'[d] = "none"
              \/ permit[d] = "waiting" /\ permit'[d] = "reserved" /\ issued' <= budget'
<1> DEFINE p == [permit EXCEPT ![c] = "none"]
<1>1. /\ permit[c] \in {"reserved", "used"} /\ used' = used - SlotInfo(c)
      /\ Wake(budget, issued - 1, p)
      /\ UNCHANGED <<budget, samplesSinceGrowth, pausedSamples, quiet>>
  BY DEF ReleaseSlot
<1>2. /\ p \in [Callers -> Permits] /\ p[c] = "none"
      /\ \A d \in Callers : d # c => p[d] = permit[d]
  BY Facts DEF Permits
<1> HIDE DEF p
<1>3. /\ HeldOf(p) = HeldOf(permit) \ {c} /\ c \in HeldOf(permit)
      /\ UsedOf(p) = UsedOf(permit) \ {c} /\ (c \in UsedOf(permit) <=> permit[c] = "used")
  BY <1>1, <1>2 DEF HeldOf, UsedOf
<1>4. issued - 1 = Cardinality(HeldOf(p)) /\ issued - 1 \in 0 .. Max
  <2>1. IsFiniteSet(HeldOf(permit))
    BY HeldFinite
  <2>2. Cardinality(HeldOf(permit) \ {c}) = Cardinality(HeldOf(permit)) - 1
    BY <1>3, <2>1, FS_RemoveElement
  <2>3. Cardinality(HeldOf(p)) \in Nat
    BY HeldFinite
  <2> QED BY <1>3, <2>2, <2>3, Facts
<1>5. used' = Cardinality(UsedOf(p)) /\ used' \in 0 .. Max
  <2>1. Cardinality(UsedOf(p)) \in Nat
    BY HeldFinite
  <2>2. CASE permit[c] = "used"
    <3>1. IsFiniteSet(UsedOf(permit))
      BY HeldFinite
    <3>2. Cardinality(UsedOf(permit) \ {c}) = Cardinality(UsedOf(permit)) - 1
      BY <1>3, <2>2, <3>1, FS_RemoveElement
    <3> QED BY <1>1, <1>3, <2>1, <2>2, <3>2, Facts DEF SlotInfo
  <2>3. CASE permit[c] # "used"
    <3>1. UsedOf(p) = UsedOf(permit)
      BY <1>3, <2>3
    <3> QED BY <1>1, <2>3, <3>1, Facts DEF SlotInfo
  <2> QED BY <2>2, <2>3
<1>6. \A d \in Callers : p[d] = "waiting" <=> \E n \in 1 .. Len(waiters) : waiters[n] = d
  <2>1. \A d \in Callers : p[d] = "waiting" <=> permit[d] = "waiting"
    BY <1>1, <1>2
  <2> QED BY <2>1, Facts
<1>7. /\ issued' \in 0 .. Max /\ waiters' \in Seq(Callers) /\ permit' \in [Callers -> Permits]
      /\ issued' = Cardinality(HeldOf(permit')) /\ UsedOf(permit') = UsedOf(p)
      /\ QueueIsExact'
      /\ waiters' # <<>> => issued' >= budget
      /\ issued' # issued - 1 => issued' <= budget
      /\ \A d \in Callers : permit'[d] # p[d] => p[d] = "waiting" /\ permit'[d] = "reserved"
      /\ issued' = issued - 1 => permit' = p
  BY <1>1, <1>2, <1>4, <1>6, Facts, WakeStep
<1>8. samplesSinceGrowth' \in 0 .. Cooldown /\ pausedSamples' \in Nat /\ quiet' \in [Kinds -> Nat]
      /\ budget' \in Min .. Max /\ budget' = budget /\ PauseRemembered'
  BY <1>1 DEF IInv, TypeOK, PauseRemembered
<1>9. IInv'
  BY <1>5, <1>7, <1>8, Assemble
<1>10. ASSUME NEW d \in Callers, permit'[d] # permit[d]
       PROVE  \/ permit'[d] = "none"
              \/ permit[d] = "waiting" /\ permit'[d] = "reserved" /\ issued' <= budget'
  <2>1. CASE permit'[d] = p[d]
    BY <1>2, <1>10, <2>1
  <2>2. CASE permit'[d] # p[d]
    <3>1. p[d] = "waiting" /\ permit'[d] = "reserved" /\ d # c
      BY <1>2, <1>7, <2>2
    <3>2. issued' <= budget'
      BY <1>7, <1>8, <2>2
    <3> QED BY <1>2, <3>1, <3>2
  <2> QED BY <2>1, <2>2
<1> QED BY <1>9, <1>10

LEMMA ReserveSlotStep ==
  ASSUME IInv, NEW c \in Callers, ReserveSlot(c)
  PROVE  /\ IInv'
         /\ \A d \in Callers :
              \/ permit'[d] = permit[d]
              \/ permit'[d] = "waiting"
              \/ issued' <= budget' /\ waiters = <<>>
<1>1. CASE issued < budget
  <2>1. /\ permit[c] = "none" /\ Granted(c)
        /\ UNCHANGED <<budget, used, samplesSinceGrowth, pausedSamples, quiet>>
    BY <1>1 DEF ReserveSlot
  <2>2. waiters = <<>>
    BY <1>1, Facts DEF IInv, NoIdleSlot
  <2> QED BY <1>1, <2>1, <2>2, GrantedStep
<1>2. CASE ~(issued < budget)
  <2>1. /\ permit[c] = "none" /\ waiters' = Append(waiters, c)
        /\ permit' = [permit EXCEPT ![c] = "waiting"]
        /\ UNCHANGED <<issued, budget, used, samplesSinceGrowth, pausedSamples, quiet>>
    BY <1>2 DEF ReserveSlot
  <2>2. \A d \in Callers : permit'[d] = permit[d] \/ permit'[d] = "waiting"
    BY <2>1, Facts
  <2>3. IInv'
    BY <1>2, <2>1, QueuedStep
  <2> QED BY <2>2, <2>3
<1> QED BY <1>1, <1>2

LEMMA TryReserveSlotStep ==
  ASSUME IInv, NEW c \in Callers, TryReserveSlot(c)
  PROVE  IInv' /\ issued' <= budget' /\ waiters = <<>>
<1>1. /\ permit[c] = "none" /\ issued < budget /\ waiters = <<>> /\ Granted(c)
      /\ UNCHANGED <<budget, used, samplesSinceGrowth, pausedSamples, quiet>>
  BY DEF TryReserveSlot
<1> QED BY <1>1, GrantedStep

(* A step that changes nothing keeps everything. *)
LEMMA StutterStep == IInv /\ UNCHANGED vars => IInv'
BY DEF IInv, TypeOK, SlotsAreCounted, QueueIsExact, NoIdleSlot, PauseRemembered, Held, InUse, vars

LEMMA NextStep ==
  ASSUME IInv, [Next]_vars
  PROVE  IInv'
<1>1. CASE AdjustOverloaded
  BY <1>1, AdjustOverloadedStep
<1>2. CASE AdjustHealthy
  BY <1>2, AdjustHealthyStep
<1>3. CASE \E k \in Kinds : Signal(k)
  BY <1>3, SignalStep
<1>4. CASE \E c \in Callers : ReserveSlot(c)
  BY <1>4, ReserveSlotStep
<1>5. CASE \E c \in Callers : Abort(c)
  BY <1>5, AbortStep
<1>6. CASE \E c \in Callers : TryReserveSlot(c)
  BY <1>6, TryReserveSlotStep
<1>7. CASE \E c \in Callers : MarkSlotUsed(c)
  BY <1>7, MarkSlotUsedStep
<1>8. CASE \E c \in Callers : ReleaseSlot(c)
  BY <1>8, ReleaseSlotStep
<1>9. CASE UNCHANGED vars
  BY <1>9, StutterStep
<1> QED BY <1>1, <1>2, <1>3, <1>4, <1>5, <1>6, <1>7, <1>8, <1>9 DEF Next

LEMMA AlwaysIInv == Spec => []IInv
<1>1. IInv /\ [Next]_vars => IInv'
  BY NextStep
<1> QED BY InitIInv, <1>1, PTL DEF Spec

-----------------------------------------------------------------------------
(* The theorems.                                                            *)

(* Every counter and every permit of the supplier stays in its type, and the *)
(* budget between WORKER_MIN_CONCURRENCY and WORKER_CONCURRENCY.             *)
THEOREM TypeCorrect == Spec => []TypeOK
<1>1. IInv => TypeOK
  BY DEF IInv
<1> QED BY AlwaysIInv, <1>1, PTL

(* issued and used are the permits out and in use, and the queue holds       *)
(* exactly those whose reserveSlot is pending, whatever order reserve,       *)
(* abort, use and release come in.                                           *)
THEOREM CountersAreExact == Spec => []SlotsAreCounted
<1>1. IInv => SlotsAreCounted
  BY DEF IInv
<1> QED BY AlwaysIInv, <1>1, PTL

(* No reservation waits while issued is below the budget: drainWaiters is    *)
(* called by every method that can make room.                                *)
THEOREM NobodyWaitsBesideASlot == Spec => []NoIdleSlot
<1>1. IInv => NoIdleSlot
  BY DEF IInv
<1> QED BY AlwaysIInv, <1>1, PTL

(* A permit is only given while the permits out fit the budget, also after   *)
(* the budget has shrunk below what was given before.                        *)
THEOREM GrantsFitTheBudget == Spec => WithinBudget
<1> DEFINE Fits(c) ==
      permit[c] \notin {"reserved", "used"} /\ permit'[c] = "reserved" => issued' <= budget'
<1>1. ASSUME IInv, Next, NEW c \in Callers
      PROVE  Fits(c)
  <2>1. CASE AdjustOverloaded \/ \E k \in Kinds : Signal(k)
    BY <2>1 DEF AdjustOverloaded, Signal
  <2>2. CASE AdjustHealthy
    BY <1>1, <2>2, AdjustHealthyStep
  <2>3. CASE \E d \in Callers : ReserveSlot(d)
    BY <1>1, <2>3, ReserveSlotStep
  <2>4. CASE \E d \in Callers : Abort(d)
    BY <1>1, <2>4, Facts DEF Abort
  <2>5. CASE \E d \in Callers : TryReserveSlot(d)
    BY <1>1, <2>5, TryReserveSlotStep
  <2>6. CASE \E d \in Callers : MarkSlotUsed(d)
    BY <1>1, <2>6, Facts DEF MarkSlotUsed
  <2>7. CASE \E d \in Callers : ReleaseSlot(d)
    BY <1>1, <2>7, ReleaseSlotStep
  <2> QED BY <1>1, <2>1, <2>2, <2>3, <2>4, <2>5, <2>6, <2>7 DEF Next
<1>2. IInv /\ [Next]_vars => [\A c \in Callers : Fits(c)]_vars
  BY <1>1
<1> QED BY AlwaysIInv, <1>2, PTL DEF Spec, WithinBudget

(* Between a capacity signal and the next growth lie at least as many        *)
(* samples as its kind asks for.                                             *)
THEOREM PausesAreKept == Spec => PauseIsKept
<1> DEFINE Kept == budget' > budget => \A k \in Kinds : quiet[k] >= Pause[k]
<1>1. ASSUME IInv, Next
      PROVE  Kept
  <2>1. CASE AdjustHealthy
    <3>1. \A k \in Kinds : quiet[k] \in Nat /\ Pause[k] \in Nat /\ quiet[k] + pausedSamples >= Pause[k]
      BY <1>1, SlotAssumption DEF IInv, TypeOK, PauseRemembered
    <3>2. budget' > budget => pausedSamples = 0
      BY <1>1, <2>1, AdjustHealthyStep
    <3> QED BY <3>1, <3>2
  <2>2. CASE AdjustOverloaded
    <3>1. budget' <= budget /\ budget' \in Int /\ budget \in Int
      BY <1>1, <2>2, AdjustOverloadedStep DEF IInv, TypeOK
    <3> QED BY <3>1
  <2>3. CASE \E k \in Kinds : Signal(k)
    <3>1. budget' <= budget /\ budget' \in Int /\ budget \in Int
      BY <1>1, <2>3, SignalStep, Facts DEF IInv, TypeOK
    <3> QED BY <3>1
  <2>4. CASE \E c \in Callers : \/ ReserveSlot(c) \/ Abort(c) \/ TryReserveSlot(c)
                                \/ MarkSlotUsed(c) \/ ReleaseSlot(c)
    <3>1. budget' = budget
      BY <2>4 DEF ReserveSlot, Abort, TryReserveSlot, MarkSlotUsed, ReleaseSlot
    <3> QED BY <1>1, <3>1, Facts
  <2> QED BY <1>1, <2>1, <2>2, <2>3, <2>4 DEF Next
<1>2. IInv /\ [Next]_vars => [Kept]_vars
  BY <1>1
<1> QED BY AlwaysIInv, <1>2, PTL DEF Spec, PauseIsKept

(* Whoever gets a permit while another still waits stood before it in the    *)
(* queue: neither a later reserveSlot nor a tryReserveSlot goes first.       *)
THEOREM NobodyIsOvertaken == Spec => NoOvertaking
<1> DEFINE Fair(c, d) ==
       /\ permit[c] = "waiting" /\ permit'[c] = "waiting"
       /\ permit[d] \notin {"reserved", "used"} /\ permit'[d] = "reserved"
       => \E m, n \in 1 .. Len(waiters) : m < n /\ waiters[m] = d /\ waiters[n] = c
<1>1. ASSUME IInv, Next, NEW c \in Callers, NEW d \in Callers
      PROVE  Fair(c, d)
  <2> SUFFICES ASSUME permit[c] = "waiting", permit'[c] = "waiting",
                      permit[d] \notin {"reserved", "used"}, permit'[d] = "reserved"
               PROVE  \E m, n \in 1 .. Len(waiters) : m < n /\ waiters[m] = d /\ waiters[n] = c
    OBVIOUS
  <2>1. waiters # <<>> /\ \A x \in Callers : permit[x] = "waiting" <=>
          \E n \in 1 .. Len(waiters) : waiters[n] = x
    BY <1>1, Facts
  <2>2. CASE AdjustHealthy
    <3>1. MayGrow
      BY <2>2 DEF AdjustHealthy
    <3>2. Wake(budget + 1, issued, permit) /\ budget + 1 \in Min .. Max
      BY <1>1, <2>2, <3>1, Facts DEF AdjustHealthy, MayGrow
    <3> QED BY <1>1, <2>1, <3>2, Facts, WakeInOrder
  <2>3. CASE \E e \in Callers : ReleaseSlot(e)
    <3>1. PICK e \in Callers : ReleaseSlot(e)
      BY <2>3
    <3> DEFINE p == [permit EXCEPT ![e] = "none"]
    <3>2. permit[e] \in {"reserved", "used"} /\ Wake(budget, issued - 1, p)
      BY <3>1 DEF ReleaseSlot
    <3>3. /\ p \in [Callers -> Permits] /\ p[e] = "none"
          /\ \A x \in Callers : x # e => p[x] = permit[x]
      BY <1>1, Facts DEF Permits
    <3> HIDE DEF p
    <3>4. \A x \in Callers : p[x] = "waiting" <=> \E n \in 1 .. Len(waiters) : waiters[n] = x
      BY <2>1, <3>2, <3>3
    <3>5. issued - 1 \in 0 .. Max
      <4>1. e \in HeldOf(permit) /\ IsFiniteSet(HeldOf(permit))
        BY <3>2, HeldFinite DEF HeldOf
      <4>2. Cardinality(HeldOf(permit)) # 0
        BY <4>1, FS_EmptySet
      <4> QED BY <1>1, <4>2, Facts
    <3>6. p[c] = "waiting" /\ p[d] # "reserved"
      BY <3>2, <3>3
    <3> QED BY <1>1, <3>2, <3>3, <3>4, <3>5, <3>6, Facts, WakeInOrder
  <2>4. CASE \E e \in Callers : ReserveSlot(e)
    BY <1>1, <2>1, <2>4, ReserveSlotStep
  <2>5. CASE \E e \in Callers : TryReserveSlot(e)
    BY <1>1, <2>1, <2>5, TryReserveSlotStep
  <2>6. CASE \E e \in Callers : Abort(e) \/ MarkSlotUsed(e)
    BY <1>1, <2>6, Facts DEF Abort, MarkSlotUsed
  <2>7. CASE AdjustOverloaded \/ \E k \in Kinds : Signal(k)
    BY <2>7 DEF AdjustOverloaded, Signal
  <2> QED BY <1>1, <2>2, <2>3, <2>4, <2>5, <2>6, <2>7 DEF Next
<1>2. IInv /\ [Next]_vars => [\A c, d \in Callers : Fair(c, d)]_vars
  BY <1>1
<1> QED BY AlwaysIInv, <1>2, PTL DEF Spec, NoOvertaking
=============================================================================
