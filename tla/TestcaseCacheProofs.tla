------------------------- MODULE TestcaseCacheProofs -------------------------
(***************************************************************************)
(* A set that says ready is complete, and a Pod has what it mounts, for    *)
(* any number of stages and shards and any times that satisfy              *)
(* CacheAssumption.                                                        *)
(***************************************************************************)
EXTENDS TestcaseCache, TLAPS

Has(u, n) == \E s \in shards : s.name = ShardName(u, n)

(* The set u is in the cluster, used at t or later, and nobody deletes it.   *)
Kept(u, t) ==
  /\ index.uid = u /\ index.state = "ready" /\ ~index.deleting
  /\ index.lastUsed >= t

IndexFacts ==
  /\ index.uid <= uids /\ index.lastUsed <= now
  /\ index # NoIndex => index.uid = uids /\ uids > 0 /\ index.state \in {"pending", "ready"}

ShardFacts == \A s \in shards : \E n \in Shards : s.name = ShardName(s.owner, n)

(* What a stage has read was once so. *)
ReadFacts(r) ==
  /\ run[r].pc \in {"decide", "touch", "upload", "publish"} =>
       /\ run[r].seen.uid \in 1 .. uids /\ run[r].seen.lastUsed <= now
       /\ run[r].seen.state \in {"pending", "ready"}
  /\ run[r].pc = "touch" => run[r].seen.state = "ready" /\ ~run[r].seen.deleting
  /\ run[r].pc \in {"upload", "publish"} => run[r].seen.state = "pending" /\ ~run[r].seen.deleting
  /\ run[r].pc = "publish" => run[r].left = {}

(* What was uploaded for the index that is there stays there. *)
Progress(r) ==
  run[r].pc \in {"upload", "publish"} /\ run[r].seen.uid = index.uid =>
    \A n \in Shards \ run[r].left : Has(run[r].seen.uid, n)

(* A set that was ready when it was read is kept until it is idle. *)
Fresh(r) ==
  run[r].pc = "decide" /\ run[r].seen.state = "ready" /\ ~run[r].seen.deleting
    /\ now < run[r].seen.lastUsed + Idle
  => Kept(run[r].seen.uid, run[r].seen.lastUsed)

(* The set of a stage that still may create its Pod, and of one that has it. *)
Held(r) ==
  /\ run[r].pc = "answered" =>
       run[r].at <= now /\ (now <= run[r].at + Setup => Kept(run[r].uid, run[r].at - Touch + 1))
  /\ run[r].pc = "pod" => Kept(run[r].uid, 0)

RunFacts(r) == ReadFacts(r) /\ Progress(r) /\ Fresh(r) /\ Held(r)

(* What the sweep has listed is idle by now, and no Pod mounts it. *)
SweepFacts ==
  /\ sweep.at <= now
  /\ sweep.pc \in {"indexes", "both"} =>
       /\ sweep.seen.uid \in 1 .. uids /\ ~sweep.seen.deleting
       /\ sweep.seen.lastUsed + Idle <= now
  /\ sweep.pc = "pods" => \A r \in Runs : run[r].pc = "pod" => index.lastUsed + Idle > sweep.at
  /\ sweep.pc = "both" /\ index = sweep.seen => \A r \in Runs : run[r].pc # "pod"

IInv ==
  /\ TypeOK /\ IndexFacts /\ ShardFacts /\ ReadyIsComplete
  /\ \A r \in Runs : RunFacts(r)
  /\ SweepFacts

-----------------------------------------------------------------------------
LEMMA InitIInv == Init => IInv
<1> SUFFICES ASSUME Init PROVE IInv
  OBVIOUS
<1>1. TypeOK
  BY DEF Init, TypeOK, IndexType, NoIndex, NoRun, NoSweep, Ensuring
<1>2. IndexFacts /\ ShardFacts /\ ReadyIsComplete /\ SweepFacts
  BY DEF Init, IndexFacts, ShardFacts, ReadyIsComplete, SweepFacts, NoIndex, NoSweep
<1>3. \A r \in Runs : run[r].pc = "idle"
  BY DEF Init, NoRun
<1>4. \A r \in Runs : RunFacts(r)
  BY <1>3 DEF RunFacts, ReadFacts, Progress, Fresh, Held
<1> QED BY <1>1, <1>2, <1>4 DEF IInv

(* No shard of the index that is there is ever removed. *)
LEMMA ShardsStay ==
  ASSUME IInv, NEW s, CollectShard(s), NEW n, Has(index.uid, n)
  PROVE  \E t \in shards' : t.name = ShardName(index.uid, n)
<1>1. PICK t \in shards : t.name = ShardName(index.uid, n)
  BY DEF Has
<1>2. PICK m \in Shards : t.name = ShardName(t.owner, m)
  BY DEF IInv, ShardFacts
<1>3. t.owner = index.uid
  BY <1>1, <1>2 DEF ShardName
<1>4. t # s
  BY <1>3 DEF CollectShard
<1> QED BY <1>1, <1>4 DEF CollectShard

(* The ways the index changes. *)
Written(i) == index' = [i EXCEPT !.state = "ready", !.lastUsed = now] /\ index = i /\ ~i.deleting
Idled == sweep.pc = "both" /\ index = sweep.seen

Environment ==
  /\ now' \in Nat /\ uids' \in Nat /\ now <= now' /\ uids <= uids'
  /\ \A n \in Shards : Has(index.uid, n) => \E t \in shards' : t.name = ShardName(index.uid, n)
  /\ \/ index' = index
     \/ index = NoIndex /\ index'.uid = uids + 1 /\ uids' = uids + 1
     \/ Written(index) /\ now' = now
     \/ Idled /\ index' = NoIndex
     \/ Idled /\ index' = [index EXCEPT !.deleting = TRUE]
     \/ index.deleting /\ index' = NoIndex

(* A stage that does not move keeps what it knows, whoever else does. *)
LEMMA RunKept ==
  ASSUME IInv, Environment, NEW r \in Runs, run'[r] = run[r]
  PROVE  RunFacts(r)'
<1> DEFINE w == run[r]
<1>1. /\ w.seen.uid \in Nat /\ w.seen.lastUsed \in Nat /\ w.at \in Nat /\ w.uid \in Nat
      /\ now \in Nat /\ uids \in Nat /\ index \in IndexType
      /\ index.uid \in Nat /\ index.lastUsed \in Nat /\ index.deleting \in BOOLEAN
      /\ Setup \in Nat /\ Idle \in Nat /\ Touch \in Nat
  BY CacheAssumption DEF IInv, TypeOK, IndexType
<1>2. RunFacts(r) /\ IndexFacts /\ SweepFacts
  BY DEF IInv
<1>3. now' \in Nat /\ uids' \in Nat /\ now <= now' /\ uids <= uids'
  BY DEF Environment
<1>4. ReadFacts(r)'
  BY <1>1, <1>2, <1>3 DEF RunFacts, ReadFacts
<1>5. index' = index \/ index'.uid = index.uid \/ index'.uid = 0 \/ index'.uid = uids + 1
  <2>1. [index EXCEPT !.state = "ready", !.lastUsed = now].uid = index.uid
        /\ [index EXCEPT !.deleting = TRUE].uid = index.uid /\ NoIndex.uid = 0
    BY <1>1 DEF NoIndex, IndexType
  <2> QED BY <2>1 DEF Environment, Written
<1>6. Progress(r)'
  <2> SUFFICES ASSUME w.pc \in {"upload", "publish"}, w.seen.uid = index'.uid,
                      NEW n \in Shards \ w.left
               PROVE  \E t \in shards' : t.name = ShardName(w.seen.uid, n)
    BY DEF Progress, Has
  <2>1. w.seen.uid \in 1 .. uids
    BY <1>2 DEF RunFacts, ReadFacts
  <2>2. w.seen.uid = index.uid
    BY <1>1, <1>5, <2>1
  <2>3. Has(index.uid, n)
    BY <1>2, <2>2 DEF RunFacts, Progress
  <2> QED BY <2>2, <2>3 DEF Environment
(* What is kept stays, unless the sweep may delete it. *)
<1>7. ASSUME NEW u \in Nat, NEW t \in Int, Kept(u, t), t <= now,
             Idled => FALSE
      PROVE  Kept(u, t)'
  <2>1. index # NoIndex
    BY <1>7 DEF Kept, NoIndex
  <2>2. index' = index \/ (Written(index) /\ now' = now)
    BY <1>7, <2>1 DEF Environment, Kept
  <2>3. CASE index' = index
    BY <1>7, <2>3 DEF Kept
  <2>4. CASE Written(index)
    BY <1>1, <1>7, <2>4 DEF Written, Kept, IndexType
  <2> QED BY <2>2, <2>3, <2>4
<1>8. Idled => index.lastUsed + Idle <= now
  BY <1>2 DEF Idled, SweepFacts
<1>9. Fresh(r)'
  <2> SUFFICES ASSUME w.pc = "decide", w.seen.state = "ready", ~w.seen.deleting,
                      now' < w.seen.lastUsed + Idle
               PROVE  Kept(w.seen.uid, w.seen.lastUsed)'
    BY DEF Fresh, Kept
  <2>1. Kept(w.seen.uid, w.seen.lastUsed)
    BY <1>1, <1>2, <1>3 DEF RunFacts, Fresh
  <2>2. ~Idled
    BY <1>1, <1>3, <1>8, <2>1 DEF Kept
  <2>3. w.seen.lastUsed <= now
    BY <1>2 DEF RunFacts, ReadFacts
  <2> QED BY <1>1, <1>7, <2>1, <2>2, <2>3
<1>10. Held(r)'
  <2>1. ASSUME w.pc = "answered", now' <= w.at + Setup
        PROVE  Kept(w.uid, w.at - Touch + 1)'
    <3>1. Kept(w.uid, w.at - Touch + 1) /\ w.at <= now
      BY <1>1, <1>2, <1>3, <2>1 DEF RunFacts, Held
    <3>2. ~Idled
      BY <1>1, <1>3, <1>8, <2>1, <3>1, CacheAssumption DEF Kept
    <3>3. w.at - Touch + 1 <= now
      BY <1>1, <3>1, CacheAssumption
    <3> QED BY <1>1, <1>7, <3>1, <3>2, <3>3
  <2>2. ASSUME w.pc = "pod"
        PROVE  Kept(w.uid, 0)'
    <3>1. Kept(w.uid, 0)
      BY <1>2, <2>2 DEF RunFacts, Held
    <3>2. ~Idled
      BY <1>2, <2>2 DEF Idled, SweepFacts
    <3> QED BY <1>1, <1>7, <3>1, <3>2
  <2>3. w.pc = "answered" => w.at <= now'
    BY <1>1, <1>2, <1>3 DEF RunFacts, Held
  <2> QED BY <2>1, <2>2, <2>3 DEF Held, Kept
<1> QED BY <1>4, <1>6, <1>9, <1>10 DEF RunFacts

(* What the sweep has listed stays true, and a Pod that is created meanwhile *)
(* mounts a set that is not idle.                                            *)
LEMMA SweepKept ==
  ASSUME IInv, Environment, sweep' = sweep,
         \A r \in Runs : run'[r].pc = "pod" =>
           run[r].pc = "pod" \/ (index' = index /\ index.lastUsed + Idle > now)
  PROVE  SweepFacts'
<1>1. /\ sweep.at \in Nat /\ sweep.seen.uid \in Nat /\ sweep.seen.lastUsed \in Nat
      /\ now \in Nat /\ uids \in Nat /\ index \in IndexType
      /\ index.uid \in Nat /\ index.lastUsed \in Nat
      /\ Idle \in Nat /\ Idle > 0
  BY CacheAssumption DEF IInv, TypeOK, IndexType
<1>2. /\ now' \in Nat /\ uids' \in Nat /\ now <= now' /\ uids <= uids'
  BY DEF Environment
<1>3. SweepFacts /\ IndexFacts /\ \A r \in Runs : Held(r)
  BY DEF IInv, RunFacts
<1>4. sweep'.at <= now'
  BY <1>1, <1>2, <1>3 DEF SweepFacts
<1>5. sweep'.pc \in {"indexes", "both"} =>
       /\ sweep'.seen.uid \in 1 .. uids' /\ ~sweep'.seen.deleting
       /\ sweep'.seen.lastUsed + Idle <= now'
  BY <1>1, <1>2, <1>3 DEF SweepFacts
<1>6. ASSUME sweep.pc = "pods", NEW r \in Runs, run'[r].pc = "pod"
      PROVE  index'.lastUsed + Idle > sweep.at
  <2>1. CASE run[r].pc = "pod"
    <3>1. index.lastUsed + Idle > sweep.at /\ Kept(run[r].uid, 0)
      BY <1>3, <1>6, <2>1 DEF SweepFacts, Held
    <3>2. index # NoIndex /\ ~index.deleting /\ ~Idled
      BY <1>6, <3>1 DEF Kept, NoIndex, Idled
    <3>3. index' = index \/ Written(index)
      BY <3>2 DEF Environment
    <3>4. Written(index) => index'.lastUsed = now
      BY <1>1 DEF Written, IndexType
    <3> QED BY <1>1, <1>3, <3>1, <3>3, <3>4 DEF IndexFacts
  <2>2. CASE run[r].pc # "pod"
    BY <1>1, <1>3, <1>6, <2>2 DEF SweepFacts
  <2> QED BY <2>1, <2>2
<1>7. ASSUME sweep.pc = "both", index' = sweep.seen, NEW r \in Runs
      PROVE  run'[r].pc # "pod"
  <2>1. sweep.seen.uid \in 1 .. uids /\ ~sweep.seen.deleting /\ sweep.seen.lastUsed + Idle <= now
    BY <1>3, <1>7 DEF SweepFacts
  <2>2. index' # NoIndex
    BY <1>7, <2>1 DEF NoIndex
  <2>3. index'.uid # uids + 1
    BY <1>1, <1>7, <2>1
  <2>4. ~Written(index)
    <3>1. [index EXCEPT !.state = "ready", !.lastUsed = now].lastUsed = now
      BY <1>1 DEF IndexType
    <3>2. Written(index) => index'.lastUsed = now
      BY <3>1 DEF Written
    <3>3. index'.lastUsed + Idle <= now
      BY <1>7, <2>1
    <3> QED BY <1>1, <3>2, <3>3
  <2>5. index' # [index EXCEPT !.deleting = TRUE]
    <3>1. [index EXCEPT !.deleting = TRUE].deleting = TRUE
      BY <1>1 DEF IndexType
    <3> QED BY <1>7, <2>1, <3>1
  <2>6. index' = index
    BY <2>2, <2>3, <2>4, <2>5 DEF Environment
  <2>7. run[r].pc # "pod"
    BY <1>3, <1>7, <2>6 DEF SweepFacts
  <2> QED BY <1>1, <1>7, <2>1, <2>6, <2>7
<1> QED BY <1>4, <1>5, <1>6, <1>7 DEF SweepFacts

-----------------------------------------------------------------------------
(* A step of one stage: what it has to establish itself. *)
LEMMA StageStep ==
  ASSUME IInv, Environment, sweep' = sweep, NEW r \in Runs,
         \A q \in Runs : q # r => run'[q] = run[q],
         TypeOK', IndexFacts', ShardFacts', ReadyIsComplete', RunFacts(r)',
         run'[r].pc = "pod" => run[r].pc = "pod" \/ (index' = index /\ index.lastUsed + Idle > now)
  PROVE  IInv'
<1>1. \A q \in Runs : RunFacts(q)'
  <2> TAKE q \in Runs
  <2>1. CASE q = r
    BY <2>1
  <2>2. CASE q # r
    BY <2>2, RunKept
  <2> QED BY <2>1, <2>2
<1>2. SweepFacts'
  BY SweepKept
<1> QED BY <1>1, <1>2 DEF IInv

(* A step that only moves one stage. *)
LEMMA OnlyMoves ==
  ASSUME IInv, NEW r \in Runs, UNCHANGED <<now, index, uids, shards, sweep>>,
         \A q \in Runs : q # r => run'[q] = run[q],
         TypeOK', RunFacts(r)',
         run'[r].pc = "pod" => run[r].pc = "pod" \/ index.lastUsed + Idle > now
  PROVE  IInv'
<1>1. Environment
  BY DEF Environment, Has, IInv, TypeOK
<1>2. IndexFacts' /\ ShardFacts' /\ ReadyIsComplete'
  BY DEF IInv, IndexFacts, ShardFacts, ReadyIsComplete
<1> QED BY <1>1, <1>2, StageStep

RunType == [pc : Ensuring \cup {"idle", "answered", "pod"}, seen : IndexType,
            created : BOOLEAN, deadline : Nat, left : SUBSET Shards, uid : Nat, at : Nat]

(* A stage record in its type replaces another. *)
LEMMA RunTyped ==
  ASSUME IInv, NEW r \in Runs, NEW w \in RunType,
         UNCHANGED <<now, index, uids, shards, sweep>>, run' = [run EXCEPT ![r] = w]
  PROVE  TypeOK' /\ run'[r] = w /\ \A q \in Runs : q # r => run'[q] = run[q]
BY DEF IInv, TypeOK, RunType

LEMMA Typed ==
  ASSUME IInv
  PROVE  /\ now \in Nat /\ uids \in Nat /\ index \in IndexType
         /\ index.uid \in Nat /\ index.lastUsed \in Nat /\ index.deleting \in BOOLEAN
         /\ \A r \in Runs : run[r] \in RunType
         /\ \A r \in Runs : RunFacts(r)
         /\ Setup \in Nat /\ Idle \in Nat /\ Touch \in Nat /\ Timeout \in Nat
         /\ Touch > 0 /\ Touch + Setup <= Idle
         /\ NoIndex \in IndexType /\ NoRun \in RunType
BY CacheAssumption DEF IInv, TypeOK, IndexType, RunType, NoIndex, NoRun, Ensuring

(* Nothing is claimed of a stage that is idle or at the head of its loop. *)
LEMMA NothingKnown ==
  ASSUME NEW r, run'[r].pc \in {"idle", "loop", "create"}
  PROVE  RunFacts(r)'
BY DEF RunFacts, ReadFacts, Progress, Fresh, Held

LEMMA StartStep ==
  ASSUME IInv, NEW r \in Runs, Start(r)
  PROVE  IInv'
<1> DEFINE w == [NoRun EXCEPT !.pc = "loop", !.deadline = now + Timeout]
<1>1. w \in RunType /\ w.pc = "loop"
  <2>1. NoRun \in RunType /\ now + Timeout \in Nat
    BY Typed
  <2> QED BY <2>1 DEF RunType, Ensuring
<1>2. run' = [run EXCEPT ![r] = w] /\ UNCHANGED <<now, index, uids, shards, sweep>>
  BY DEF Start
<1> HIDE DEF w
<1>3. TypeOK' /\ run'[r] = w /\ \A q \in Runs : q # r => run'[q] = run[q]
  BY <1>1, <1>2, RunTyped
<1>4. RunFacts(r)'
  BY <1>1, <1>3, NothingKnown
<1> QED BY <1>1, <1>2, <1>3, <1>4, OnlyMoves

LEMMA StopStep ==
  ASSUME IInv, NEW r \in Runs, Stop(r)
  PROVE  IInv'
<1>1. NoRun \in RunType /\ NoRun.pc = "idle"
  BY Typed DEF NoRun
<1>2. run' = [run EXCEPT ![r] = NoRun] /\ UNCHANGED <<now, index, uids, shards, sweep>>
  BY DEF Stop
<1>3. TypeOK' /\ run'[r] = NoRun /\ \A q \in Runs : q # r => run'[q] = run[q]
  BY <1>1, <1>2, RunTyped
<1>4. RunFacts(r)'
  BY <1>1, <1>3, NothingKnown
<1> QED BY <1>1, <1>2, <1>3, <1>4, OnlyMoves

LEMMA CreatePodStep ==
  ASSUME IInv, NEW r \in Runs, CreatePod(r)
  PROVE  IInv'
<1> DEFINE w == [run[r] EXCEPT !.pc = "pod"]
<1>1. w \in RunType /\ w.pc = "pod" /\ w.uid = run[r].uid
  BY Typed DEF RunType
<1>2. /\ run' = [run EXCEPT ![r] = w] /\ UNCHANGED <<now, index, uids, shards, sweep>>
      /\ run[r].pc = "answered" /\ now <= run[r].at + Setup
  BY DEF CreatePod, Go
<1> HIDE DEF w
<1>3. TypeOK' /\ run'[r] = w /\ \A q \in Runs : q # r => run'[q] = run[q]
  BY <1>1, <1>2, RunTyped
<1>4. Kept(run[r].uid, run[r].at - Touch + 1) /\ run[r].at \in Nat
  <2>1. RunFacts(r) /\ run[r] \in RunType
    BY Typed
  <2>2. run[r].at \in Nat
    BY <2>1 DEF RunType
  <2> QED BY <1>2, <2>1, <2>2 DEF RunFacts, Held
<1>5. Kept(w.uid, 0) /\ index.lastUsed + Idle > now
  BY <1>1, <1>2, <1>4, Typed DEF Kept
<1>6. RunFacts(r)'
  BY <1>1, <1>2, <1>3, <1>5 DEF RunFacts, ReadFacts, Progress, Fresh, Held, Kept
<1> QED BY <1>1, <1>2, <1>3, <1>5, <1>6, OnlyMoves

(* The index as it is read. *)
LEMMA LoopStep ==
  ASSUME IInv, NEW r \in Runs, Loop(r)
  PROVE  IInv'
<1> DEFINE w == IF Late(r) THEN NoRun
                ELSE [run[r] EXCEPT !.pc = IF index = NoIndex THEN "create" ELSE "decide",
                                    !.seen = index]
<1>1. w \in RunType
  BY Typed DEF RunType, Ensuring
<1>2. run' = [run EXCEPT ![r] = w] /\ UNCHANGED <<now, index, uids, shards, sweep>>
  BY DEF Loop
<1>3. w.pc \in {"idle", "create"} \/ (w.pc = "decide" /\ w.seen = index /\ index # NoIndex)
  BY Typed DEF NoRun, RunType
<1> HIDE DEF w
<1>4. TypeOK' /\ run'[r] = w /\ \A q \in Runs : q # r => run'[q] = run[q]
  BY <1>1, <1>2, RunTyped
<1>5. RunFacts(r)'
  <2>1. CASE w.pc \in {"idle", "create"}
    BY <1>4, <2>1, NothingKnown
  <2>2. CASE w.pc = "decide" /\ w.seen = index /\ index # NoIndex
    <3>1. index.uid \in 1 .. uids /\ index.lastUsed <= now /\ index.state \in {"pending", "ready"}
      BY <2>2, Typed DEF IInv, IndexFacts
    <3>2. index.state = "ready" /\ ~index.deleting => Kept(index.uid, index.lastUsed)
      BY Typed DEF Kept
    <3> QED BY <1>2, <1>4, <2>2, <3>1, <3>2 DEF RunFacts, ReadFacts, Progress, Fresh, Held, Kept
  <2> QED BY <1>3, <2>1, <2>2
<1>6. w.pc # "pod"
  BY <1>3
<1> QED BY <1>2, <1>4, <1>5, <1>6, OnlyMoves

(* What to do is decided on what was read, at the time of the decision. *)
LEMMA DecideStep ==
  ASSUME IInv, NEW r \in Runs, Decide(r)
  PROVE  IInv'
<1> DEFINE v == run[r]
           again == [v EXCEPT !.pc = "loop", !.seen = NoIndex]
           answered == [NoRun EXCEPT !.pc = "answered", !.uid = v.seen.uid, !.at = now]
           touch == [v EXCEPT !.pc = "touch"]
           upload == [v EXCEPT !.pc = "upload", !.left = Shards]
<1>1. /\ v \in RunType /\ NoRun \in RunType /\ NoIndex \in IndexType /\ now \in Nat
      /\ v.seen \in IndexType /\ v.seen.uid \in Nat /\ v.seen.lastUsed \in Nat
  BY Typed DEF RunType, IndexType
<1>2. UNCHANGED <<now, index, uids, shards, sweep>> /\ v.pc = "decide"
  BY DEF Decide
<1>3. \/ run' = [run EXCEPT ![r] = again]
      \/ /\ run' = [run EXCEPT ![r] = answered]
         /\ v.seen.state = "ready" /\ ~v.seen.deleting /\ now - v.seen.lastUsed < Touch
      \/ run' = [run EXCEPT ![r] = touch] /\ v.seen.state = "ready" /\ ~v.seen.deleting
      \/ run' = [run EXCEPT ![r] = upload] /\ v.seen.state = "pending" /\ ~v.seen.deleting
  <2>1. v.seen.state \in {"pending", "ready"}
    BY <1>2, Typed DEF RunFacts, ReadFacts
  <2> QED BY <2>1 DEF Decide, Again, Answered, Go
<1>4. /\ again \in RunType /\ again.pc = "loop"
      /\ touch \in RunType /\ touch.pc = "touch" /\ touch.seen = v.seen
      /\ upload \in RunType /\ upload.pc = "upload" /\ upload.seen = v.seen /\ upload.left = Shards
  BY <1>1 DEF RunType, Ensuring
<1>5. answered \in RunType /\ answered.pc = "answered" /\ answered.uid = v.seen.uid /\ answered.at = now
  BY <1>1 DEF RunType, Ensuring
<1>6. v.seen.uid \in 1 .. uids /\ v.seen.lastUsed <= now /\ RunFacts(r)
  BY <1>2, Typed DEF RunFacts, ReadFacts
<1> HIDE DEF v, again, answered, touch, upload
<1>7. CASE run' = [run EXCEPT ![r] = again]
  <2>1. TypeOK' /\ run'[r] = again /\ \A q \in Runs : q # r => run'[q] = run[q]
    BY <1>2, <1>4, <1>7, RunTyped
  <2>2. RunFacts(r)'
    BY <1>4, <2>1, NothingKnown
  <2> QED BY <1>2, <1>4, <2>1, <2>2, OnlyMoves
<1>8. CASE /\ run' = [run EXCEPT ![r] = answered]
           /\ v.seen.state = "ready" /\ ~v.seen.deleting /\ now - v.seen.lastUsed < Touch
  <2>1. TypeOK' /\ run'[r] = answered /\ \A q \in Runs : q # r => run'[q] = run[q]
    BY <1>2, <1>5, <1>8, RunTyped
  <2>2. now < v.seen.lastUsed + Idle
    BY <1>1, <1>8, Typed
  <2>3. Kept(v.seen.uid, v.seen.lastUsed)
    BY <1>2, <1>6, <1>8, <2>2 DEF RunFacts, Fresh, v
  <2>4. Kept(v.seen.uid, now - Touch + 1)
    BY <1>1, <1>8, <2>3, Typed DEF Kept
  <2>5. RunFacts(r)'
    BY <1>1, <1>2, <1>5, <2>1, <2>4 DEF RunFacts, ReadFacts, Progress, Fresh, Held, Kept
  <2> QED BY <1>2, <1>5, <2>1, <2>5, OnlyMoves
<1>9. CASE run' = [run EXCEPT ![r] = touch] /\ v.seen.state = "ready" /\ ~v.seen.deleting
  <2>1. TypeOK' /\ run'[r] = touch /\ \A q \in Runs : q # r => run'[q] = run[q]
    BY <1>2, <1>4, <1>9, RunTyped
  <2>2. RunFacts(r)'
    BY <1>2, <1>4, <1>6, <1>9, <2>1 DEF RunFacts, ReadFacts, Progress, Fresh, Held
  <2> QED BY <1>2, <1>4, <2>1, <2>2, OnlyMoves
<1>10. CASE run' = [run EXCEPT ![r] = upload] /\ v.seen.state = "pending" /\ ~v.seen.deleting
  <2>1. TypeOK' /\ run'[r] = upload /\ \A q \in Runs : q # r => run'[q] = run[q]
    BY <1>2, <1>4, <1>10, RunTyped
  <2>2. RunFacts(r)'
    BY <1>2, <1>4, <1>6, <1>10, <2>1 DEF RunFacts, ReadFacts, Progress, Fresh, Held
  <2> QED BY <1>2, <1>4, <2>1, <2>2, OnlyMoves
<1> QED BY <1>3, <1>7, <1>8, <1>9, <1>10

(* A new incarnation of the set: nothing is uploaded yet. *)
LEMMA CreateIndexStep ==
  ASSUME IInv, NEW r \in Runs, CreateIndex(r)
  PROVE  IInv'
<1>1. CASE index # NoIndex
  <2> DEFINE again == [run[r] EXCEPT !.pc = "loop", !.seen = NoIndex]
  <2>1. again \in RunType /\ again.pc = "loop"
    BY Typed DEF RunType, Ensuring
  <2>2. run' = [run EXCEPT ![r] = again] /\ UNCHANGED <<now, index, uids, shards, sweep>>
    BY <1>1 DEF CreateIndex, Again
  <2> HIDE DEF again
  <2>3. TypeOK' /\ run'[r] = again /\ \A q \in Runs : q # r => run'[q] = run[q]
    BY <2>1, <2>2, RunTyped
  <2>4. RunFacts(r)'
    BY <2>1, <2>3, NothingKnown
  <2> QED BY <2>1, <2>2, <2>3, <2>4, OnlyMoves
<1>2. CASE index = NoIndex
  <2> DEFINE new == Pending(uids + 1)
             w == [run[r] EXCEPT !.pc = "decide", !.seen = new, !.created = TRUE]
  <2>1. /\ new \in IndexType /\ new.uid = uids + 1 /\ new.state = "pending"
        /\ new.lastUsed = now /\ ~new.deleting
    BY Typed DEF Pending, IndexType
  <2>2. uids' = uids + 1 /\ index' = new /\ UNCHANGED <<now, shards, sweep>>
    BY <1>2 DEF CreateIndex
  <2>3. run' = [run EXCEPT ![r] = w]
    BY <1>2, <2>2 DEF CreateIndex
  <2> HIDE DEF new
  <2>4. w \in RunType /\ w.pc = "decide" /\ w.seen = new
    BY <2>1, Typed DEF RunType, Ensuring
  <2> HIDE DEF w
  <2>5. run'[r] = w /\ run' \in [Runs -> RunType] /\ \A q \in Runs : q # r => run'[q] = run[q]
    BY <2>3, <2>4 DEF IInv, TypeOK, RunType
  <2>6. TypeOK'
    BY <2>1, <2>2, <2>5, Typed DEF IInv, TypeOK, RunType
  <2>7. IndexFacts' /\ ReadyIsComplete' /\ ShardFacts'
    BY <2>1, <2>2, Typed DEF IInv, IndexFacts, ReadyIsComplete, ShardFacts
  <2>8. Environment
    BY <1>2, <2>1, <2>2, Typed DEF Environment, Has
  <2>9. RunFacts(r)'
    BY <2>1, <2>2, <2>4, <2>5, Typed DEF RunFacts, ReadFacts, Progress, Fresh, Held
  <2> QED BY <2>2, <2>4, <2>5, <2>6, <2>7, <2>8, <2>9, StageStep
<1> QED BY <1>1, <1>2

(* Publishing and touching: the index is as it was read. *)
LEMMA AnnotateStep ==
  ASSUME IInv, NEW r \in Runs, Annotate(r)
  PROVE  IInv'
<1>1. CASE index # run[r].seen
  <2> DEFINE again == [run[r] EXCEPT !.pc = "loop", !.seen = NoIndex]
  <2>1. again \in RunType /\ again.pc = "loop"
    BY Typed DEF RunType, Ensuring
  <2>2. run' = [run EXCEPT ![r] = again] /\ UNCHANGED <<now, index, uids, shards, sweep>>
    BY <1>1 DEF Annotate, Again
  <2> HIDE DEF again
  <2>3. TypeOK' /\ run'[r] = again /\ \A q \in Runs : q # r => run'[q] = run[q]
    BY <2>1, <2>2, RunTyped
  <2>4. RunFacts(r)'
    BY <2>1, <2>3, NothingKnown
  <2> QED BY <2>1, <2>2, <2>3, <2>4, OnlyMoves
<1>2. CASE index = run[r].seen
  <2> DEFINE new == [index EXCEPT !.state = "ready", !.lastUsed = now]
             w == [NoRun EXCEPT !.pc = "answered", !.uid = run[r].seen.uid, !.at = now]
  <2>1. /\ new \in IndexType /\ new.uid = index.uid /\ new.state = "ready"
        /\ new.lastUsed = now /\ new.deleting = index.deleting
    BY Typed DEF IndexType
  <2>2. /\ index' = new /\ run' = [run EXCEPT ![r] = w] /\ UNCHANGED <<now, uids, shards, sweep>>
        /\ run[r].pc \in {"touch", "publish"}
    BY <1>2 DEF Annotate, Answered
  <2>3. /\ index.uid \in 1 .. uids /\ index.lastUsed <= now /\ ~index.deleting
        /\ RunFacts(r) /\ IndexFacts
    BY <1>2, <2>2, Typed DEF IInv, RunFacts, ReadFacts
  <2>4. \A n \in Shards : Has(index.uid, n)
    <3>1. CASE run[r].pc = "touch"
      BY <1>2, <2>3, <3>1 DEF IInv, ReadyIsComplete, RunFacts, ReadFacts, Has
    <3>2. CASE run[r].pc = "publish"
      BY <1>2, <2>3, <3>2 DEF RunFacts, ReadFacts, Progress
    <3> QED BY <2>2, <3>1, <3>2
  <2>5. w \in RunType /\ w.pc = "answered" /\ w.uid = index.uid /\ w.at = now
    BY <1>2, Typed DEF RunType, Ensuring
  <2>6. Written(index)
    BY <2>2, <2>3 DEF Written
  <2> HIDE DEF new, w
  <2>7. run'[r] = w /\ run' \in [Runs -> RunType] /\ \A q \in Runs : q # r => run'[q] = run[q]
    BY <2>2, <2>5 DEF IInv, TypeOK, RunType
  <2>8. TypeOK'
    BY <2>1, <2>2, <2>7, Typed DEF IInv, TypeOK, RunType
  <2>9. IndexFacts' /\ ShardFacts'
    BY <2>1, <2>2, <2>3, Typed DEF IInv, IndexFacts, ShardFacts, NoIndex
  <2>10. ReadyIsComplete'
    BY <2>1, <2>2, <2>4 DEF ReadyIsComplete, Has
  <2>11. Environment
    BY <2>2, <2>6, Typed DEF Environment, Has
  <2>12. RunFacts(r)'
    BY <2>1, <2>2, <2>3, <2>5, <2>7, Typed DEF RunFacts, ReadFacts, Progress, Fresh, Held, Kept
  <2> QED BY <2>2, <2>5, <2>7, <2>8, <2>9, <2>10, <2>11, <2>12, StageStep
<1> QED BY <1>1, <1>2

(* One more shard is there, of the incarnation the stage has read. *)
LEMMA UploadShardStep ==
  ASSUME IInv, NEW r \in Runs, NEW n \in Shards, UploadShard(r, n)
  PROVE  IInv'
<1> DEFINE v == run[r]
           w == [v EXCEPT !.left = v.left \ {n},
                          !.pc = IF v.left \ {n} = {} THEN "publish" ELSE "upload"]
           name == ShardName(v.seen.uid, n)
           new == [name |-> name, owner |-> v.seen.uid]
<1>1. /\ v \in RunType /\ v.seen.uid \in Nat /\ v.left \subseteq Shards /\ v.pc = "upload" /\ n \in v.left
      /\ v.seen.uid \in 1 .. uids /\ v.seen.lastUsed <= now
      /\ v.seen.state = "pending" /\ ~v.seen.deleting /\ RunFacts(r)
  BY Typed DEF UploadShard, RunType, IndexType, RunFacts, ReadFacts
<1>2. /\ shards' = IF \E s \in shards : s.name = name THEN shards ELSE shards \cup {new}
      /\ UNCHANGED <<now, index, uids, sweep>>
  BY DEF UploadShard
<1>3. run' = [run EXCEPT ![r] = w]
  BY DEF UploadShard
<1>4. /\ w \in RunType /\ w.left = v.left \ {n} /\ w.seen = v.seen
      /\ w.pc \in {"upload", "publish"} /\ (w.pc = "publish" => w.left = {})
  BY <1>1 DEF RunType, Ensuring
<1>5. new \in [name : Nat \X Shards, owner : Nat] /\ new.name = ShardName(new.owner, n)
  BY <1>1 DEF ShardName
<1>6. shards \subseteq shards' /\ \A s \in shards' : s \in shards \/ s = new
  BY <1>2
<1>7. \E s \in shards' : s.name = name
  <2>1. new.name = name
    OBVIOUS
  <2> HIDE DEF name, new
  <2>2. CASE \E s \in shards : s.name = name
    BY <1>2, <2>2
  <2>3. CASE ~\E s \in shards : s.name = name
    <3>1. shards' = shards \cup {new}
      BY <1>2, <2>3
    <3>2. new \in shards'
      BY <3>1
    <3> QED BY <2>1, <3>2
  <2> QED BY <2>2, <2>3
<1> HIDE DEF v, w, name, new
<1>8. run'[r] = w /\ run' \in [Runs -> RunType] /\ \A q \in Runs : q # r => run'[q] = run[q]
  BY <1>3, <1>4 DEF IInv, TypeOK, RunType
<1>9. TypeOK'
  BY <1>2, <1>5, <1>6, <1>8 DEF IInv, TypeOK, RunType
<1>10. IndexFacts' /\ ShardFacts' /\ ReadyIsComplete'
  <2>1. ShardFacts'
    BY <1>5, <1>6 DEF IInv, ShardFacts
  <2>2. IndexFacts' /\ ReadyIsComplete'
    BY <1>2, <1>6 DEF IInv, IndexFacts, ReadyIsComplete
  <2> QED BY <2>1, <2>2
<1>11. Environment
  BY <1>2, <1>6, Typed DEF Environment, Has
<1>12. RunFacts(r)'
  <2>1. Progress(r)'
    <3> SUFFICES ASSUME v.seen.uid = index.uid, NEW m \in Shards \ (v.left \ {n})
                 PROVE  \E s \in shards' : s.name = ShardName(v.seen.uid, m)
      BY <1>2, <1>4, <1>8 DEF Progress, Has
    <3>1. CASE m = n
      BY <1>7, <3>1 DEF name
    <3>2. CASE m # n
      <4>1. Has(v.seen.uid, m)
        BY <1>1, <3>2 DEF RunFacts, Progress, v
      <4> QED BY <1>6, <4>1 DEF Has
    <3> QED BY <3>1, <3>2
  <2>2. ReadFacts(r)' /\ Fresh(r)' /\ Held(r)'
    BY <1>1, <1>2, <1>4, <1>8 DEF ReadFacts, Fresh, Held
  <2> QED BY <2>1, <2>2 DEF RunFacts
<1>13. w.pc # "pod"
  BY <1>4
<1> QED BY <1>2, <1>8, <1>9, <1>10, <1>11, <1>12, <1>13, StageStep

-----------------------------------------------------------------------------
(* Time, the cluster and the sweep. *)

(* A step that moves no stage. *)
LEMMA NoStageMoves ==
  ASSUME IInv, Environment, run' = run,
         TypeOK', IndexFacts', ShardFacts', ReadyIsComplete', SweepFacts'
  PROVE  IInv'
<1>1. \A r \in Runs : RunFacts(r)'
  BY RunKept
<1> QED BY <1>1 DEF IInv

LEMMA TickStep ==
  ASSUME IInv, Tick
  PROVE  IInv'
<1>1. now' = now + 1 /\ UNCHANGED <<index, uids, shards, run, sweep>>
  BY DEF Tick
<1>2. Environment
  BY <1>1, Typed DEF Environment, Has
<1>3. TypeOK' /\ IndexFacts' /\ ShardFacts' /\ ReadyIsComplete'
  BY <1>1, Typed DEF IInv, TypeOK, IndexFacts, ShardFacts, ReadyIsComplete
<1>4. SweepFacts'
  BY <1>1, <1>2, SweepKept
<1> QED BY <1>1, <1>2, <1>3, <1>4, NoStageMoves

LEMMA VanishStep ==
  ASSUME IInv, Vanish
  PROVE  IInv'
<1>1. index.deleting /\ index' = NoIndex /\ UNCHANGED <<now, uids, shards, run, sweep>>
  BY DEF Vanish
<1>2. Environment
  BY <1>1, Typed DEF Environment, Has
<1>3. TypeOK' /\ IndexFacts' /\ ShardFacts' /\ ReadyIsComplete'
  BY <1>1, Typed DEF IInv, TypeOK, IndexFacts, ShardFacts, ReadyIsComplete, NoIndex
<1>4. SweepFacts'
  BY <1>1, <1>2, SweepKept
<1> QED BY <1>1, <1>2, <1>3, <1>4, NoStageMoves

LEMMA CollectShardStep ==
  ASSUME IInv, NEW s, CollectShard(s)
  PROVE  IInv'
<1>1. shards' = shards \ {s} /\ UNCHANGED <<now, index, uids, run, sweep>>
  BY DEF CollectShard
<1>2. \A n \in Shards : Has(index.uid, n) => \E t \in shards' : t.name = ShardName(index.uid, n)
  BY ShardsStay
<1>3. Environment
  BY <1>1, <1>2, Typed DEF Environment
<1>4. TypeOK' /\ IndexFacts' /\ ShardFacts'
  BY <1>1 DEF IInv, TypeOK, IndexFacts, ShardFacts
<1>5. ReadyIsComplete'
  BY <1>1, <1>2 DEF IInv, ReadyIsComplete, Has
<1>6. SweepFacts'
  BY <1>1, <1>3, SweepKept
<1> QED BY <1>1, <1>3, <1>4, <1>5, <1>6, NoStageMoves

SweepType == [pc : {"idle", "indexes", "pods", "both"}, at : Nat, seen : IndexType]

(* A step of the sweep that only looks. *)
LEMMA SweepLooks ==
  ASSUME IInv, UNCHANGED <<now, index, uids, shards, run>>, sweep' \in SweepType, SweepFacts'
  PROVE  IInv'
<1>1. Environment
  BY Typed DEF Environment, Has
<1>2. TypeOK' /\ IndexFacts' /\ ShardFacts' /\ ReadyIsComplete'
  BY DEF IInv, TypeOK, SweepType, IndexFacts, ShardFacts, ReadyIsComplete
<1> QED BY <1>1, <1>2, NoStageMoves

LEMMA NoSweepFact ==
  ASSUME IInv
  PROVE  NoSweep \in SweepType /\ (now' \in Nat /\ sweep' = NoSweep => SweepFacts')
BY Typed DEF NoSweep, SweepType, SweepFacts

LEMMA ListIndexesStep ==
  ASSUME IInv, ListIndexes
  PROVE  IInv'
<1> DEFINE at == IF sweep.pc = "idle" THEN now ELSE sweep.at
           w == [pc |-> IF sweep.pc = "idle" THEN "indexes" ELSE "both", at |-> 0, seen |-> index]
<1>1. /\ sweep.pc \in {"idle", "pods"}
      /\ UNCHANGED <<now, index, uids, shards, run>>
      /\ sweep' = IF Collectable(index, at) THEN w ELSE NoSweep
  BY DEF ListIndexes
<1>2. sweep.at \in Nat /\ at \in Nat /\ at <= now /\ SweepFacts /\ IndexFacts
  BY Typed DEF IInv, TypeOK, SweepFacts
<1>3. CASE ~Collectable(index, at)
  BY <1>1, <1>3, NoSweepFact, SweepLooks, Typed
<1>4. CASE Collectable(index, at)
  <2>1. sweep' = w
    BY <1>1, <1>4
  <2>2. w \in SweepType
    BY Typed DEF SweepType
  <2>3. index # NoIndex /\ ~index.deleting /\ at - index.lastUsed >= Idle
    BY <1>4 DEF Collectable
  <2>4. index.uid \in 1 .. uids /\ index.lastUsed + Idle <= now
    BY <1>2, <2>3, Typed DEF IndexFacts
  <2>5. sweep.pc = "pods" => \A r \in Runs : run[r].pc # "pod"
    BY <1>2, <2>3, Typed DEF SweepFacts
  <2>6. SweepFacts'
    BY <1>1, <2>1, <2>3, <2>4, <2>5, Typed DEF SweepFacts
  <2> QED BY <1>1, <2>1, <2>2, <2>6, SweepLooks
<1> QED BY <1>3, <1>4

LEMMA ListPodsStep ==
  ASSUME IInv, ListPods
  PROVE  IInv'
<1>1. sweep.pc \in {"idle", "indexes"} /\ UNCHANGED <<now, index, uids, shards, run>>
  BY DEF ListPods
<1>2. SweepFacts /\ sweep \in SweepType
  BY DEF IInv, TypeOK, SweepType
<1>3. CASE Mounted
  <2>1. sweep' = NoSweep
    BY <1>3 DEF ListPods
  <2> QED BY <1>1, <2>1, NoSweepFact, SweepLooks, Typed
<1>4. CASE ~Mounted /\ sweep.pc = "idle"
  <2> DEFINE w == [NoSweep EXCEPT !.pc = "pods", !.at = now]
  <2>1. sweep' = w
    BY <1>4 DEF ListPods
  <2>2. w \in SweepType /\ w.pc = "pods" /\ w.at = now
    BY NoSweepFact, Typed DEF SweepType
  <2> HIDE DEF w
  <2>3. SweepFacts'
    BY <1>1, <1>4, <2>1, <2>2, Typed DEF SweepFacts, Mounted
  <2> QED BY <1>1, <2>1, <2>2, <2>3, SweepLooks
<1>5. CASE ~Mounted /\ sweep.pc = "indexes"
  <2> DEFINE w == [sweep EXCEPT !.pc = "both"]
  <2>1. sweep' = w
    BY <1>5 DEF ListPods
  <2>2. w \in SweepType /\ w.pc = "both" /\ w.at = sweep.at /\ w.seen = sweep.seen
    BY <1>2 DEF SweepType
  <2> HIDE DEF w
  <2>3. SweepFacts'
    BY <1>1, <1>2, <1>5, <2>1, <2>2 DEF SweepFacts, Mounted
  <2> QED BY <1>1, <2>1, <2>2, <2>3, SweepLooks
<1> QED BY <1>1, <1>3, <1>4, <1>5

LEMMA DeleteIndexStep ==
  ASSUME IInv, NEW marked \in BOOLEAN, DeleteIndex(marked)
  PROVE  IInv'
<1>1. sweep.pc = "both" /\ sweep' = NoSweep /\ UNCHANGED <<now, uids, shards, run>>
  BY DEF DeleteIndex
<1>2. \/ index' = index
      \/ Idled /\ index' = NoIndex
      \/ Idled /\ index' = [index EXCEPT !.deleting = TRUE]
  BY DEF DeleteIndex, Idled, Unchanged
<1>3. Environment
  BY <1>1, <1>2, Typed DEF Environment, Has
<1>4. SweepFacts' /\ sweep' \in SweepType
  BY <1>1, NoSweepFact, Typed
<1>5. \/ index' = index
      \/ index' = NoIndex
      \/ /\ index' \in IndexType /\ index'.uid = index.uid /\ index'.lastUsed = index.lastUsed
         /\ index'.state = index.state /\ index # NoIndex
  <2>1. Idled => index # NoIndex
    BY DEF IInv, SweepFacts, Idled, NoIndex
  <2>2. LET i == [index EXCEPT !.deleting = TRUE]
        IN i \in IndexType /\ i.uid = index.uid /\ i.lastUsed = index.lastUsed /\ i.state = index.state
    BY Typed DEF IndexType
  <2> QED BY <1>2, <2>1, <2>2
<1>6. TypeOK'
  BY <1>1, <1>4, <1>5, Typed DEF IInv, TypeOK, SweepType
<1>7. IndexFacts' /\ ShardFacts' /\ ReadyIsComplete'
  <2>1. NoIndex.uid = 0 /\ NoIndex.lastUsed = 0 /\ NoIndex.state = "absent"
    BY DEF NoIndex
  <2> QED BY <1>1, <1>5, <2>1, Typed DEF IInv, IndexFacts, ShardFacts, ReadyIsComplete
<1> QED BY <1>1, <1>3, <1>4, <1>6, <1>7, NoStageMoves

-----------------------------------------------------------------------------
LEMMA NextStep ==
  ASSUME IInv, [Next]_vars
  PROVE  IInv'
<1>1. CASE UNCHANGED vars
  BY <1>1 DEF vars, IInv, TypeOK, IndexFacts, ShardFacts, ReadyIsComplete, RunFacts, ReadFacts,
              Progress, Fresh, Held, Kept, Has, SweepFacts
<1>2. CASE Tick \/ Vanish \/ \E s \in shards : CollectShard(s)
  BY <1>2, TickStep, VanishStep, CollectShardStep
<1>3. CASE \E r \in Runs : Start(r) \/ CreatePod(r) \/ Stop(r)
  BY <1>3, StartStep, CreatePodStep, StopStep
<1>4. CASE \E r \in Runs : Ensure(r)
  <2>1. PICK r \in Runs : Ensure(r)
    BY <1>4
  <2>2. CASE Loop(r) \/ CreateIndex(r) \/ Decide(r) \/ Annotate(r)
    BY <2>2, LoopStep, CreateIndexStep, DecideStep, AnnotateStep
  <2>3. CASE \E n \in Shards : UploadShard(r, n)
    BY <2>3, UploadShardStep
  <2> QED BY <2>1, <2>2, <2>3 DEF Ensure
<1>5. CASE ListIndexes \/ ListPods \/ \E marked \in BOOLEAN : DeleteIndex(marked)
  BY <1>5, ListIndexesStep, ListPodsStep, DeleteIndexStep
<1> QED BY <1>1, <1>2, <1>3, <1>4, <1>5 DEF Next

LEMMA AlwaysIInv == Spec => []IInv
<1>1. IInv /\ [Next]_vars => IInv'
  BY NextStep
<1> QED BY InitIInv, <1>1, PTL DEF Spec

(* Index, shards, stages and sweep stay in their types. *)
THEOREM TypeCorrect == Spec => []TypeOK
<1>1. IInv => TypeOK
  BY DEF IInv
<1> QED BY AlwaysIInv, <1>1, PTL

(* Whoever publishes an index, creator or successor, and whatever was        *)
(* deleted meanwhile: all shards of that incarnation are there.              *)
THEOREM PublishedIsComplete == Spec => []ReadyIsComplete
<1>1. IInv => ReadyIsComplete
  BY DEF IInv
<1> QED BY AlwaysIInv, <1>1, PTL

(* As long as a Pod follows its answer within Setup, no sweep takes away     *)
(* what it mounts.                                                           *)
THEOREM PodsKeepTheirTestcases == Spec => []MountedIsThere
<1>1. IInv => MountedIsThere
  BY DEF IInv, RunFacts, Held, Kept, ReadyIsComplete, MountedIsThere
<1> QED BY AlwaysIInv, <1>1, PTL
=============================================================================
