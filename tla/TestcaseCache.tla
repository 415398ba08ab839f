---------------------------- MODULE TestcaseCache ----------------------------
(***************************************************************************)
(* The testcases a stage mounts in Kubernetes (KubernetesTestcaseCache):   *)
(* one set, found by its content hash, is an index ConfigMap and the       *)
(* shards it owns.  Stages create it, take it over from a creator that     *)
(* stopped, touch and mount it; a sweep (collectTestcaseCache) deletes it  *)
(* when nobody used it for long.                                           *)
(*                                                                         *)
(* Every call to the API server is a step of its own, and so is every      *)
(* decision on what an earlier call answered.  A patch or deletion names   *)
(* the resourceVersion it read; since every patch changes the state or the *)
(* last use, an index is unchanged exactly if it equals what was read.     *)
(* Time is counted in units; all clocks agree.                             *)
(***************************************************************************)
EXTENDS Integers, FiniteSets

CONSTANTS
  Runs,       \* bound: stages at a time; a run that is over may start anew
  Shards,     \* the parts of the set
  Takeover,   \* TESTCASE_TAKEOVER_MS
  Timeout,    \* ENSURE_TIMEOUT_MS
  Touch,      \* TESTCASE_TOUCH_INTERVAL_MS
  Idle,       \* TESTCASE_CACHE_IDLE_TTL_MS
  Setup,      \* longest from the answer of ensure to the Pod
  MaxUids,    \* bound: incarnations of the set
  MaxTime     \* bound: time

ASSUME CacheAssumption ==
  /\ {Takeover, Timeout, Touch, Idle, Setup, MaxTime} \subseteq Nat
  /\ MaxUids \in Nat \ {0}
  /\ Touch > 0
  /\ Touch + Setup <= Idle

VARIABLES
  now,
  index,    \* the index ConfigMap, or NoIndex
  uids,     \* incarnations so far
  shards,   \* shard ConfigMaps: name, and uid of the index that owns them
  run,      \* where each stage is
  sweep     \* what the sweep has listed

vars == <<now, index, uids, shards, run, sweep>>

NoIndex == [uid |-> 0, state |-> "absent", lastUsed |-> 0, deleting |-> FALSE]
Pending(u) == [uid |-> u, state |-> "pending", lastUsed |-> now, deleting |-> FALSE]
NoRun == [pc |-> "idle", seen |-> NoIndex, created |-> FALSE, deadline |-> 0, left |-> {},
          uid |-> 0, at |-> 0]
NoSweep == [pc |-> "idle", at |-> 0, seen |-> NoIndex]

Ensuring == {"loop", "create", "decide", "touch", "upload", "publish"}

IndexType == [uid : Nat, state : {"absent", "pending", "ready"}, lastUsed : Nat, deleting : BOOLEAN]

(* Every variable stays in its type. *)
TypeOK ==
  /\ now \in Nat
  /\ index \in IndexType
  /\ uids \in Nat
  /\ shards \subseteq [name : Nat \X Shards, owner : Nat]
  /\ run \in [Runs -> [pc : Ensuring \cup {"idle", "answered", "pod"}, seen : IndexType,
                       created : BOOLEAN, deadline : Nat, left : SUBSET Shards,
                       uid : Nat, at : Nat]]
  /\ sweep \in [pc : {"idle", "indexes", "pods", "both"}, at : Nat, seen : IndexType]

Init ==
  /\ now = 0
  /\ index = NoIndex
  /\ uids = 0
  /\ shards = {}
  /\ run = [r \in Runs |-> NoRun]
  /\ sweep = NoSweep

Tick ==
  /\ now < MaxTime
  /\ now' = now + 1
  /\ UNCHANGED <<index, uids, shards, run, sweep>>

-----------------------------------------------------------------------------
(* ensure.                                                                  *)

Go(r, pc) == [run EXCEPT ![r].pc = pc]
Again(r) == [run EXCEPT ![r].pc = "loop", ![r].seen = NoIndex]
Answered(r) == [run EXCEPT ![r] = [NoRun EXCEPT !.pc = "answered", !.uid = run[r].seen.uid, !.at = now]]

(* A stage asks for its testcases. *)
Start(r) ==
  /\ run[r].pc = "idle"
  /\ now + Timeout <= MaxTime
  /\ run' = [run EXCEPT ![r] = [NoRun EXCEPT !.pc = "loop", !.deadline = now + Timeout]]
  /\ UNCHANGED <<now, index, uids, shards, sweep>>

\* Mutant: the loop has no deadline.
NoDeadline(r) == FALSE

Late(r) == now >= run[r].deadline

(* The head of the loop: give up, or read the index. *)
Loop(r) ==
  /\ run[r].pc = "loop"
  /\ run' = IF Late(r) THEN [run EXCEPT ![r] = NoRun]
            ELSE [run EXCEPT ![r].pc = IF index = NoIndex THEN "create" ELSE "decide",
                             ![r].seen = index]
  /\ UNCHANGED <<now, index, uids, shards, sweep>>

(* createIndex; a conflict means that somebody else was first. *)
CreateIndex(r) ==
  /\ run[r].pc = "create"
  /\ IF index = NoIndex
     THEN /\ uids' = uids + 1
          /\ index' = Pending(uids + 1)
          /\ run' = [run EXCEPT ![r].pc = "decide", ![r].seen = index', ![r].created = TRUE]
     ELSE /\ run' = Again(r)
          /\ UNCHANGED <<uids, index>>
  /\ UNCHANGED <<now, shards, sweep>>

(* What the read index asks for: to wait for its deletion or its creator, to *)
(* use it, to touch it first, or to upload its shards.                       *)
Decide(r) ==
  LET w == run[r]
      age == now - w.seen.lastUsed
  IN /\ w.pc = "decide"
     /\ run' =
          CASE w.seen.deleting -> Again(r)
            [] ~w.seen.deleting /\ w.seen.state = "ready" ->
                 IF age < Touch THEN Answered(r) ELSE Go(r, "touch")
            [] ~w.seen.deleting /\ w.seen.state = "pending" ->
                 IF ~w.created /\ age < Takeover THEN Again(r)
                 ELSE [run EXCEPT ![r].pc = "upload", ![r].left = Shards]
     /\ UNCHANGED <<now, index, uids, shards, sweep>>

(* annotate with the resourceVersion that was read: to touch, or to publish. *)
Annotate(r) ==
  /\ run[r].pc \in {"touch", "publish"}
  /\ IF index = run[r].seen
     THEN /\ index' = [index EXCEPT !.state = "ready", !.lastUsed = now]
          /\ run' = Answered(r)
     ELSE /\ run' = Again(r)
          /\ UNCHANGED index
  /\ UNCHANGED <<now, uids, shards, sweep>>

\* Mutant: a shard is named after its set only.
NamedAfterSet(u, n) == <<0, n>>

ShardName(u, n) == <<u, n>>

(* createShards: a shard that exists already counts as uploaded. *)
UploadShard(r, n) ==
  LET name == ShardName(run[r].seen.uid, n)
      left == run[r].left \ {n}
  IN /\ run[r].pc = "upload" /\ n \in run[r].left
     /\ shards' = IF \E s \in shards : s.name = name THEN shards
                  ELSE shards \cup {[name |-> name, owner |-> run[r].seen.uid]}
     /\ run' = [run EXCEPT ![r].left = left, ![r].pc = IF left = {} THEN "publish" ELSE "upload"]
     /\ UNCHANGED <<now, index, uids, sweep>>

-----------------------------------------------------------------------------
(* The stage that mounts the set.                                           *)

(* The rest of createStagePayloads, createStageJob and the Job controller.    *)
CreatePod(r) ==
  /\ run[r].pc = "answered" /\ now <= run[r].at + Setup
  /\ run' = Go(r, "pod")
  /\ UNCHANGED <<now, index, uids, shards, sweep>>

(* The stage ends, fails, is aborted or loses its worker. *)
Stop(r) ==
  /\ run[r].pc # "idle"
  /\ run' = [run EXCEPT ![r] = NoRun]
  /\ UNCHANGED <<now, index, uids, shards, sweep>>

-----------------------------------------------------------------------------
(* collectTestcaseCache: index and Pods are listed together, in any order,   *)
(* and the sweep is over when either says that the set stays.                *)

Collectable(seen, at) ==
  /\ seen # NoIndex /\ ~seen.deleting
  /\ at - seen.lastUsed >= Idle
  /\ uids < MaxUids

ListIndexes ==
  /\ sweep.pc \in {"idle", "pods"}
  /\ LET at == IF sweep.pc = "idle" THEN now ELSE sweep.at
     IN sweep' = IF Collectable(index, at)
                 THEN [pc |-> IF sweep.pc = "idle" THEN "indexes" ELSE "both", at |-> 0, seen |-> index]
                 ELSE NoSweep
  /\ UNCHANGED <<now, index, uids, shards, run>>

Mounted == \E r \in Runs : run[r].pc = "pod"

ListPods ==
  /\ sweep.pc \in {"idle", "indexes"}
  /\ sweep' = CASE Mounted -> NoSweep
                [] ~Mounted /\ sweep.pc = "idle" -> [NoSweep EXCEPT !.pc = "pods", !.at = now]
                [] ~Mounted /\ sweep.pc = "indexes" -> [sweep EXCEPT !.pc = "both"]
  /\ UNCHANGED <<now, index, uids, shards, run>>

\* Mutant: only the uid is a precondition of the deletion.
SameUid == index.uid = sweep.seen.uid

Unchanged == index = sweep.seen

(* The deletion, if nothing was written since; the API server may only mark  *)
(* the index at first.                                                       *)
DeleteIndex(marked) ==
  /\ sweep.pc = "both"
  /\ index' = IF ~Unchanged THEN index
              ELSE IF marked THEN [index EXCEPT !.deleting = TRUE] ELSE NoIndex
  /\ sweep' = NoSweep
  /\ UNCHANGED <<now, uids, shards, run>>

(* The cluster: a marked index goes, and the shards of an index that is gone. *)
Vanish ==
  /\ index.deleting
  /\ index' = NoIndex
  /\ UNCHANGED <<now, uids, shards, run, sweep>>

CollectShard(s) ==
  /\ s \in shards /\ s.owner # index.uid
  /\ shards' = shards \ {s}
  /\ UNCHANGED <<now, index, uids, run, sweep>>

-----------------------------------------------------------------------------
Ensure(r) == Loop(r) \/ CreateIndex(r) \/ Decide(r) \/ Annotate(r) \/ \E n \in Shards : UploadShard(r, n)

Next ==
  \/ Tick \/ Vanish \/ \E s \in shards : CollectShard(s)
  \/ \E r \in Runs : Start(r) \/ Ensure(r) \/ CreatePod(r) \/ Stop(r)
  \/ ListIndexes \/ ListPods \/ \E marked \in BOOLEAN : DeleteIndex(marked)

Spec == Init /\ [][Next]_vars

(* Time passes, and a stage that is neither aborted nor dead goes on.        *)
(* Nothing is assumed of the sweep, nor that the cluster ever removes what   *)
(* it has marked.                                                            *)
Fairness == WF_vars(Tick) /\ \A r \in Runs : WF_vars(Ensure(r))

FairSpec == Spec /\ Fairness

-----------------------------------------------------------------------------
(* Properties.                                                              *)

(* An index that says ready has all its shards, whoever uploaded them, and   *)
(* whatever shards of an earlier incarnation the cluster is still removing.  *)
ReadyIsComplete ==
  index.state = "ready" =>
    \A n \in Shards : \E s \in shards : s.name = ShardName(index.uid, n)

(* A Pod has the shards it mounts: the sweep does not delete a set between   *)
(* the answer of ensure and the Pod, nor under it (JDG-23: only after 12 h   *)
(* without use and when no Pod projects it; a concurrent touch wins).        *)
MountedIsThere ==
  \A r \in Runs : run[r].pc = "pod" =>
    \A n \in Shards : \E s \in shards : s.name = ShardName(run[r].uid, n)

(* A stage that asks for its testcases gets an answer or an error, also when *)
(* the creator stopped or the set never finishes to be deleted.              *)
EnsureEnds == \A r \in Runs : run[r].pc \in Ensuring ~> run[r].pc \notin Ensuring
=============================================================================
