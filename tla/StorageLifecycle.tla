-------------------------- MODULE StorageLifecycle --------------------------
(***************************************************************************)
(* The objects of one problem in the bucket: who writes them, which rows   *)
(* refer to them and how the outbox cleans them up.                        *)
(*                                                                         *)
(* A writer guards a key with a cleanup row that falls due after a grace   *)
(* hour, stores the object and commits the reference, which cancels the    *)
(* row.  A reference that is removed gets such a row again.  The problem   *)
(* refers to its current version; an execution pins the version it is      *)
(* judged by; compact-judge-snapshots pins one for an old execution whose  *)
(* snapshot embeds the text.  Transactions that lock the Problem row are   *)
(* atomic; every other statement and every storage call is a step.         *)
(***************************************************************************)
EXTENDS Naturals, FiniteSets

CONSTANTS
  Texts,        \* contents of testcases
  MaxVersions,  \* bound: versions written by edits
  Execs,        \* executions
  Legacy,       \* those with a format-1 snapshot
  Editors,      \* bound: edits in progress
  Cleaners,     \* bound: cleanup handlers in progress
  WithinGrace,  \* do edits and compactions end within the grace hour?
  Deletable     \* may the problem be deleted?

NoText == "none"
NoExec == "none"
NoCleaner == "none"

ASSUME ParameterAssumption ==
  /\ Texts # {} /\ NoText \notin Texts
  /\ MaxVersions \in Nat \ {0}
  /\ Legacy \subseteq Execs /\ NoExec \notin Execs
  /\ NoCleaner \notin Cleaners
  /\ WithinGrace \in BOOLEAN /\ Deletable \in BOOLEAN

VARIABLES
  problem,  \* the Problem row: its generation and current version
  exec,     \* executions, their pins (JudgeExecutionObject) and embedded texts
  object,   \* keys that have an object in the bucket
  row,      \* storage.object.cleanup rows
  edit,     \* edits
  accept,   \* acceptances: prepareJudgeSnapshot, createJudgeExecution
  compact,  \* compact-judge-snapshots
  cleaner   \* cleanupUnreferencedStorageObject

vars == <<problem, exec, object, row, edit, accept, compact, cleaner>>

(* Version 0 is the key that is named after the content, any other version a *)
(* randomUUID.                                                               *)
Key == [text : Texts, version : 0 .. MaxVersions]
ContentKey(text) == [text |-> text, version |-> 0]
NoKey == [text |-> NoText, version |-> 0]
AnyKey == Key \cup {NoKey}

Problem == [alive : BOOLEAN, gen : Nat, key : Key]
Execution == [state : {"absent", "active", "ended", "deleted"}, pins : SUBSET Key,
              legacy : Texts \cup {NoText}]
CleanupRow == [status : {"none", "pending", "leased", "succeeded", "cancelled"}, due : BOOLEAN,
               owner : Cleaners \cup {NoCleaner}]
Edit == [pc : {"idle", "put", "commit"}, key : AnyKey]
Acceptance == [pc : {"idle", "context", "commit"}, gen : Nat, key : AnyKey]
Compaction == [pc : {"idle", "guard", "put", "commit"}, exec : Execs \cup {NoExec}, key : AnyKey,
               created : BOOLEAN]
Cleaner == [pc : {"idle", "check", "delete", "finish"}, key : AnyKey]

(* Every variable stays in its type. *)
TypeOK ==
  /\ problem \in Problem
  /\ exec \in [Execs -> Execution]
  /\ object \subseteq Key
  /\ row \in [Key -> CleanupRow]
  /\ edit \in [Editors -> Edit]
  /\ accept \in [Execs -> Acceptance]
  /\ compact \in Compaction
  /\ cleaner \in [Cleaners -> Cleaner]

NoRow == [status |-> "none", due |-> FALSE, owner |-> NoCleaner]
NoEdit == [pc |-> "idle", key |-> NoKey]
NoAcceptance == [pc |-> "idle", gen |-> 0, key |-> NoKey]
NoCompaction == [pc |-> "idle", exec |-> NoExec, key |-> NoKey, created |-> FALSE]
NoCleanup == [pc |-> "idle", key |-> NoKey]
Pending == [status |-> "pending", due |-> FALSE, owner |-> NoCleaner]
Cancelled == [status |-> "cancelled", due |-> FALSE, owner |-> NoCleaner]

(* A problem with one version, and executions of format 1 that ended. *)
Init ==
  \E first \in Key, old \in [Legacy -> Texts] :
    /\ first.version = 1
    /\ problem = [alive |-> TRUE, gen |-> 1, key |-> first]
    /\ exec = [e \in Execs |-> IF e \in Legacy
                               THEN [state |-> "ended", pins |-> {}, legacy |-> old[e]]
                               ELSE [state |-> "absent", pins |-> {}, legacy |-> NoText]]
    /\ object = {first}
    /\ row = [k \in Key |-> IF k = first THEN Cancelled ELSE NoRow]
    /\ edit = [w \in Editors |-> NoEdit]
    /\ accept = [e \in Execs |-> NoAcceptance]
    /\ compact = NoCompaction
    /\ cleaner = [c \in Cleaners |-> NoCleanup]

-----------------------------------------------------------------------------
(* The lifecycle functions. *)

\* Mutant: pinned versions are not looked at.
ReferencedByProblem(k) == problem.alive /\ problem.key = k

(* storageObjectIsReferenced *)
Referenced(k) ==
  \/ problem.alive /\ problem.key = k
  \/ \E e \in Execs : k \in exec[e].pins

(* guardStorageObjectWrites: enqueueMany throws if the key has a row, since  *)
(* that one falls due at another time.                                       *)
Guardable(k) == row[k].status = "none"

Cancellable(k) == row[k].status \in {"pending", "leased"}

\* Mutant: a removed version whose row was handled before is forgotten.
WithRemovedOnce(rows, keys) ==
  [k \in Key |-> IF k \in keys /\ rows[k].status \in {"none", "pending"} THEN Pending ELSE rows[k]]

(* The removed pointers of commitStoragePointerSwap: a leased row is left    *)
(* alone, any other is made pending with the grace hour before it.           *)
WithRemoved(rows, keys) ==
  [k \in Key |-> IF k \in keys /\ rows[k].status # "leased" THEN Pending ELSE rows[k]]

-----------------------------------------------------------------------------
(* Edits of the problem: guard, store, swap. *)

GuardWrite(w, k) ==
  /\ edit[w].pc = "idle"
  /\ problem.alive
  /\ k.version > 0 /\ \A other \in Key : other.version = k.version => row[other].status = "none"
  /\ row' = [row EXCEPT ![k] = Pending]
  /\ edit' = [edit EXCEPT ![w] = [pc |-> "put", key |-> k]]
  /\ UNCHANGED <<problem, exec, object, accept, compact, cleaner>>

PutVersion(w) ==
  /\ edit[w].pc = "put"
  /\ object' = object \cup {edit[w].key}
  /\ edit' = [edit EXCEPT ![w].pc = "commit"]
  /\ UNCHANGED <<problem, exec, row, accept, compact, cleaner>>

CommitEdit(w) ==
  LET k == edit[w].key
  IN /\ edit[w].pc = "commit"
     /\ edit' = [edit EXCEPT ![w] = NoEdit]
     /\ IF problem.alive /\ Cancellable(k)
        THEN /\ problem' = [problem EXCEPT !.gen = @ + 1, !.key = k]
             /\ row' = WithRemoved([row EXCEPT ![k] = Cancelled], {problem.key})
        ELSE UNCHANGED <<problem, row>>
     /\ UNCHANGED <<exec, object, accept, compact, cleaner>>

(* It fails, or its process dies. *)
EditFails(w) ==
  /\ edit[w].pc # "idle"
  /\ edit' = [edit EXCEPT ![w] = NoEdit]
  /\ UNCHANGED <<problem, exec, object, row, accept, compact, cleaner>>

(* deleteProblem refuses while an execution is active; executions and pins   *)
(* go with the problem.                                                      *)
DeleteProblem ==
  /\ Deletable
  /\ problem.alive
  /\ \A e \in Execs : exec[e].state # "active"
  /\ problem' = [problem EXCEPT !.alive = FALSE]
  /\ exec' = [e \in Execs |-> IF exec[e].state = "ended"
                              THEN [state |-> "deleted", pins |-> {}, legacy |-> NoText]
                              ELSE exec[e]]
  /\ row' = WithRemoved(row, {problem.key} \cup UNION {exec[e].pins : e \in Execs})
  /\ UNCHANGED <<object, edit, accept, compact, cleaner>>

-----------------------------------------------------------------------------
(* Acceptance pins the version it read, unless the problem changed since. *)

ReadGeneration(e) ==
  /\ exec[e].state = "absent" /\ accept[e].pc = "idle"
  /\ problem.alive
  /\ accept' = [accept EXCEPT ![e] = [@ EXCEPT !.pc = "context", !.gen = problem.gen]]
  /\ UNCHANGED <<problem, exec, object, row, edit, compact, cleaner>>

(* The check that follows at once is repeated, under the lock, by the        *)
(* commit.                                                                   *)
ReadContext(e) ==
  /\ accept[e].pc = "context"
  /\ accept' = [accept EXCEPT ![e] = [@ EXCEPT !.pc = "commit", !.key = problem.key]]
  /\ UNCHANGED <<problem, exec, object, row, edit, compact, cleaner>>

\* Mutant: the generation is not compared.
AnyGeneration(e) == problem.alive

SameGeneration(e) == problem.alive /\ problem.gen = accept[e].gen

CommitAcceptance(e) ==
  /\ accept[e].pc = "commit"
  /\ accept' = [accept EXCEPT ![e] = NoAcceptance]
  /\ exec' = IF SameGeneration(e)
             THEN [exec EXCEPT ![e] = [@ EXCEPT !.state = "active", !.pins = {accept[e].key}]]
             ELSE exec
  /\ UNCHANGED <<problem, object, row, edit, compact, cleaner>>

AcceptanceFails(e) ==
  /\ accept[e].pc # "idle"
  /\ accept' = [accept EXCEPT ![e] = NoAcceptance]
  /\ UNCHANGED <<problem, exec, object, row, edit, compact, cleaner>>

EndExecution(e) ==
  /\ exec[e].state = "active"
  /\ exec' = [exec EXCEPT ![e].state = "ended"]
  /\ UNCHANGED <<problem, object, row, edit, accept, compact, cleaner>>

-----------------------------------------------------------------------------
(* compact-judge-snapshots, one execution after the other. *)

(* pinSnapshot: the current version if the text matches, else a content key. *)
ReadLegacy(e) ==
  /\ compact.pc = "idle"
  /\ exec[e].state = "ended" /\ exec[e].legacy # NoText
  /\ LET reused == problem.key.text = exec[e].legacy
     IN compact' = [pc |-> IF reused THEN "commit" ELSE "guard", exec |-> e, created |-> FALSE,
                    key |-> IF reused THEN problem.key ELSE ContentKey(exec[e].legacy)]
  /\ UNCHANGED <<problem, exec, object, row, edit, accept, cleaner>>

GuardPinned ==
  /\ compact.pc = "guard"
  /\ IF Guardable(compact.key)
     THEN /\ row' = [row EXCEPT ![compact.key] = Pending]
          /\ compact' = [compact EXCEPT !.pc = "put"]
     ELSE /\ compact' = NoCompaction
          /\ UNCHANGED row
  /\ UNCHANGED <<problem, exec, object, edit, accept, cleaner>>

PutPinned ==
  /\ compact.pc = "put"
  /\ compact' = [compact EXCEPT !.pc = "commit", !.created = compact.key \notin object]
  /\ object' = object \cup {compact.key}
  /\ UNCHANGED <<problem, exec, row, edit, accept, cleaner>>

CommitCompaction ==
  LET e == compact.exec
      k == compact.key
      changed == exec[e].state # "ended" \/ exec[e].legacy = NoText
  IN /\ compact.pc = "commit"
     /\ compact' = NoCompaction
     /\ IF changed \/ (compact.created /\ ~Cancellable(k))
        THEN UNCHANGED <<exec, row>>
        ELSE /\ exec' = [exec EXCEPT ![e] = [@ EXCEPT !.pins = {k}, !.legacy = NoText]]
             /\ row' = IF compact.created THEN [row EXCEPT ![k] = Cancelled] ELSE row
     /\ UNCHANGED <<problem, object, edit, accept, cleaner>>

CompactionFails ==
  /\ compact.pc # "idle"
  /\ compact' = NoCompaction
  /\ UNCHANGED <<problem, exec, object, row, edit, accept, cleaner>>

-----------------------------------------------------------------------------
(* The cleanup handler, run by the outbox (DurableWork). *)

InUse(k) ==
  \/ \E w \in Editors : edit[w].pc # "idle" /\ edit[w].key = k
  \/ compact.pc \in {"put", "commit"} /\ compact.key = k

(* The grace hour ends. *)
BecomesDue(k) ==
  /\ row[k].status = "pending" /\ ~row[k].due
  /\ WithinGrace => ~InUse(k)
  /\ row' = [row EXCEPT ![k].due = TRUE]
  /\ UNCHANGED <<problem, exec, object, edit, accept, compact, cleaner>>

(* claimBatch: a row that is due, or leased to a batch whose lease ran out. *)
ClaimCleanup(c, k) ==
  /\ cleaner[c].pc = "idle"
  /\ \/ row[k].status = "pending" /\ row[k].due
     \/ row[k].status = "leased"
  /\ row' = [row EXCEPT ![k] = [status |-> "leased", due |-> FALSE, owner |-> c]]
  /\ cleaner' = [cleaner EXCEPT ![c] = [pc |-> "check", key |-> k]]
  /\ UNCHANGED <<problem, exec, object, edit, accept, compact>>

CheckReferences(c) ==
  /\ cleaner[c].pc = "check"
  /\ cleaner' = [cleaner EXCEPT ![c].pc =
                   IF Referenced(cleaner[c].key) THEN "finish" ELSE "delete"]
  /\ UNCHANGED <<problem, exec, object, row, edit, accept, compact>>

(* getVerifiedObject and deleteBlob; a missing object is a success too. *)
DeleteObject(c) ==
  /\ cleaner[c].pc = "delete"
  /\ object' = object \ {cleaner[c].key}
  /\ cleaner' = [cleaner EXCEPT ![c].pc = "finish"]
  /\ UNCHANGED <<problem, exec, row, edit, accept, compact>>

HoldsLease(c) == row[cleaner[c].key].status = "leased" /\ row[cleaner[c].key].owner = c

(* complete, if the lease is still held *)
CompleteCleanup(c) ==
  /\ cleaner[c].pc = "finish"
  /\ row' = IF HoldsLease(c)
            THEN [row EXCEPT ![cleaner[c].key] =
                    [status |-> "succeeded", due |-> FALSE, owner |-> NoCleaner]]
            ELSE row
  /\ cleaner' = [cleaner EXCEPT ![c] = NoCleanup]
  /\ UNCHANGED <<problem, exec, object, edit, accept, compact>>

(* The handler throws (retryOrDead), or its worker dies and says nothing. *)
CleanupFails(c, reported) ==
  /\ cleaner[c].pc # "idle"
  /\ row' = IF reported /\ HoldsLease(c)
            THEN [row EXCEPT ![cleaner[c].key] =
                    [status |-> "pending", due |-> TRUE, owner |-> NoCleaner]]
            ELSE row
  /\ cleaner' = [cleaner EXCEPT ![c] = NoCleanup]
  /\ UNCHANGED <<problem, exec, object, edit, accept, compact>>

-----------------------------------------------------------------------------
EditStep(w) == PutVersion(w) \/ CommitEdit(w)
CompactionStep == (\E e \in Execs : ReadLegacy(e)) \/ GuardPinned \/ PutPinned \/ CommitCompaction
CleanerStep(c) == CheckReferences(c) \/ DeleteObject(c) \/ CompleteCleanup(c)

Next ==
  \/ \E w \in Editors : (\E k \in Key : GuardWrite(w, k)) \/ EditStep(w) \/ EditFails(w)
  \/ DeleteProblem
  \/ \E e \in Execs : \/ ReadGeneration(e) \/ ReadContext(e) \/ CommitAcceptance(e)
                      \/ AcceptanceFails(e) \/ EndExecution(e)
  \/ CompactionStep \/ CompactionFails
  \/ \E k \in Key : BecomesDue(k) \/ \E c \in Cleaners : ClaimCleanup(c, k)
  \/ \E c \in Cleaners : CleanerStep(c) \/ CleanupFails(c, TRUE) \/ CleanupFails(c, FALSE)

Spec == Init /\ [][Next]_vars

(* The outbox claims what is due and runs the handler on; edits and          *)
(* compactions end, well or not; the compaction is run again and again.      *)
Fairness ==
  /\ \A w \in Editors : WF_vars(EditStep(w))
  /\ WF_vars(CompactionStep)
  /\ \A k \in Key : WF_vars(BecomesDue(k)) /\ SF_vars(\E c \in Cleaners : ClaimCleanup(c, k))
  /\ \A c \in Cleaners : WF_vars(CleanerStep(c))

FairSpec == Spec /\ Fairness

-----------------------------------------------------------------------------
(* Properties. *)

(* No reference dangles: the current version of the problem is in the bucket *)
(* and so is every version an execution pins, whatever edits, deletions and  *)
(* cleanups ran in between (docs/architecture/JUDGE_PIPELINE.md:49-52).      *)
ReferencedIsStored ==
  /\ problem.alive => problem.key \in object
  /\ \A e \in Execs : exec[e].pins \subseteq object

(* An execution is judged by the version of the problem that is current when *)
(* it is accepted, though it read it earlier and without a lock.             *)
AcceptedIsCurrent ==
  [][\A e \in Execs : exec[e].state = "absent" /\ exec'[e].state = "active" =>
       exec'[e].pins = {problem.key}]_vars

(* Garbage is known: while the problem exists, an object without a reference *)
(* has a cleanup row, and no handler that saw it in use is about to complete *)
(* that row.  So it is removed once the outbox has run the row (DurableWork): *)
(* staged and retired versions are reclaimed through durable cleanup         *)
(* (docs/operations/SECURITY.md:139).                                        *)
GarbageHasRow ==
  problem.alive => \A k \in object :
    \/ k = problem.key \/ \E e \in Execs : k \in exec[e].pins
    \/ /\ row[k].status \in {"pending", "leased"}
       /\ \A c \in Cleaners : cleaner[c].pc = "finish" /\ cleaner[c].key = k => ~HoldsLease(c)

(* Existing format-1 copies are compacted by compact-judge-snapshots         *)
(* (docs/decisions/judge.md:113), whose runs are idempotent                  *)
(* (docs/runbooks/judge-queue.md:130): once it stops failing every one is.   *)
LegacyIsCompacted ==
  <>[][CompactionFails => CompactionStep]_vars => \A e \in Legacy : <>(exec[e].legacy = NoText)
=============================================================================
