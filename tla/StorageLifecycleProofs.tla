----------------------- MODULE StorageLifecycleProofs -----------------------
(***************************************************************************)
(* Proofs about StorageLifecycle, for any number of executions, edits and  *)
(* cleanup handlers: types and that acceptance pins the current version,   *)
(* by IInv; as long as writers end within the grace hour, also that no     *)
(* reference dangles, by IInv, and that garbage has a cleanup row, by      *)
(* GarbageInv next to it.                                                  *)
(***************************************************************************)
EXTENDS StorageLifecycle, TLAPS

-----------------------------------------------------------------------------
(* The inductive invariant. *)

(* Whoever works on a key works on one. *)
ActorsHaveKeys ==
  /\ \A w \in Editors : edit[w].pc # "idle" => edit[w].key \in Key
  /\ \A e \in Execs : accept[e].pc = "commit" => accept[e].key \in Key
  /\ compact.pc # "idle" => compact.key \in Key /\ compact.exec \in Execs
  /\ \A c \in Cleaners : cleaner[c].pc # "idle" => cleaner[c].key \in Key

(* The current version has a row, and no cleanup of it is on its way. *)
CurrentIsQuiet ==
  /\ row[problem.key].status # "none"
  /\ problem.alive => ~row[problem.key].due /\ row[problem.key].status \notin {"pending", "leased"}

(* A cleanup that is due or under way is that of a key no writer holds. *)
DueIsUnused == \A k \in Key : row[k].due \/ row[k].status = "leased" => ~InUse(k)

(* So is the key of a handler that has not deleted yet, though it may have   *)
(* lost its lease; it is not the current version, and once the references    *)
(* were looked at, there are none.                                           *)
HandlersAreSafe ==
  \A c \in Cleaners : cleaner[c].pc \in {"check", "delete"} =>
    /\ row[cleaner[c].key].status # "none"
    /\ ~InUse(cleaner[c].key)
    /\ ~(problem.alive /\ problem.key = cleaner[c].key)
    /\ cleaner[c].pc = "delete" => ~Referenced(cleaner[c].key)

(* Edits write different keys, none of them the current version or one that  *)
(* the compaction stores.                                                    *)
EditsAreFresh ==
  /\ \A w \in Editors : edit[w].pc # "idle" =>
       /\ row[edit[w].key].status # "none"
       /\ edit[w].key # problem.key
       /\ edit[w].pc = "commit" => edit[w].key \in object
  /\ \A v, w \in Editors :
       v # w /\ edit[v].pc # "idle" /\ edit[w].pc # "idle" => edit[v].key # edit[w].key

(* What the compaction is about to pin is stored. *)
CompactionIsStored ==
  /\ compact.pc \in {"put", "commit"} => row[compact.key].status # "none"
  /\ compact.pc = "commit" => compact.key \in object

(* An acceptance that read the current generation read the current version. *)
AcceptanceIsCurrent ==
  \A e \in Execs :
    /\ accept[e].pc # "idle" => accept[e].gen <= problem.gen
    /\ accept[e].pc = "commit" /\ accept[e].gen = problem.gen => accept[e].key = problem.key

(* Executions end before their problem is deleted. *)
DeletedWithProblem ==
  ~problem.alive => \A e \in Execs : exec[e].state \notin {"active", "ended"}

(* ReferencedIsStored, key by key. *)
ReferencesAreStored == \A k \in Key : Referenced(k) => k \in object

LifecycleInv ==
  /\ CurrentIsQuiet /\ DueIsUnused /\ HandlersAreSafe /\ EditsAreFresh
  /\ CompactionIsStored /\ DeletedWithProblem /\ ReferencesAreStored

KeyInv == TypeOK /\ ActorsHaveKeys /\ (WithinGrace => LifecycleInv)

IInv == KeyInv /\ AcceptanceIsCurrent

-----------------------------------------------------------------------------
(* Every action keeps it. *)

LEMMA CurrentKey ==
  ASSUME TypeOK
  PROVE  problem.key \in Key /\ problem.gen \in Nat
BY DEF TypeOK, Problem

LEMMA RowTypes ==
  /\ NoRow \in CleanupRow /\ Pending \in CleanupRow /\ Cancelled \in CleanupRow
  /\ Cancelled.status = "cancelled" /\ ~Cancelled.due
BY DEF NoRow, Pending, Cancelled, CleanupRow

(* Removed pointers become pending, unless a handler works on them. *)
LEMMA RemovedRows ==
  ASSUME NEW rows \in [Key -> CleanupRow], NEW keys
  PROVE  /\ WithRemoved(rows, keys) \in [Key -> CleanupRow]
         /\ \A q \in Key :
              LET new == WithRemoved(rows, keys)[q]
              IN /\ q \notin keys => new = rows[q]
                 /\ new.status \in {"none", "leased"} => new.status = rows[q].status
                 /\ new.due => rows[q].due
BY RowTypes DEF WithRemoved, Pending

LEMMA ContentKeyType ==
  ASSUME NEW t \in Texts
  PROVE  ContentKey(t) \in Key
BY ParameterAssumption DEF ContentKey, Key

LEMMA GuardWriteStep ==
  ASSUME IInv, NEW w \in Editors, NEW k \in Key, GuardWrite(w, k)
  PROVE  KeyInv'
<1>1. TypeOK'
  BY DEF IInv, KeyInv, TypeOK, ActorsHaveKeys, GuardWrite, Pending, CleanupRow, Edit, AnyKey
<1>2. ActorsHaveKeys'
  BY DEF IInv, KeyInv, TypeOK, ActorsHaveKeys, GuardWrite, Pending, Edit
<1>3. ASSUME WithinGrace PROVE LifecycleInv'
  <2>1. row[k].status = "none" /\ problem.alive
    BY DEF IInv, KeyInv, TypeOK, ActorsHaveKeys, GuardWrite, Pending
  <2>2. \A q \in Key : /\ row'[q].status = IF q = k THEN "pending" ELSE row[q].status
                       /\ row'[q].due => q # k /\ row[q].due
    BY DEF IInv, KeyInv, TypeOK, ActorsHaveKeys, GuardWrite, Pending
  <2>3. \A v \in Editors : /\ edit'[v].pc = IF v = w THEN "put" ELSE edit[v].pc
                           /\ edit'[v].key = IF v = w THEN k ELSE edit[v].key
    BY DEF IInv, KeyInv, TypeOK, ActorsHaveKeys, GuardWrite, Pending
  <2>4. UNCHANGED <<problem, exec, object, accept, compact, cleaner>>
    BY DEF GuardWrite
  <2> USE <1>3, <2>1, <2>2, <2>3, <2>4, CurrentKey DEF IInv, KeyInv, LifecycleInv, ActorsHaveKeys
  <2>5. \A q \in Key : InUse(q)' => InUse(q) \/ q = k
    BY DEF InUse
  <2>6. \A q \in Key : Referenced(q)' => Referenced(q)
    BY DEF Referenced
  <2>7. CurrentIsQuiet'
    BY DEF CurrentIsQuiet
  <2>8. DueIsUnused'
    BY <2>5 DEF DueIsUnused
  <2>9. HandlersAreSafe'
    BY <2>5, <2>6 DEF HandlersAreSafe
  <2>10. EditsAreFresh'
    BY DEF EditsAreFresh, CurrentIsQuiet
  <2>11. CompactionIsStored'
    BY DEF CompactionIsStored
  <2>12. DeletedWithProblem' /\ ReferencesAreStored'
    BY DEF DeletedWithProblem, ReferencesAreStored, Referenced
  <2> QED BY <2>7, <2>8, <2>9, <2>10, <2>11, <2>12
<1> QED BY <1>1, <1>2, <1>3 DEF KeyInv

LEMMA PutVersionStep ==
  ASSUME IInv, NEW w \in Editors, PutVersion(w)
  PROVE  KeyInv'
<1>1. TypeOK'
  BY DEF IInv, KeyInv, TypeOK, ActorsHaveKeys, PutVersion, Edit, AnyKey
<1>2. ActorsHaveKeys'
  BY DEF IInv, KeyInv, TypeOK, ActorsHaveKeys, PutVersion, Edit
<1>3. ASSUME WithinGrace PROVE LifecycleInv'
  <2>1. edit[w].pc = "put" /\ edit[w].key \in Key
    BY DEF IInv, KeyInv, TypeOK, ActorsHaveKeys, PutVersion, Edit
  <2>2. object' = object \cup {edit[w].key}
    BY DEF IInv, KeyInv, TypeOK, ActorsHaveKeys, PutVersion, Edit
  <2>3. \A v \in Editors : /\ edit'[v].pc = IF v = w THEN "commit" ELSE edit[v].pc
                           /\ edit'[v].key = edit[v].key
    BY DEF IInv, KeyInv, TypeOK, ActorsHaveKeys, PutVersion, Edit
  <2>4. UNCHANGED <<problem, exec, row, accept, compact, cleaner>>
    BY DEF PutVersion
  <2> USE <1>3, <2>1, <2>2, <2>3, <2>4, CurrentKey DEF IInv, KeyInv, LifecycleInv, ActorsHaveKeys
  <2>5. \A q \in Key : InUse(q)' => InUse(q)
    BY DEF InUse
  <2>6. \A q \in Key : Referenced(q)' => Referenced(q)
    BY DEF Referenced
  <2>7. DueIsUnused'
    BY <2>5 DEF DueIsUnused
  <2>8. HandlersAreSafe'
    BY <2>5, <2>6 DEF HandlersAreSafe
  <2>9. EditsAreFresh'
    BY DEF EditsAreFresh
  <2>10. CompactionIsStored'
    BY DEF CompactionIsStored
  <2>11. ReferencesAreStored'
    BY <2>6 DEF ReferencesAreStored
  <2>12. CurrentIsQuiet' /\ DeletedWithProblem'
    BY DEF CurrentIsQuiet, DeletedWithProblem
  <2> QED BY <2>7, <2>8, <2>9, <2>10, <2>11, <2>12
<1> QED BY <1>1, <1>2, <1>3 DEF KeyInv

LEMMA CommitEditStep ==
  ASSUME IInv, NEW w \in Editors, CommitEdit(w)
  PROVE  KeyInv'
<1> DEFINE k == edit[w].key
           swapped == [row EXCEPT ![k] = Cancelled]
<1>k. k \in Key
  BY DEF IInv, KeyInv, ActorsHaveKeys, CommitEdit
<1>s. /\ swapped \in [Key -> CleanupRow]
      /\ \A q \in Key : swapped[q] = IF q = k THEN Cancelled ELSE row[q]
  BY RowTypes DEF IInv, KeyInv, TypeOK
<1>c. \/ problem' = problem /\ row' = row
      \/ /\ problem.alive /\ problem' = [problem EXCEPT !.gen = @ + 1, !.key = k]
         /\ row' = WithRemoved(swapped, {problem.key})
  BY DEF CommitEdit
<1> HIDE DEF swapped
<1>1. TypeOK'
  <2>1. problem' \in Problem
    <3>1. problem \in Problem /\ problem.gen + 1 \in Nat
      BY CurrentKey DEF IInv, KeyInv, TypeOK
    <3>2. [problem EXCEPT !.gen = @ + 1, !.key = k] \in Problem
      BY <1>k, <3>1 DEF Problem
    <3> QED BY <1>c, <3>1, <3>2
  <2>2. row' \in [Key -> CleanupRow]
    BY <1>s, <1>c, RemovedRows DEF IInv, KeyInv, TypeOK
  <2>3. edit' \in [Editors -> Edit]
    BY DEF IInv, KeyInv, TypeOK, CommitEdit, NoEdit, Edit, AnyKey
  <2> QED BY <2>1, <2>2, <2>3 DEF IInv, KeyInv, TypeOK, CommitEdit
<1>2. ActorsHaveKeys'
  BY DEF IInv, KeyInv, TypeOK, ActorsHaveKeys, CommitEdit, NoEdit, Edit
<1>3. ASSUME WithinGrace PROVE LifecycleInv'
  <2>1. edit[w].pc = "commit" /\ edit[w].key \in Key /\ edit[w].key # problem.key
    BY <1>3, <1>k DEF IInv, KeyInv, CommitEdit, LifecycleInv, EditsAreFresh
  <2>2. \A v \in Editors : /\ edit'[v].pc = IF v = w THEN "idle" ELSE edit[v].pc
                           /\ v # w => edit'[v].key = edit[v].key
    BY DEF IInv, KeyInv, TypeOK, CommitEdit, NoEdit
  <2>3. \A q \in Key : /\ row'[q].status \in {"none", "leased"} => row'[q].status = row[q].status
                       /\ row'[q].due => row[q].due
    BY <1>s, <1>c, RemovedRows, RowTypes
  <2>4. \/ problem' = problem /\ row' = row
        \/ /\ problem.alive /\ problem'.alive
           /\ problem'.gen = problem.gen + 1 /\ problem'.key = edit[w].key
           /\ ~row'[edit[w].key].due /\ row'[edit[w].key].status = "cancelled"
    <3>1. CASE problem' = problem /\ row' = row
      BY <3>1
    <3>2. CASE /\ problem.alive /\ problem' = [problem EXCEPT !.gen = @ + 1, !.key = k]
               /\ row' = WithRemoved(swapped, {problem.key})
      <4>1. problem'.alive = problem.alive /\ problem'.gen = problem.gen + 1 /\ problem'.key = k
        BY <3>2 DEF IInv, KeyInv, TypeOK, Problem
      <4>2. row'[k] = Cancelled
        BY <1>s, <2>1, <3>2, RemovedRows
      <4> QED BY <3>2, <4>1, <4>2, RowTypes
    <3> QED BY <1>c, <3>1, <3>2
  <2>5. UNCHANGED <<exec, object, accept, compact, cleaner>>
    BY DEF CommitEdit
  <2> USE <1>3, <2>1, <2>2, <2>3, <2>4, <2>5, CurrentKey
      DEF IInv, KeyInv, LifecycleInv, ActorsHaveKeys
  <2>6. \A q \in Key : InUse(q)' => InUse(q)
    BY DEF InUse
  <2>7. \A q \in Key : Referenced(q)' => Referenced(q) \/ q = edit[w].key
    BY DEF Referenced
  <2>8. CurrentIsQuiet'
    BY DEF CurrentIsQuiet
  <2>9. DueIsUnused'
    BY <2>6 DEF DueIsUnused
  <2>10. HandlersAreSafe'
    BY <2>7 DEF HandlersAreSafe, InUse
  <2>11. EditsAreFresh'
    BY DEF EditsAreFresh
  <2>12. CompactionIsStored'
    BY DEF CompactionIsStored
  <2>14. DeletedWithProblem'
    BY DEF DeletedWithProblem
  <2>15. ReferencesAreStored'
    BY <2>7 DEF ReferencesAreStored, EditsAreFresh
  <2> QED BY <2>8, <2>9, <2>10, <2>11, <2>12, <2>14, <2>15
<1> QED BY <1>1, <1>2, <1>3 DEF KeyInv

LEMMA EditFailsStep ==
  ASSUME IInv, NEW w \in Editors, EditFails(w)
  PROVE  KeyInv'
<1>1. TypeOK'
  BY DEF IInv, KeyInv, TypeOK, ActorsHaveKeys, EditFails, NoEdit, Edit, AnyKey
<1>2. ActorsHaveKeys'
  BY DEF IInv, KeyInv, TypeOK, ActorsHaveKeys, EditFails, NoEdit, Edit
<1>3. ASSUME WithinGrace PROVE LifecycleInv'
  <2>1. \A v \in Editors : /\ edit'[v].pc = IF v = w THEN "idle" ELSE edit[v].pc
                           /\ v # w => edit'[v].key = edit[v].key
    BY DEF IInv, KeyInv, TypeOK, ActorsHaveKeys, EditFails, NoEdit
  <2>2. UNCHANGED <<problem, exec, object, row, accept, compact, cleaner>>
    BY DEF EditFails
  <2> USE <1>3, <2>1, <2>2, CurrentKey DEF IInv, KeyInv, LifecycleInv, ActorsHaveKeys
  <2>3. \A q \in Key : InUse(q)' => InUse(q)
    BY DEF InUse
  <2>4. \A q \in Key : Referenced(q)' => Referenced(q)
    BY DEF Referenced
  <2>5. DueIsUnused'
    BY <2>3 DEF DueIsUnused
  <2>6. HandlersAreSafe'
    BY <2>3, <2>4 DEF HandlersAreSafe
  <2>7. EditsAreFresh'
    BY DEF EditsAreFresh
  <2>8. CurrentIsQuiet' /\ CompactionIsStored' /\ DeletedWithProblem' /\ ReferencesAreStored'
    BY DEF CurrentIsQuiet, CompactionIsStored, DeletedWithProblem, ReferencesAreStored,
       Referenced
  <2> QED BY <2>5, <2>6, <2>7, <2>8
<1> QED BY <1>1, <1>2, <1>3 DEF KeyInv

LEMMA DeleteProblemStep ==
  ASSUME IInv, DeleteProblem
  PROVE  KeyInv'
<1>1. TypeOK'
  BY DEF IInv, KeyInv, TypeOK, ActorsHaveKeys, DeleteProblem, WithRemoved, Pending, Problem,
     Execution, CleanupRow
<1>2. ActorsHaveKeys'
  BY DEF IInv, KeyInv, TypeOK, ActorsHaveKeys, DeleteProblem, WithRemoved, Pending
<1>3. ASSUME WithinGrace PROVE LifecycleInv'
  <2>1. /\ problem.alive /\ ~problem'.alive
        /\ problem'.key = problem.key /\ problem'.gen = problem.gen
    BY DEF IInv, KeyInv, TypeOK, ActorsHaveKeys, DeleteProblem, WithRemoved, Pending, Problem
  <2>2. \A q \in Key : /\ row'[q].status \in {"none", "leased"} => row'[q].status = row[q].status
                       /\ row'[q].due => row[q].due
    BY DEF IInv, KeyInv, TypeOK, ActorsHaveKeys, DeleteProblem, WithRemoved, Pending, Problem
  <2>3. \A f \in Execs : /\ exec'[f].state \notin {"active", "ended"}
                         /\ exec'[f].pins \subseteq exec[f].pins
    BY DEF DeleteProblem
  <2>4. UNCHANGED <<object, edit, accept, compact, cleaner>>
    BY DEF DeleteProblem
  <2> USE <1>3, <2>1, <2>2, <2>3, <2>4, CurrentKey DEF IInv, KeyInv, LifecycleInv, ActorsHaveKeys
  <2>5. \A q \in Key : InUse(q)' => InUse(q)
    BY DEF InUse
  <2>6. \A q \in Key : Referenced(q)' => Referenced(q)
    BY DEF Referenced
  <2>7. CurrentIsQuiet'
    BY DEF CurrentIsQuiet
  <2>8. DueIsUnused'
    BY <2>5 DEF DueIsUnused
  <2>9. HandlersAreSafe'
    BY <2>5, <2>6 DEF HandlersAreSafe
  <2>10. EditsAreFresh'
    BY DEF EditsAreFresh
  <2>11. CompactionIsStored'
    BY DEF CompactionIsStored
  <2>13. DeletedWithProblem'
    BY DEF DeletedWithProblem
  <2>14. ReferencesAreStored'
    BY <2>6 DEF ReferencesAreStored
  <2> QED BY <2>7, <2>8, <2>9, <2>10, <2>11, <2>13, <2>14
<1> QED BY <1>1, <1>2, <1>3 DEF KeyInv

LEMMA ReadGenerationStep ==
  ASSUME IInv, NEW e \in Execs, ReadGeneration(e)
  PROVE  KeyInv'
<1>1. TypeOK'
  BY CurrentKey DEF IInv, KeyInv, TypeOK, ActorsHaveKeys, ReadGeneration, Acceptance, AnyKey
<1>2. ActorsHaveKeys'
  BY DEF IInv, KeyInv, TypeOK, ActorsHaveKeys, ReadGeneration, Acceptance
<1>3. ASSUME WithinGrace PROVE LifecycleInv'
  <2> USE <1>3 DEF IInv, KeyInv, LifecycleInv, ReadGeneration
  <2>1. CurrentIsQuiet' /\ EditsAreFresh' /\ CompactionIsStored' /\ DeletedWithProblem'
    BY DEF CurrentIsQuiet, EditsAreFresh, CompactionIsStored, DeletedWithProblem
  <2>2. DueIsUnused' /\ HandlersAreSafe' /\ ReferencesAreStored'
    BY DEF DueIsUnused, HandlersAreSafe, ReferencesAreStored, InUse, Referenced
  <2> QED BY <2>1, <2>2
<1> QED BY <1>1, <1>2, <1>3 DEF KeyInv

LEMMA ReadContextStep ==
  ASSUME IInv, NEW e \in Execs, ReadContext(e)
  PROVE  KeyInv'
<1>1. TypeOK'
  BY CurrentKey DEF IInv, KeyInv, TypeOK, ActorsHaveKeys, ReadContext, Acceptance, AnyKey
<1>2. ActorsHaveKeys'
  BY CurrentKey DEF IInv, KeyInv, TypeOK, ActorsHaveKeys, ReadContext, Acceptance
<1>3. ASSUME WithinGrace PROVE LifecycleInv'
  <2> USE <1>3 DEF IInv, KeyInv, LifecycleInv, ReadContext
  <2>1. CurrentIsQuiet' /\ EditsAreFresh' /\ CompactionIsStored' /\ DeletedWithProblem'
    BY DEF CurrentIsQuiet, EditsAreFresh, CompactionIsStored, DeletedWithProblem
  <2>2. DueIsUnused' /\ HandlersAreSafe' /\ ReferencesAreStored'
    BY DEF DueIsUnused, HandlersAreSafe, ReferencesAreStored, InUse, Referenced
  <2> QED BY <2>1, <2>2
<1> QED BY <1>1, <1>2, <1>3 DEF KeyInv

LEMMA CommitAcceptanceStep ==
  ASSUME IInv, NEW e \in Execs, CommitAcceptance(e)
  PROVE  KeyInv'
<1>1. TypeOK'
  <2>1. exec' \in [Execs -> Execution]
    <3>1. accept[e].key \in Key
      BY DEF IInv, KeyInv, ActorsHaveKeys, CommitAcceptance
    <3>2. [exec[e] EXCEPT !.state = "active", !.pins = {accept[e].key}] \in Execution
      BY <3>1 DEF IInv, KeyInv, TypeOK, Execution
    <3> QED BY <3>2 DEF IInv, KeyInv, TypeOK, CommitAcceptance
  <2>2. accept' \in [Execs -> Acceptance]
    BY DEF IInv, KeyInv, TypeOK, CommitAcceptance, NoAcceptance, Acceptance, AnyKey
  <2> QED BY <2>1, <2>2 DEF IInv, KeyInv, TypeOK, CommitAcceptance
<1>2. ActorsHaveKeys'
  BY DEF IInv, KeyInv, TypeOK, ActorsHaveKeys, CommitAcceptance, SameGeneration, NoAcceptance,
     Acceptance
<1>3. ASSUME WithinGrace PROVE LifecycleInv'
  <2>1. accept[e].pc = "commit" /\ accept[e].key \in Key
    BY DEF IInv, KeyInv, TypeOK, ActorsHaveKeys, CommitAcceptance, SameGeneration, NoAcceptance,
       Execution
  <2>2. \A f \in Execs : /\ f # e => accept'[f] = accept[f] /\ exec'[f] = exec[f]
                         /\ accept'[e].pc = "idle"
    BY DEF IInv, KeyInv, TypeOK, ActorsHaveKeys, CommitAcceptance, SameGeneration, NoAcceptance,
       Execution
  <2>3. \/ exec' = exec
        \/ problem.alive /\ problem.gen = accept[e].gen /\ exec'[e].pins = {accept[e].key}
    BY DEF IInv, KeyInv, TypeOK, ActorsHaveKeys, CommitAcceptance, SameGeneration, NoAcceptance,
       Execution
  <2>4. UNCHANGED <<problem, object, row, edit, compact, cleaner>>
    BY DEF CommitAcceptance
  <2> USE <1>3, <2>1, <2>2, <2>3, <2>4, CurrentKey DEF IInv, KeyInv, LifecycleInv, ActorsHaveKeys
  <2>5. \A q \in Key : InUse(q)' => InUse(q)
    BY DEF InUse
  <2>6. \A q \in Key : Referenced(q)' => Referenced(q)
    BY DEF Referenced, AcceptanceIsCurrent
  <2>7. HandlersAreSafe'
    BY <2>5, <2>6 DEF HandlersAreSafe
  <2>9. DeletedWithProblem'
    BY DEF DeletedWithProblem
  <2>10. ReferencesAreStored'
    BY <2>6 DEF ReferencesAreStored
  <2>11. CurrentIsQuiet' /\ DueIsUnused' /\ EditsAreFresh' /\ CompactionIsStored'
    BY DEF CurrentIsQuiet, DueIsUnused, EditsAreFresh, CompactionIsStored, InUse
  <2> QED BY <2>7, <2>9, <2>10, <2>11
<1> QED BY <1>1, <1>2, <1>3 DEF KeyInv

LEMMA AcceptanceFailsStep ==
  ASSUME IInv, NEW e \in Execs, AcceptanceFails(e)
  PROVE  KeyInv'
<1>1. TypeOK'
  BY DEF IInv, KeyInv, TypeOK, ActorsHaveKeys, AcceptanceFails, NoAcceptance, Acceptance, AnyKey
<1>2. ActorsHaveKeys'
  BY DEF IInv, KeyInv, TypeOK, ActorsHaveKeys, AcceptanceFails, NoAcceptance, Acceptance
<1>3. ASSUME WithinGrace PROVE LifecycleInv'
  <2> USE <1>3 DEF IInv, KeyInv, LifecycleInv, AcceptanceFails
  <2>1. CurrentIsQuiet' /\ EditsAreFresh' /\ CompactionIsStored' /\ DeletedWithProblem'
    BY DEF CurrentIsQuiet, EditsAreFresh, CompactionIsStored, DeletedWithProblem
  <2>2. DueIsUnused' /\ HandlersAreSafe' /\ ReferencesAreStored'
    BY DEF DueIsUnused, HandlersAreSafe, ReferencesAreStored, InUse, Referenced
  <2> QED BY <2>1, <2>2
<1> QED BY <1>1, <1>2, <1>3 DEF KeyInv

LEMMA EndExecutionStep ==
  ASSUME IInv, NEW e \in Execs, EndExecution(e)
  PROVE  KeyInv'
<1>1. TypeOK'
  BY DEF IInv, KeyInv, TypeOK, ActorsHaveKeys, EndExecution, Execution
<1>2. ActorsHaveKeys'
  BY DEF IInv, KeyInv, TypeOK, ActorsHaveKeys, EndExecution
<1>3. ASSUME WithinGrace PROVE LifecycleInv'
  <2>1. exec[e].state = "active"
    BY DEF IInv, KeyInv, TypeOK, ActorsHaveKeys, EndExecution, Execution
  <2>2. \A f \in Execs : /\ exec'[f].pins = exec[f].pins
                         /\ exec'[f].state = IF f = e THEN "ended" ELSE exec[f].state
    BY DEF IInv, KeyInv, TypeOK, ActorsHaveKeys, EndExecution, Execution
  <2>3. UNCHANGED <<problem, object, row, edit, accept, compact, cleaner>>
    BY DEF EndExecution
  <2> USE <1>3, <2>1, <2>2, <2>3, CurrentKey DEF IInv, KeyInv, LifecycleInv, ActorsHaveKeys
  <2>4. \A q \in Key : InUse(q)' => InUse(q)
    BY DEF InUse
  <2>5. \A q \in Key : Referenced(q)' => Referenced(q)
    BY DEF Referenced
  <2>6. HandlersAreSafe'
    BY <2>4, <2>5 DEF HandlersAreSafe
  <2>7. DeletedWithProblem'
    BY DEF DeletedWithProblem
  <2>8. ReferencesAreStored'
    BY <2>5 DEF ReferencesAreStored
  <2>9. CurrentIsQuiet' /\ DueIsUnused' /\ EditsAreFresh' /\ CompactionIsStored'
    BY DEF CurrentIsQuiet, DueIsUnused, EditsAreFresh, CompactionIsStored, InUse
  <2> QED BY <2>6, <2>7, <2>8, <2>9
<1> QED BY <1>1, <1>2, <1>3 DEF KeyInv

LEMMA ReadLegacyStep ==
  ASSUME IInv, NEW e \in Execs, ReadLegacy(e)
  PROVE  KeyInv'
<1>1. TypeOK'
  BY CurrentKey, ContentKeyType DEF IInv, KeyInv, TypeOK, ActorsHaveKeys, ReadLegacy,
     Compaction, AnyKey, Execution
<1>2. ActorsHaveKeys'
  BY CurrentKey, ContentKeyType DEF IInv, KeyInv, TypeOK, ActorsHaveKeys, ReadLegacy,
     Compaction, Execution
<1>3. ASSUME WithinGrace PROVE LifecycleInv'
  <2>1. problem.alive
    BY <1>3 DEF IInv, KeyInv, TypeOK, ActorsHaveKeys, ReadLegacy, DeletedWithProblem,
       LifecycleInv
  <2>2. compact'.pc = "guard" \/ (compact'.pc = "commit" /\ compact'.key = problem.key)
    <3>1. CASE problem.key.text = exec[e].legacy
      BY DEF ReadLegacy
    <3>2. CASE ~(problem.key.text = exec[e].legacy)
      BY DEF ReadLegacy
    <3> QED BY <3>1, <3>2
  <2>3. UNCHANGED <<problem, exec, object, row, edit, accept, cleaner>>
    BY DEF ReadLegacy
  <2> USE <1>3, <2>1, <2>2, <2>3, CurrentKey DEF IInv, KeyInv, LifecycleInv, ActorsHaveKeys
  <2>4. \A q \in Key : InUse(q)' => InUse(q) \/ q = problem.key
    BY DEF InUse
  <2>5. \A q \in Key : Referenced(q)' => Referenced(q)
    BY DEF Referenced
  <2>6. DueIsUnused'
    BY <2>4 DEF DueIsUnused, CurrentIsQuiet
  <2>7. HandlersAreSafe'
    BY <2>4, <2>5 DEF HandlersAreSafe
  <2>8. CompactionIsStored'
    BY DEF CompactionIsStored, CurrentIsQuiet, ReferencesAreStored, Referenced
  <2>9. CurrentIsQuiet' /\ EditsAreFresh' /\ DeletedWithProblem' /\ ReferencesAreStored'
    BY DEF CurrentIsQuiet, EditsAreFresh, DeletedWithProblem, ReferencesAreStored, Referenced
  <2> QED BY <2>6, <2>7, <2>8, <2>9
<1> QED BY <1>1, <1>2, <1>3 DEF KeyInv

LEMMA GuardPinnedStep ==
  ASSUME IInv, GuardPinned
  PROVE  KeyInv'
<1>1. TypeOK'
  <2>1. row' \in [Key -> CleanupRow]
    BY RowTypes DEF IInv, KeyInv, TypeOK, GuardPinned
  <2>2. compact' \in Compaction
    <3>1. NoCompaction \in Compaction /\ [compact EXCEPT !.pc = "put"] \in Compaction
      BY DEF IInv, KeyInv, TypeOK, NoCompaction, Compaction, AnyKey
    <3> QED BY <3>1 DEF GuardPinned
  <2> QED BY <2>1, <2>2 DEF IInv, KeyInv, TypeOK, GuardPinned
<1>2. ActorsHaveKeys'
  BY DEF IInv, KeyInv, TypeOK, ActorsHaveKeys, GuardPinned, Guardable, Pending, NoCompaction,
     Compaction
<1>3. ASSUME WithinGrace PROVE LifecycleInv'
  <2>1. compact.pc = "guard" /\ compact.key \in Key
    BY DEF IInv, KeyInv, TypeOK, ActorsHaveKeys, GuardPinned, Guardable, Pending, NoCompaction
  <2>2. \A q \in Key : /\ row'[q].status \in {"none", "leased"} => row'[q].status = row[q].status
                       /\ row[q].status # "none" => row'[q].status = row[q].status
                       /\ row'[q].due => row[q].due
    BY DEF IInv, KeyInv, TypeOK, ActorsHaveKeys, GuardPinned, Guardable, Pending, NoCompaction
  <2>3. \/ /\ row[compact.key].status = "none"
           /\ compact'.pc = "put" /\ compact'.key = compact.key
           /\ row'[compact.key].status = "pending" /\ ~row'[compact.key].due
        \/ compact'.pc = "idle"
    <3>1. CASE Guardable(compact.key)
      <4>1. compact'.pc = "put" /\ compact'.key = compact.key
        BY <3>1 DEF IInv, KeyInv, TypeOK, GuardPinned, Compaction
      <4>2. row'[compact.key] = Pending
        BY <2>1, <3>1 DEF IInv, KeyInv, TypeOK, GuardPinned
      <4> QED BY <3>1, <4>1, <4>2 DEF Guardable, Pending
    <3>2. CASE ~Guardable(compact.key)
      BY <3>2 DEF GuardPinned, NoCompaction
    <3> QED BY <3>1, <3>2
  <2>4. UNCHANGED <<problem, exec, object, edit, accept, cleaner>>
    BY DEF GuardPinned
  <2> USE <1>3, <2>1, <2>2, <2>3, <2>4, CurrentKey DEF IInv, KeyInv, LifecycleInv, ActorsHaveKeys
  <2>5. \A q \in Key : InUse(q)' => \/ InUse(q)
                                   \/ /\ row[q].status = "none"
                                      /\ ~row'[q].due /\ row'[q].status = "pending"
    BY DEF InUse
  <2>6. \A q \in Key : Referenced(q)' => Referenced(q)
    BY DEF Referenced
  <2>7. CurrentIsQuiet'
    BY DEF CurrentIsQuiet
  <2>8. DueIsUnused'
    BY <2>5 DEF DueIsUnused
  <2>9. HandlersAreSafe'
    BY <2>5, <2>6 DEF HandlersAreSafe
  <2>10. EditsAreFresh'
    BY DEF EditsAreFresh
  <2>11. CompactionIsStored'
    BY DEF CompactionIsStored
  <2>12. DeletedWithProblem' /\ ReferencesAreStored'
    BY DEF DeletedWithProblem, ReferencesAreStored, Referenced
  <2> QED BY <2>7, <2>8, <2>9, <2>10, <2>11, <2>12
<1> QED BY <1>1, <1>2, <1>3 DEF KeyInv

LEMMA PutPinnedStep ==
  ASSUME IInv, PutPinned
  PROVE  KeyInv'
<1>1. TypeOK'
  BY DEF IInv, KeyInv, TypeOK, ActorsHaveKeys, PutPinned, Compaction, AnyKey
<1>2. ActorsHaveKeys'
  BY DEF IInv, KeyInv, TypeOK, ActorsHaveKeys, PutPinned, Compaction
<1>3. ASSUME WithinGrace PROVE LifecycleInv'
  <2>1. compact.pc = "put" /\ compact.key \in Key
    BY DEF IInv, KeyInv, TypeOK, ActorsHaveKeys, PutPinned, Compaction
  <2>2. compact'.pc = "commit" /\ compact'.key = compact.key /\ object' = object \cup {compact.key}
    BY DEF IInv, KeyInv, TypeOK, ActorsHaveKeys, PutPinned, Compaction
  <2>3. UNCHANGED <<problem, exec, row, edit, accept, cleaner>>
    BY DEF PutPinned
  <2> USE <1>3, <2>1, <2>2, <2>3, CurrentKey DEF IInv, KeyInv, LifecycleInv, ActorsHaveKeys
  <2>4. \A q \in Key : InUse(q)' => InUse(q)
    BY DEF InUse
  <2>5. \A q \in Key : Referenced(q)' => Referenced(q)
    BY DEF Referenced
  <2>6. DueIsUnused'
    BY <2>4 DEF DueIsUnused
  <2>7. HandlersAreSafe'
    BY <2>4, <2>5 DEF HandlersAreSafe
  <2>8. EditsAreFresh'
    BY DEF EditsAreFresh
  <2>9. CompactionIsStored'
    BY DEF CompactionIsStored
  <2>10. ReferencesAreStored'
    BY <2>5 DEF ReferencesAreStored
  <2>11. CurrentIsQuiet' /\ DeletedWithProblem'
    BY DEF CurrentIsQuiet, DeletedWithProblem
  <2> QED BY <2>6, <2>7, <2>8, <2>9, <2>10, <2>11
<1> QED BY <1>1, <1>2, <1>3 DEF KeyInv

LEMMA CommitCompactionStep ==
  ASSUME IInv, CommitCompaction
  PROVE  KeyInv'
<1>1. TypeOK'
  <2>1. exec' \in [Execs -> Execution]
    <3>1. compact.key \in Key /\ compact.exec \in Execs
      BY DEF IInv, KeyInv, ActorsHaveKeys, CommitCompaction
    <3>2. [exec[compact.exec] EXCEPT !.pins = {compact.key}, !.legacy = NoText] \in Execution
      BY <3>1 DEF IInv, KeyInv, TypeOK, Execution
    <3> QED BY <3>2 DEF IInv, KeyInv, TypeOK, CommitCompaction
  <2>2. row' \in [Key -> CleanupRow]
    BY RowTypes DEF IInv, KeyInv, TypeOK, CommitCompaction
  <2>3. compact' \in Compaction
    BY DEF KeyInv, TypeOK, CommitCompaction, NoCompaction, Compaction, AnyKey
  <2> QED BY <2>1, <2>2, <2>3 DEF IInv, KeyInv, TypeOK, CommitCompaction
<1>2. ActorsHaveKeys'
  BY DEF IInv, KeyInv, TypeOK, ActorsHaveKeys, CommitCompaction, Cancellable, Cancelled,
     NoCompaction, Compaction
<1>3. ASSUME WithinGrace PROVE LifecycleInv'
  <2>1. /\ compact.pc = "commit" /\ compact'.pc = "idle"
        /\ compact.key \in Key /\ compact.exec \in Execs
    BY DEF IInv, KeyInv, TypeOK, ActorsHaveKeys, CommitCompaction, Cancellable, Cancelled,
       NoCompaction, Execution
  <2>2. \A q \in Key : /\ row'[q].status \in {"none", "pending", "leased"} =>
                            row'[q].status = row[q].status
                       /\ row'[q].due => row[q].due
                       /\ row[q].status # "none" => row'[q].status # "none"
    BY DEF IInv, KeyInv, TypeOK, ActorsHaveKeys, CommitCompaction, Cancellable, Cancelled,
       NoCompaction, Execution
  <2>3. \A f \in Execs : /\ exec'[f].state = exec[f].state
                         /\ exec'[f].pins = exec[f].pins \/ exec'[f].pins = {compact.key}
    <3>1. CASE exec' = exec
      BY <3>1
    <3>2. CASE exec' = [exec EXCEPT ![compact.exec] =
                         [@ EXCEPT !.pins = {compact.key}, !.legacy = NoText]]
      BY <3>2 DEF IInv, KeyInv, TypeOK, Execution
    <3> QED BY <3>2 DEF CommitCompaction
  <2>4. UNCHANGED <<problem, object, edit, accept, cleaner>>
    BY DEF CommitCompaction
  <2> USE <1>3, <2>1, <2>2, <2>3, <2>4, CurrentKey DEF IInv, KeyInv, LifecycleInv, ActorsHaveKeys
  <2>5. \A q \in Key : InUse(q)' => InUse(q)
    BY DEF InUse
  <2>6. \A q \in Key : Referenced(q)' => Referenced(q) \/ q = compact.key
    BY DEF Referenced
  <2>7. CurrentIsQuiet'
    BY DEF CurrentIsQuiet
  <2>8. DueIsUnused'
    BY <2>5 DEF DueIsUnused
  <2>9. HandlersAreSafe'
    BY <2>6 DEF HandlersAreSafe, InUse
  <2>10. EditsAreFresh'
    BY DEF EditsAreFresh
  <2>11. CompactionIsStored'
    BY DEF CompactionIsStored
  <2>12. DeletedWithProblem'
    BY DEF DeletedWithProblem
  <2>13. ReferencesAreStored'
    BY <2>6 DEF ReferencesAreStored, CompactionIsStored
  <2> QED BY <2>7, <2>8, <2>9, <2>10, <2>11, <2>12, <2>13
<1> QED BY <1>1, <1>2, <1>3 DEF KeyInv

LEMMA CompactionFailsStep ==
  ASSUME IInv, CompactionFails
  PROVE  KeyInv'
<1>1. TypeOK'
  BY DEF IInv, KeyInv, TypeOK, ActorsHaveKeys, CompactionFails, NoCompaction, Compaction, AnyKey
<1>2. ActorsHaveKeys'
  BY DEF IInv, KeyInv, TypeOK, ActorsHaveKeys, CompactionFails, NoCompaction, Compaction
<1>3. ASSUME WithinGrace PROVE LifecycleInv'
  <2>1. compact'.pc = "idle"
    BY DEF IInv, KeyInv, TypeOK, ActorsHaveKeys, CompactionFails, NoCompaction
  <2>2. UNCHANGED <<problem, exec, object, row, edit, accept, cleaner>>
    BY DEF CompactionFails
  <2> USE <1>3, <2>1, <2>2, CurrentKey DEF IInv, KeyInv, LifecycleInv, ActorsHaveKeys
  <2>3. \A q \in Key : InUse(q)' => InUse(q)
    BY DEF InUse
  <2>4. \A q \in Key : Referenced(q)' => Referenced(q)
    BY DEF Referenced
  <2>5. DueIsUnused'
    BY <2>3 DEF DueIsUnused
  <2>6. HandlersAreSafe'
    BY <2>3, <2>4 DEF HandlersAreSafe
  <2>7. CompactionIsStored'
    BY DEF CompactionIsStored
  <2>8. CurrentIsQuiet' /\ EditsAreFresh' /\ DeletedWithProblem' /\ ReferencesAreStored'
    BY DEF CurrentIsQuiet, EditsAreFresh, DeletedWithProblem, ReferencesAreStored, Referenced
  <2> QED BY <2>5, <2>6, <2>7, <2>8
<1> QED BY <1>1, <1>2, <1>3 DEF KeyInv

LEMMA BecomesDueStep ==
  ASSUME IInv, NEW k \in Key, BecomesDue(k)
  PROVE  KeyInv'
<1>1. TypeOK'
  BY DEF IInv, KeyInv, TypeOK, ActorsHaveKeys, BecomesDue, CleanupRow
<1>2. ActorsHaveKeys'
  BY DEF IInv, KeyInv, TypeOK, ActorsHaveKeys, BecomesDue
<1>3. ASSUME WithinGrace PROVE LifecycleInv'
  <2>1. row[k].status = "pending" /\ ~InUse(k)
    BY <1>3 DEF IInv, KeyInv, TypeOK, ActorsHaveKeys, BecomesDue, CleanupRow
  <2>2. \A q \in Key : row'[q].status = row[q].status /\ (row'[q].due => q = k \/ row[q].due)
    BY DEF IInv, KeyInv, TypeOK, ActorsHaveKeys, BecomesDue, CleanupRow
  <2>3. UNCHANGED <<problem, exec, object, edit, accept, compact, cleaner>>
    BY DEF BecomesDue
  <2> USE <1>3, <2>1, <2>2, <2>3, CurrentKey DEF IInv, KeyInv, LifecycleInv, ActorsHaveKeys
  <2>4. \A q \in Key : InUse(q)' => InUse(q)
    BY DEF InUse
  <2>5. \A q \in Key : Referenced(q)' => Referenced(q)
    BY DEF Referenced
  <2>6. CurrentIsQuiet'
    BY DEF CurrentIsQuiet
  <2>7. DueIsUnused'
    BY <2>4 DEF DueIsUnused
  <2>8. HandlersAreSafe'
    BY <2>4, <2>5 DEF HandlersAreSafe
  <2>9. EditsAreFresh'
    BY DEF EditsAreFresh
  <2>10. CompactionIsStored'
    BY DEF CompactionIsStored
  <2>11. DeletedWithProblem' /\ ReferencesAreStored'
    BY DEF DeletedWithProblem, ReferencesAreStored, Referenced
  <2> QED BY <2>6, <2>7, <2>8, <2>9, <2>10, <2>11
<1> QED BY <1>1, <1>2, <1>3 DEF KeyInv

LEMMA ClaimCleanupStep ==
  ASSUME IInv, NEW c \in Cleaners, NEW k \in Key, ClaimCleanup(c, k)
  PROVE  KeyInv'
<1>1. TypeOK'
  BY DEF IInv, KeyInv, TypeOK, ActorsHaveKeys, ClaimCleanup, CleanupRow, Cleaner, AnyKey
<1>2. ActorsHaveKeys'
  BY DEF IInv, KeyInv, TypeOK, ActorsHaveKeys, ClaimCleanup, Cleaner
<1>3. ASSUME WithinGrace PROVE LifecycleInv'
  <2>1. row[k].due \/ row[k].status = "leased"
    BY DEF IInv, KeyInv, TypeOK, ActorsHaveKeys, ClaimCleanup
  <2>2. row[k].status # "none"
    BY DEF IInv, KeyInv, TypeOK, ActorsHaveKeys, ClaimCleanup
  <2>3. \A q \in Key : /\ row'[q].status = IF q = k THEN "leased" ELSE row[q].status
                       /\ row'[q].due => q # k /\ row[q].due
    BY DEF IInv, KeyInv, TypeOK, ActorsHaveKeys, ClaimCleanup
  <2>4. \A d \in Cleaners : d # c => cleaner'[d] = cleaner[d]
    BY DEF IInv, KeyInv, TypeOK, ActorsHaveKeys, ClaimCleanup
  <2>5. cleaner'[c].pc = "check" /\ cleaner'[c].key = k
    BY DEF IInv, KeyInv, TypeOK, ActorsHaveKeys, ClaimCleanup
  <2>6. UNCHANGED <<problem, exec, object, edit, accept, compact>>
    BY DEF ClaimCleanup
  <2> USE <1>3, <2>1, <2>2, <2>3, <2>4, <2>5, <2>6, CurrentKey
      DEF IInv, KeyInv, LifecycleInv, ActorsHaveKeys
  <2>7. \A q \in Key : InUse(q)' => InUse(q)
    BY DEF InUse
  <2>8. \A q \in Key : Referenced(q)' => Referenced(q)
    BY DEF Referenced
  <2>9. CurrentIsQuiet'
    BY DEF CurrentIsQuiet
  <2>10. DueIsUnused'
    BY <2>7 DEF DueIsUnused
  <2>11. HandlersAreSafe'
    BY <2>7, <2>8 DEF HandlersAreSafe, DueIsUnused, CurrentIsQuiet
  <2>12. EditsAreFresh'
    BY DEF EditsAreFresh
  <2>13. CompactionIsStored'
    BY DEF CompactionIsStored
  <2>14. DeletedWithProblem' /\ ReferencesAreStored'
    BY DEF DeletedWithProblem, ReferencesAreStored, Referenced
  <2> QED BY <2>9, <2>10, <2>11, <2>12, <2>13, <2>14
<1> QED BY <1>1, <1>2, <1>3 DEF KeyInv

LEMMA CheckReferencesStep ==
  ASSUME IInv, NEW c \in Cleaners, CheckReferences(c)
  PROVE  KeyInv'
<1>1. TypeOK'
  BY DEF IInv, KeyInv, TypeOK, ActorsHaveKeys, CheckReferences, Cleaner, AnyKey
<1>2. ActorsHaveKeys'
  BY DEF IInv, KeyInv, TypeOK, ActorsHaveKeys, CheckReferences, Cleaner
<1>3. ASSUME WithinGrace PROVE LifecycleInv'
  <2>1. cleaner[c].pc = "check" /\ cleaner[c].key \in Key
    BY DEF IInv, KeyInv, TypeOK, ActorsHaveKeys, CheckReferences, Cleaner
  <2>2. \A d \in Cleaners : /\ cleaner'[d].key = cleaner[d].key
                            /\ d # c => cleaner'[d].pc = cleaner[d].pc
    BY DEF IInv, KeyInv, TypeOK, ActorsHaveKeys, CheckReferences, Cleaner
  <2>3. cleaner'[c].pc = "delete" => ~Referenced(cleaner[c].key)
    BY DEF IInv, KeyInv, TypeOK, ActorsHaveKeys, CheckReferences, Cleaner
  <2>4. UNCHANGED <<problem, exec, object, row, edit, accept, compact>>
    BY DEF CheckReferences
  <2> USE <1>3, <2>1, <2>2, <2>3, <2>4, CurrentKey DEF IInv, KeyInv, LifecycleInv, ActorsHaveKeys
  <2>5. \A q \in Key : InUse(q)' => InUse(q)
    BY DEF InUse
  <2>6. \A q \in Key : Referenced(q)' => Referenced(q)
    BY DEF Referenced
  <2>7. HandlersAreSafe'
    BY <2>5, <2>6 DEF HandlersAreSafe
  <2>8. /\ CurrentIsQuiet' /\ DueIsUnused' /\ EditsAreFresh'
        /\ CompactionIsStored' /\ DeletedWithProblem' /\ ReferencesAreStored'
    BY DEF CurrentIsQuiet, DueIsUnused, EditsAreFresh, CompactionIsStored, DeletedWithProblem,
       ReferencesAreStored, Referenced, InUse
  <2> QED BY <2>7, <2>8
<1> QED BY <1>1, <1>2, <1>3 DEF KeyInv

LEMMA DeleteObjectStep ==
  ASSUME IInv, NEW c \in Cleaners, DeleteObject(c)
  PROVE  KeyInv'
<1>1. TypeOK'
  BY DEF IInv, KeyInv, TypeOK, ActorsHaveKeys, DeleteObject, Cleaner, AnyKey
<1>2. ActorsHaveKeys'
  BY DEF IInv, KeyInv, TypeOK, ActorsHaveKeys, DeleteObject, Cleaner
<1>3. ASSUME WithinGrace PROVE LifecycleInv'
  <2>1. cleaner[c].pc = "delete" /\ cleaner[c].key \in Key
    BY DEF IInv, KeyInv, TypeOK, ActorsHaveKeys, DeleteObject, Cleaner
  <2>2. object' = object \ {cleaner[c].key}
    BY DEF IInv, KeyInv, TypeOK, ActorsHaveKeys, DeleteObject, Cleaner
  <2>3. \A d \in Cleaners : /\ cleaner'[d].key = cleaner[d].key
                            /\ cleaner'[d].pc = IF d = c THEN "finish" ELSE cleaner[d].pc
    BY DEF IInv, KeyInv, TypeOK, ActorsHaveKeys, DeleteObject, Cleaner
  <2>4. UNCHANGED <<problem, exec, row, edit, accept, compact>>
    BY DEF DeleteObject
  <2> USE <1>3, <2>1, <2>2, <2>3, <2>4, CurrentKey DEF IInv, KeyInv, LifecycleInv, ActorsHaveKeys
  <2>5. \A q \in Key : InUse(q)' => InUse(q)
    BY DEF InUse
  <2>6. \A q \in Key : Referenced(q)' => Referenced(q)
    BY DEF Referenced
  <2>7. HandlersAreSafe'
    BY <2>5, <2>6 DEF HandlersAreSafe
  <2>8. EditsAreFresh'
    BY DEF EditsAreFresh, HandlersAreSafe, InUse
  <2>9. CompactionIsStored'
    BY DEF CompactionIsStored, HandlersAreSafe, InUse
  <2>10. ReferencesAreStored'
    BY <2>6 DEF ReferencesAreStored, HandlersAreSafe
  <2>11. CurrentIsQuiet' /\ DueIsUnused' /\ DeletedWithProblem'
    BY DEF CurrentIsQuiet, DueIsUnused, DeletedWithProblem, InUse
  <2> QED BY <2>7, <2>8, <2>9, <2>10, <2>11
<1> QED BY <1>1, <1>2, <1>3 DEF KeyInv

LEMMA CompleteCleanupStep ==
  ASSUME IInv, NEW c \in Cleaners, CompleteCleanup(c)
  PROVE  KeyInv'
<1>1. TypeOK'
  BY DEF IInv, KeyInv, TypeOK, ActorsHaveKeys, CompleteCleanup, HoldsLease, NoCleanup,
     CleanupRow, Cleaner, AnyKey
<1>2. ActorsHaveKeys'
  BY DEF IInv, KeyInv, TypeOK, ActorsHaveKeys, CompleteCleanup, HoldsLease, NoCleanup, Cleaner
<1>3. ASSUME WithinGrace PROVE LifecycleInv'
  <2>1. cleaner[c].pc = "finish" /\ cleaner[c].key \in Key
    BY DEF IInv, KeyInv, TypeOK, ActorsHaveKeys, CompleteCleanup, HoldsLease, NoCleanup
  <2>2. \A q \in Key : \/ row'[q].status = row[q].status /\ row'[q].due = row[q].due
                       \/ row[q].status = "leased" /\ row'[q].status = "succeeded" /\ ~row'[q].due
    BY DEF IInv, KeyInv, TypeOK, ActorsHaveKeys, CompleteCleanup, HoldsLease, NoCleanup
  <2>3. \A d \in Cleaners : d # c => cleaner'[d] = cleaner[d]
    BY DEF IInv, KeyInv, TypeOK, ActorsHaveKeys, CompleteCleanup, HoldsLease, NoCleanup
  <2>4. cleaner'[c].pc = "idle"
    BY DEF IInv, KeyInv, TypeOK, ActorsHaveKeys, CompleteCleanup, HoldsLease, NoCleanup
  <2>5. UNCHANGED <<problem, exec, object, edit, accept, compact>>
    BY DEF CompleteCleanup
  <2> USE <1>3, <2>1, <2>2, <2>3, <2>4, <2>5, CurrentKey
      DEF IInv, KeyInv, LifecycleInv, ActorsHaveKeys
  <2>6. \A q \in Key : InUse(q)' => InUse(q)
    BY DEF InUse
  <2>7. \A q \in Key : Referenced(q)' => Referenced(q)
    BY DEF Referenced
  <2>8. CurrentIsQuiet'
    BY DEF CurrentIsQuiet
  <2>9. DueIsUnused'
    BY <2>6 DEF DueIsUnused
  <2>10. HandlersAreSafe'
    BY <2>6, <2>7 DEF HandlersAreSafe
  <2>11. EditsAreFresh'
    BY DEF EditsAreFresh
  <2>12. CompactionIsStored'
    BY DEF CompactionIsStored
  <2>13. DeletedWithProblem' /\ ReferencesAreStored'
    BY DEF DeletedWithProblem, ReferencesAreStored, Referenced
  <2> QED BY <2>8, <2>9, <2>10, <2>11, <2>12, <2>13
<1> QED BY <1>1, <1>2, <1>3 DEF KeyInv

LEMMA CleanupFailsStep ==
  ASSUME IInv, NEW c \in Cleaners, NEW reported \in BOOLEAN, CleanupFails(c, reported)
  PROVE  KeyInv'
<1>1. TypeOK'
  BY DEF IInv, KeyInv, TypeOK, ActorsHaveKeys, CleanupFails, HoldsLease, NoCleanup, CleanupRow,
     Cleaner, AnyKey
<1>2. ActorsHaveKeys'
  BY DEF IInv, KeyInv, TypeOK, ActorsHaveKeys, CleanupFails, HoldsLease, NoCleanup, Cleaner
<1>3. ASSUME WithinGrace PROVE LifecycleInv'
  <2>1. \A q \in Key : \/ row'[q].status = row[q].status /\ row'[q].due = row[q].due
                       \/ row[q].status = "leased" /\ row'[q].status = "pending"
    BY DEF IInv, KeyInv, TypeOK, ActorsHaveKeys, CleanupFails, HoldsLease, NoCleanup
  <2>2. \A d \in Cleaners : d # c => cleaner'[d] = cleaner[d]
    BY DEF IInv, KeyInv, TypeOK, ActorsHaveKeys, CleanupFails, HoldsLease, NoCleanup
  <2>3. cleaner'[c].pc = "idle"
    BY DEF IInv, KeyInv, TypeOK, ActorsHaveKeys, CleanupFails, HoldsLease, NoCleanup
  <2>4. UNCHANGED <<problem, exec, object, edit, accept, compact>>
    BY DEF CleanupFails
  <2> USE <1>3, <2>1, <2>2, <2>3, <2>4, CurrentKey DEF IInv, KeyInv, LifecycleInv, ActorsHaveKeys
  <2>5. \A q \in Key : InUse(q)' => InUse(q)
    BY DEF InUse
  <2>6. \A q \in Key : Referenced(q)' => Referenced(q)
    BY DEF Referenced
  <2>7. CurrentIsQuiet'
    BY DEF CurrentIsQuiet
  <2>8. DueIsUnused'
    BY <2>5 DEF DueIsUnused
  <2>9. HandlersAreSafe'
    BY <2>5, <2>6 DEF HandlersAreSafe
  <2>10. EditsAreFresh'
    BY DEF EditsAreFresh
  <2>11. CompactionIsStored'
    BY DEF CompactionIsStored
  <2>12. DeletedWithProblem' /\ ReferencesAreStored'
    BY DEF DeletedWithProblem, ReferencesAreStored, Referenced
  <2> QED BY <2>7, <2>8, <2>9, <2>10, <2>11, <2>12
<1> QED BY <1>1, <1>2, <1>3 DEF KeyInv

(* A new current version comes with a new generation. *)
LEMMA AcceptanceStep ==
  ASSUME TypeOK, AcceptanceIsCurrent, [Next]_vars
  PROVE  AcceptanceIsCurrent'
<1>t. problem.gen \in Nat /\ \A e \in Execs : accept[e].gen \in Nat
  BY CurrentKey DEF TypeOK, Acceptance
<1>1. CASE UNCHANGED <<problem, accept>>
  BY <1>1 DEF AcceptanceIsCurrent
<1>2. ASSUME NEW w \in Editors, CommitEdit(w) PROVE AcceptanceIsCurrent'
  <2>1. \/ problem'.gen = problem.gen /\ problem'.key = problem.key
        \/ problem'.gen = problem.gen + 1
    BY <1>2 DEF CommitEdit, TypeOK, Problem
  <2> QED BY <1>t, <1>2, <2>1 DEF CommitEdit, AcceptanceIsCurrent
<1>3. CASE DeleteProblem
  <2>1. problem'.gen = problem.gen /\ problem'.key = problem.key
    BY <1>3 DEF DeleteProblem, TypeOK, Problem
  <2> QED BY <1>3, <2>1 DEF DeleteProblem, AcceptanceIsCurrent
<1>4. ASSUME NEW e \in Execs, ReadGeneration(e) PROVE AcceptanceIsCurrent'
  <2>1. \A f \in Execs : f # e => accept'[f] = accept[f]
    BY <1>4 DEF ReadGeneration, TypeOK
  <2>2. accept'[e].pc = "context" /\ accept'[e].gen = problem.gen
    BY <1>4 DEF ReadGeneration, TypeOK, Acceptance
  <2> QED BY <1>t, <1>4, <2>1, <2>2 DEF ReadGeneration, AcceptanceIsCurrent
<1>5. ASSUME NEW e \in Execs, ReadContext(e) PROVE AcceptanceIsCurrent'
  <2>1. \A f \in Execs : f # e => accept'[f] = accept[f]
    BY <1>5 DEF ReadContext, TypeOK
  <2>2. /\ accept[e].pc = "context" /\ accept'[e].gen = accept[e].gen
        /\ accept'[e].key = problem.key
    BY <1>5 DEF ReadContext, TypeOK, Acceptance
  <2> QED BY <1>5, <2>1, <2>2 DEF ReadContext, AcceptanceIsCurrent
<1>6. ASSUME NEW e \in Execs, CommitAcceptance(e) \/ AcceptanceFails(e)
      PROVE  AcceptanceIsCurrent'
  <2>1. /\ \A f \in Execs : f # e => accept'[f] = accept[f]
        /\ accept'[e].pc = "idle" /\ problem' = problem
    BY <1>6 DEF CommitAcceptance, AcceptanceFails, NoAcceptance, TypeOK
  <2> QED BY <2>1 DEF AcceptanceIsCurrent
<1> QED
  BY <1>1, <1>2, <1>3, <1>4, <1>5, <1>6 DEF Next, vars, GuardWrite, EditStep, PutVersion,
     EditFails, EndExecution, CompactionStep, ReadLegacy, GuardPinned, PutPinned,
     CommitCompaction, CompactionFails, BecomesDue, ClaimCleanup, CleanerStep, CheckReferences,
     DeleteObject, CompleteCleanup, CleanupFails

(* An execution becomes active by its acceptance only. *)
LEMMA NewActive ==
  ASSUME IInv, [Next]_vars, NEW e \in Execs,
         exec[e].state = "absent", exec'[e].state = "active"
  PROVE  \E f \in Execs : CommitAcceptance(f) /\ exec' # exec
<1>1. exec' # exec
  OBVIOUS
<1>2. \A f \in Execs : ~EndExecution(f)
  BY DEF EndExecution, IInv, KeyInv, TypeOK
<1>3. ~DeleteProblem
  BY DEF DeleteProblem
<1>4. ~CommitCompaction
  <2> SUFFICES ASSUME CommitCompaction PROVE FALSE
    OBVIOUS
  <2>1. exec' = [exec EXCEPT ![compact.exec] =
                   [@ EXCEPT !.pins = {compact.key}, !.legacy = NoText]]
    BY DEF CommitCompaction
  <2>2. exec'[e].state = exec[e].state
    BY <2>1 DEF IInv, KeyInv, TypeOK, Execution
  <2> QED BY <2>2
<1> QED
  BY <1>2, <1>3, <1>4 DEF Next, vars, GuardWrite, EditStep, PutVersion, CommitEdit, EditFails,
     ReadGeneration, ReadContext, AcceptanceFails, CompactionStep, ReadLegacy, GuardPinned,
     PutPinned, CompactionFails, BecomesDue, ClaimCleanup, CleanerStep, CheckReferences,
     DeleteObject, CompleteCleanup, CleanupFails

LEMMA UnchangedStep ==
  ASSUME KeyInv, UNCHANGED vars
  PROVE  KeyInv'
<1>1. TypeOK' /\ ActorsHaveKeys'
  BY DEF KeyInv, vars, TypeOK, ActorsHaveKeys
<1>2. ASSUME WithinGrace PROVE LifecycleInv'
  <2> USE <1>2 DEF KeyInv, LifecycleInv, vars
  <2>1. CurrentIsQuiet' /\ EditsAreFresh' /\ CompactionIsStored' /\ DeletedWithProblem'
    BY DEF CurrentIsQuiet, EditsAreFresh, CompactionIsStored, DeletedWithProblem
  <2>2. DueIsUnused' /\ HandlersAreSafe' /\ ReferencesAreStored'
    BY DEF DueIsUnused, HandlersAreSafe, ReferencesAreStored, InUse, Referenced
  <2> QED BY <2>1, <2>2
<1> QED BY <1>1, <1>2 DEF KeyInv

-----------------------------------------------------------------------------
(* The theorems. *)

LEMMA InitInv == Init => IInv
<1> SUFFICES ASSUME Init PROVE IInv
  OBVIOUS
<1>1. PICK first \in Key, old \in [Legacy -> Texts] :
        /\ problem = [alive |-> TRUE, gen |-> 1, key |-> first]
        /\ exec = [e \in Execs |-> IF e \in Legacy
                                  THEN [state |-> "ended", pins |-> {}, legacy |-> old[e]]
                                  ELSE [state |-> "absent", pins |-> {}, legacy |-> NoText]]
        /\ object = {first}
        /\ row = [k \in Key |-> IF k = first THEN Cancelled ELSE NoRow]
  BY DEF Init
<1>2. /\ edit = [w \in Editors |-> NoEdit] /\ accept = [e \in Execs |-> NoAcceptance]
      /\ compact = NoCompaction /\ cleaner = [c \in Cleaners |-> NoCleanup]
  BY DEF Init
<1>3. TypeOK
  <2>1. problem \in Problem /\ object \subseteq Key
    BY <1>1 DEF Problem
  <2>2. exec \in [Execs -> Execution]
    BY <1>1 DEF Execution
  <2>3. row \in [Key -> CleanupRow]
    BY <1>1, RowTypes
  <2>4. edit \in [Editors -> Edit] /\ accept \in [Execs -> Acceptance]
    BY <1>2 DEF NoEdit, Edit, NoAcceptance, Acceptance, AnyKey
  <2>5. compact \in Compaction /\ cleaner \in [Cleaners -> Cleaner]
    BY <1>2 DEF NoCompaction, Compaction, NoCleanup, Cleaner, AnyKey
  <2> QED BY <2>1, <2>2, <2>3, <2>4, <2>5 DEF TypeOK
<1>4. ActorsHaveKeys /\ AcceptanceIsCurrent
  BY <1>2 DEF ActorsHaveKeys, AcceptanceIsCurrent, NoEdit, NoAcceptance, NoCompaction, NoCleanup
<1>5. LifecycleInv
  <2>1. /\ problem.alive /\ problem.key = first
        /\ \A e \in Execs : exec[e].pins = {}
        /\ \A k \in Key : row[k].status \in {"none", "cancelled"} /\ ~row[k].due
        /\ row[first].status = "cancelled"
    BY <1>1 DEF Cancelled, NoRow
  <2>2. CurrentIsQuiet /\ DueIsUnused
    BY <2>1 DEF CurrentIsQuiet, DueIsUnused
  <2>3. HandlersAreSafe /\ EditsAreFresh /\ CompactionIsStored
    BY <1>2 DEF HandlersAreSafe, EditsAreFresh, CompactionIsStored, NoCleanup, NoEdit,
       NoCompaction
  <2>4. DeletedWithProblem /\ ReferencesAreStored
    BY <1>1, <2>1 DEF DeletedWithProblem, ReferencesAreStored, Referenced
  <2> QED BY <2>2, <2>3, <2>4 DEF LifecycleInv
<1> QED BY <1>3, <1>4, <1>5 DEF IInv, KeyInv

LEMMA Inductive == IInv /\ [Next]_vars => IInv'
<1> SUFFICES ASSUME IInv, [Next]_vars PROVE KeyInv' /\ AcceptanceIsCurrent'
  BY DEF IInv
<1>1. AcceptanceIsCurrent'
  BY AcceptanceStep DEF IInv, KeyInv
<1>2. KeyInv'
  <2>1. ASSUME NEW w \in Editors, NEW k \in Key, GuardWrite(w, k) PROVE KeyInv'
    BY <2>1, GuardWriteStep
  <2>2. ASSUME NEW w \in Editors, EditStep(w) \/ EditFails(w) PROVE KeyInv'
    BY <2>2, PutVersionStep, CommitEditStep, EditFailsStep DEF EditStep
  <2>3. CASE DeleteProblem
    BY <2>3, DeleteProblemStep
  <2>4. ASSUME NEW e \in Execs,
               \/ ReadGeneration(e) \/ ReadContext(e) \/ CommitAcceptance(e)
               \/ AcceptanceFails(e) \/ EndExecution(e)
        PROVE  KeyInv'
    BY <2>4, ReadGenerationStep, ReadContextStep, CommitAcceptanceStep, AcceptanceFailsStep,
       EndExecutionStep
  <2>5. CASE CompactionStep \/ CompactionFails
    BY <2>5, ReadLegacyStep, GuardPinnedStep, PutPinnedStep, CommitCompactionStep,
       CompactionFailsStep DEF CompactionStep
  <2>6. ASSUME NEW k \in Key, BecomesDue(k) PROVE KeyInv'
    BY <2>6, BecomesDueStep
  <2>7. ASSUME NEW c \in Cleaners, NEW k \in Key, ClaimCleanup(c, k) PROVE KeyInv'
    BY <2>7, ClaimCleanupStep
  <2>8. ASSUME NEW c \in Cleaners,
               CleanerStep(c) \/ CleanupFails(c, TRUE) \/ CleanupFails(c, FALSE)
        PROVE  KeyInv'
    BY <2>8, CheckReferencesStep, DeleteObjectStep, CompleteCleanupStep,
       CleanupFailsStep DEF CleanerStep
  <2>9. CASE UNCHANGED vars
    BY <2>9, UnchangedStep DEF IInv
  <2> QED
    BY <2>1, <2>2, <2>3, <2>4, <2>5, <2>6, <2>7, <2>8, <2>9 DEF Next
<1> QED BY <1>1, <1>2

(* The invariant holds in every state that the program reaches. *)
LEMMA Invariant == Spec => []IInv
<1> QED BY InitInv, Inductive, PTL DEF Spec

(* Every variable keeps its type, for any number of texts, versions, edits,  *)
(* executions and handlers.                                                  *)
THEOREM TypeCorrect == Spec => []TypeOK
<1>1. IInv => TypeOK
  BY DEF IInv, KeyInv
<1> QED BY <1>1, Invariant, PTL

(* No cleanup removes an object that the problem or an execution refers to,  *)
(* as long as edits and compactions end within the grace hour.               *)
THEOREM ReferencesHold ==
  ASSUME WithinGrace
  PROVE  Spec => []ReferencedIsStored
<1>1. IInv => ReferencedIsStored
  <2> SUFFICES ASSUME IInv PROVE ReferencedIsStored
    OBVIOUS
  <2>1. problem.key \in Key /\ \A e \in Execs : exec[e].pins \subseteq Key
    BY DEF IInv, KeyInv, TypeOK, Problem, Execution
  <2>2. ReferencesAreStored
    BY DEF IInv, KeyInv, LifecycleInv
  <2> QED BY <2>1, <2>2 DEF ReferencesAreStored, ReferencedIsStored, Referenced
<1> QED BY <1>1, Invariant, PTL

(* An execution is accepted with the version that is current then, however   *)
(* long ago it was read and whatever edits ran since.                        *)
THEOREM AcceptancePinsCurrent == Spec => AcceptedIsCurrent
<1> DEFINE A == \A e \in Execs : exec[e].state = "absent" /\ exec'[e].state = "active" =>
                  exec'[e].pins = {problem.key}
<1>1. IInv /\ [Next]_vars => A
  <2> SUFFICES ASSUME IInv, [Next]_vars, NEW e \in Execs,
                      exec[e].state = "absent", exec'[e].state = "active"
               PROVE  exec'[e].pins = {problem.key}
    OBVIOUS
  <2>1. PICK f \in Execs : CommitAcceptance(f) /\ exec' # exec
    BY NewActive
  <2>2. exec' = [exec EXCEPT ![f] = [@ EXCEPT !.state = "active", !.pins = {accept[f].key}]]
    BY <2>1 DEF CommitAcceptance
  <2>3. f = e
    BY <2>2 DEF IInv, KeyInv, TypeOK
  <2>4. exec'[e].pins = {accept[e].key}
    BY <2>2, <2>3 DEF IInv, KeyInv, TypeOK, Execution
  <2>5. accept[e].key = problem.key
    BY <2>1, <2>3 DEF CommitAcceptance, SameGeneration, IInv, AcceptanceIsCurrent
  <2> QED BY <2>4, <2>5
<1>2. IInv /\ [Next]_vars => [A]_vars
  BY <1>1
<1> QED BY <1>2, Invariant, PTL DEF Spec, AcceptedIsCurrent

-----------------------------------------------------------------------------
(* Garbage is known. *)

(* An execution gets its pins once: by its acceptance or, if it had none, by *)
(* the compaction.                                                           *)
PinsAreFinal == \A e \in Execs :
  /\ accept[e].pc # "idle" => exec[e].state = "absent"
  /\ exec[e].state = "absent" => exec[e].pins = {} /\ exec[e].legacy = NoText
  /\ exec[e].legacy # NoText => exec[e].pins = {}

(* Edits and the compaction never store the same key. *)
VersionsAreApart ==
  /\ problem.key.version > 0
  /\ \A w \in Editors : edit[w].pc # "idle" => edit[w].key.version > 0
  /\ compact.pc \in {"guard", "put"} \/ compact.created => compact.key.version = 0

(* Who is about to store an object has guarded its key. *)
WritesAreGuarded ==
  /\ \A w \in Editors : edit[w].pc = "put" => row[edit[w].key].status = "pending"
  /\ compact.pc = "put" => row[compact.key].status = "pending"

GarbageInv == PinsAreFinal /\ VersionsAreApart /\ WritesAreGuarded /\ GarbageHasRow

(* The two halves of GarbageHasRow. *)
Used(k) == k = problem.key \/ \E e \in Execs : k \in exec[e].pins
Known(k) ==
  /\ row[k].status \in {"pending", "leased"}
  /\ \A c \in Cleaners : cleaner[c].pc = "finish" /\ cleaner[c].key = k => ~HoldsLease(c)

(* A compaction pins its key for an execution that ended without one. *)
LEMMA CompactionPins ==
  ASSUME TypeOK, ActorsHaveKeys, CommitCompaction
  PROVE  /\ UNCHANGED <<problem, object, edit, accept, cleaner>> /\ compact' = NoCompaction
         /\ compact.exec \in Execs /\ compact.key \in Key
         /\ \/ exec' = exec /\ row' = row
            \/ /\ row' = row \/ (compact.created /\ row' = [row EXCEPT ![compact.key] = Cancelled])
               /\ \A f \in Execs : f # compact.exec => exec'[f] = exec[f]
               /\ exec[compact.exec].state = "ended" /\ exec[compact.exec].legacy # NoText
               /\ exec'[compact.exec].state = "ended" /\ exec'[compact.exec].legacy = NoText
               /\ exec'[compact.exec].pins = {compact.key}
<1> DEFINE pinned == [exec EXCEPT ![compact.exec] =
                        [@ EXCEPT !.pins = {compact.key}, !.legacy = NoText]]
<1>1. /\ UNCHANGED <<problem, object, edit, accept, cleaner>> /\ compact' = NoCompaction
      /\ compact.exec \in Execs /\ compact.key \in Key
  BY DEF CommitCompaction, ActorsHaveKeys
<1>2. \/ exec' = exec /\ row' = row
      \/ /\ exec[compact.exec].state = "ended" /\ exec[compact.exec].legacy # NoText
         /\ exec' = pinned
         /\ row' = row \/ (compact.created /\ row' = [row EXCEPT ![compact.key] = Cancelled])
  <2> DEFINE changed == exec[compact.exec].state # "ended" \/ exec[compact.exec].legacy = NoText
             kept == changed \/ (compact.created /\ ~Cancellable(compact.key))
             cancelled == [row EXCEPT ![compact.key] = Cancelled]
  <2>1. IF kept THEN UNCHANGED <<exec, row>>
        ELSE exec' = pinned /\ row' = IF compact.created THEN cancelled ELSE row
    BY Zenon DEF CommitCompaction
  <2>2. kept \/ ~changed
    OBVIOUS
  <2> HIDE DEF pinned, kept, cancelled
  <2>3. kept => exec' = exec /\ row' = row
    BY <2>1
  <2>4. ~kept => exec' = pinned /\ (row' = row \/ (compact.created /\ row' = cancelled))
    BY <2>1, Zenon
  <2> QED BY <2>2, <2>3, <2>4 DEF cancelled
<1>3. /\ \A f \in Execs : f # compact.exec => pinned[f] = exec[f]
      /\ pinned[compact.exec].state = exec[compact.exec].state
      /\ pinned[compact.exec].legacy = NoText /\ pinned[compact.exec].pins = {compact.key}
  BY <1>1 DEF TypeOK, Execution
<1> HIDE DEF pinned
<1> QED BY <1>1, <1>2, <1>3

LEMMA PinsStep ==
  ASSUME IInv, PinsAreFinal, [Next]_vars
  PROVE  PinsAreFinal'
<1> USE DEF PinsAreFinal
<1>t. TypeOK /\ ActorsHaveKeys
  BY DEF IInv, KeyInv
<1>1. CASE UNCHANGED <<exec, accept>>
  BY <1>1
<1>2. CASE DeleteProblem
  BY <1>2 DEF DeleteProblem
<1>3. ASSUME NEW e \in Execs, ReadGeneration(e) \/ ReadContext(e) \/ AcceptanceFails(e)
      PROVE  PinsAreFinal'
  <2>1. /\ exec' = exec /\ \A f \in Execs : f # e => accept'[f] = accept[f]
        /\ accept'[e].pc = "idle" \/ exec[e].state = "absent"
    BY <1>3, <1>t DEF ReadGeneration, ReadContext, AcceptanceFails, NoAcceptance, TypeOK
  <2> QED BY <2>1
<1>4. ASSUME NEW e \in Execs, CommitAcceptance(e) PROVE PinsAreFinal'
  <2>1. /\ \A f \in Execs : f # e => accept'[f] = accept[f] /\ exec'[f] = exec[f]
        /\ accept'[e].pc = "idle" /\ exec[e].state = "absent"
    BY <1>4, <1>t DEF CommitAcceptance, NoAcceptance, TypeOK
  <2>2. exec'[e] = exec[e] \/ (exec'[e].state = "active" /\ exec'[e].legacy = NoText)
    BY <1>4, <1>t, <2>1 DEF CommitAcceptance, TypeOK, Execution
  <2> QED BY <2>1, <2>2
<1>5. ASSUME NEW e \in Execs, EndExecution(e) PROVE PinsAreFinal'
  <2>1. /\ accept' = accept /\ \A f \in Execs : f # e => exec'[f] = exec[f]
        /\ exec'[e].state = "ended" /\ exec'[e].pins = exec[e].pins
        /\ exec'[e].legacy = exec[e].legacy /\ exec[e].state = "active"
    BY <1>5, <1>t DEF EndExecution, TypeOK, Execution
  <2> QED BY <2>1
<1>6. CASE CommitCompaction
  <2>1. compact.exec \in Execs /\ accept' = accept
    BY <1>6, <1>t DEF CommitCompaction, ActorsHaveKeys
  <2>2. \A f \in Execs : \/ exec'[f] = exec[f]
                         \/ exec[f].state = "ended" /\ exec'[f].state = "ended"
                            /\ exec'[f].legacy = NoText
    BY <1>t, <2>1, CompactionPins, <1>6 DEF TypeOK
  <2> QED BY <2>1, <2>2
<1> QED
  BY <1>1, <1>2, <1>3, <1>4, <1>5, <1>6 DEF Next, vars, GuardWrite, EditStep, PutVersion,
     CommitEdit, EditFails, CompactionStep, ReadLegacy, GuardPinned, PutPinned, CompactionFails,
     BecomesDue, ClaimCleanup, CleanerStep, CheckReferences, DeleteObject, CompleteCleanup,
     CleanupFails

LEMMA VersionsStep ==
  ASSUME IInv, VersionsAreApart, [Next]_vars
  PROVE  VersionsAreApart'
<1> USE DEF VersionsAreApart
<1>t. TypeOK
  BY DEF IInv, KeyInv
<1>1. CASE UNCHANGED <<problem, edit, compact>>
  BY <1>1
<1>2. ASSUME NEW w \in Editors, NEW k \in Key, GuardWrite(w, k) PROVE VersionsAreApart'
  <2>1. /\ UNCHANGED <<problem, compact>> /\ k.version > 0
        /\ \A v \in Editors : edit'[v] = edit[v] \/ edit'[v].key = k
    BY <1>2, <1>t DEF GuardWrite, TypeOK, Edit
  <2> QED BY <2>1
<1>3. ASSUME NEW w \in Editors, PutVersion(w) \/ EditFails(w) PROVE VersionsAreApart'
  <2>1. /\ UNCHANGED <<problem, compact>>
        /\ \A v \in Editors : edit'[v].pc # "idle" => /\ edit'[v].key = edit[v].key
                                                      /\ edit[v].pc # "idle"
    BY <1>3, <1>t DEF PutVersion, EditFails, NoEdit, TypeOK, Edit
  <2> QED BY <2>1
<1>4. ASSUME NEW w \in Editors, CommitEdit(w) PROVE VersionsAreApart'
  <2>1. /\ compact' = compact /\ edit[w].pc # "idle"
        /\ \A v \in Editors : edit'[v].pc # "idle" => edit'[v] = edit[v]
        /\ problem'.key \in {problem.key, edit[w].key}
    BY <1>4, <1>t DEF CommitEdit, NoEdit, TypeOK, Problem
  <2> QED BY <2>1
<1>5. CASE DeleteProblem
  <2>1. problem'.key = problem.key /\ UNCHANGED <<edit, compact>>
    BY <1>5, <1>t DEF DeleteProblem, TypeOK, Problem
  <2> QED BY <2>1
<1>6. ASSUME NEW e \in Execs, ReadLegacy(e) PROVE VersionsAreApart'
  <2>1. /\ UNCHANGED <<problem, edit>> /\ ~compact'.created
        /\ compact'.pc = "commit" \/ compact'.key.version = 0
    BY <1>6, <1>t DEF ReadLegacy, TypeOK, ContentKey
  <2>2. compact'.pc # "commit" \/ compact'.pc \notin {"guard", "put"}
    OBVIOUS
  <2> QED BY <2>1, <2>2
<1>7. CASE GuardPinned \/ PutPinned \/ CommitCompaction \/ CompactionFails
  <2>1. /\ UNCHANGED <<problem, edit>>
        /\ \/ compact' = NoCompaction
           \/ compact'.key = compact.key /\ compact.pc \in {"guard", "put"}
    BY <1>7, <1>t DEF GuardPinned, PutPinned, CommitCompaction, CompactionFails, TypeOK, Compaction
  <2> QED BY <2>1 DEF NoCompaction
<1> QED
  BY <1>1, <1>2, <1>3, <1>4, <1>5, <1>6, <1>7 DEF Next, vars, EditStep, ReadGeneration, ReadContext,
     CommitAcceptance, AcceptanceFails, EndExecution, CompactionStep, BecomesDue, ClaimCleanup,
     CleanerStep, CheckReferences, DeleteObject, CompleteCleanup, CleanupFails

(* A cleanup row stays pending unless its writer commits or it is claimed. *)
LEMMA WritesStep ==
  ASSUME WithinGrace, IInv, VersionsAreApart, WritesAreGuarded, [Next]_vars
  PROVE  WritesAreGuarded'
<1> USE DEF WritesAreGuarded
<1>t. TypeOK /\ ActorsHaveKeys /\ LifecycleInv
  BY DEF IInv, KeyInv
<1>1. CASE UNCHANGED <<row, edit, compact>>
  BY <1>1
<1> DEFINE StaysPending == \A q \in Key : row[q].status = "pending" => row'[q].status = "pending"
<1>2. ASSUME NEW w \in Editors, NEW k \in Key, GuardWrite(w, k) PROVE WritesAreGuarded'
  <2>1. compact' = compact /\ StaysPending /\ row'[k].status = "pending"
    BY <1>2, <1>t DEF GuardWrite, Pending, TypeOK
  <2>2. \A v \in Editors : edit'[v] = edit[v] \/ edit'[v].key = k
    BY <1>2, <1>t DEF GuardWrite, TypeOK, Edit
  <2> QED BY <1>t, <2>1, <2>2 DEF ActorsHaveKeys
<1>3. ASSUME NEW w \in Editors, PutVersion(w) \/ EditFails(w) PROVE WritesAreGuarded'
  <2>1. /\ UNCHANGED <<row, compact>>
        /\ \A v \in Editors : edit'[v].pc = "put" => edit'[v] = edit[v]
    BY <1>3, <1>t DEF PutVersion, EditFails, NoEdit, TypeOK, Edit
  <2> QED BY <2>1
<1>4. ASSUME NEW w \in Editors, CommitEdit(w) PROVE WritesAreGuarded'
  <2> DEFINE k == edit[w].key
             swapped == [row EXCEPT ![k] = Cancelled]
  <2>1. /\ compact' = compact /\ k \in Key /\ edit[w].pc = "commit"
        /\ \A v \in Editors : edit'[v].pc = "put" => v # w /\ edit'[v] = edit[v]
    BY <1>4, <1>t DEF CommitEdit, NoEdit, TypeOK, ActorsHaveKeys
  <2>2. row' = row \/ row' = WithRemoved(swapped, {problem.key})
    BY <1>4 DEF CommitEdit
  <2>3. \A q \in Key : row'[q] = row[q] \/ q = k \/ row'[q].status = "pending"
    BY <1>t, <2>1, <2>2 DEF WithRemoved, Pending, TypeOK
  <2>4. \A v \in Editors : edit'[v].pc = "put" => edit[v].key \in Key /\ edit[v].key # k
    BY <1>t, <2>1 DEF LifecycleInv, EditsAreFresh, ActorsHaveKeys
  <2>5. compact.pc = "put" => compact.key \in Key /\ compact.key # k
    BY <1>t, <2>1 DEF VersionsAreApart, ActorsHaveKeys
  <2> HIDE DEF k
  <2> QED BY <2>1, <2>3, <2>4, <2>5
<1>5. CASE DeleteProblem
  <2>1. UNCHANGED <<edit, compact>> /\ StaysPending
    BY <1>5, <1>t DEF DeleteProblem, WithRemoved, Pending, TypeOK
  <2> QED BY <1>t, <2>1 DEF ActorsHaveKeys
<1>6. ASSUME NEW e \in Execs, ReadLegacy(e) PROVE WritesAreGuarded'
  BY <1>6 DEF ReadLegacy
<1>7. CASE GuardPinned
  <2>1. /\ edit' = edit /\ StaysPending
        /\ compact'.pc = "put" => row'[compact'.key].status = "pending"
    BY <1>7, <1>t DEF GuardPinned, NoCompaction, Pending, TypeOK, ActorsHaveKeys, Compaction
  <2> QED BY <1>t, <2>1 DEF ActorsHaveKeys
<1>8. CASE PutPinned \/ CommitCompaction \/ CompactionFails
  <2>1. edit' = edit /\ compact'.pc # "put"
    <3>1. CASE CommitCompaction
      BY <1>t, <3>1, CompactionPins DEF NoCompaction
    <3>2. CASE PutPinned
      BY <1>t, <3>2 DEF PutPinned, TypeOK, Compaction
    <3> QED BY <1>8, <3>1, <3>2 DEF CompactionFails, NoCompaction
  <2>2. \A q \in Key : row'[q] = row[q] \/ (q = compact.key /\ compact.created)
    <3>1. CASE CommitCompaction
      <4>1. row' = row \/ (compact.created /\ row' = [row EXCEPT ![compact.key] = Cancelled])
        BY <1>t, <3>1, CompactionPins
      <4>2. row' = row \/ compact.created
        BY <4>1
      <4>3. \A q \in Key : row'[q] = row[q] \/ q = compact.key
        BY <1>t, <4>1 DEF TypeOK
      <4> QED BY <4>2, <4>3
    <3>2. CASE ~CommitCompaction
      <4>1. row' = row
        BY <1>8, <3>2 DEF PutPinned, CompactionFails
      <4> QED BY <4>1
    <3> QED BY <3>1, <3>2
  <2>3. \A v \in Editors : edit[v].pc = "put" =>
          edit[v].key \in Key /\ ~(edit[v].key = compact.key /\ compact.created)
    BY <1>t DEF VersionsAreApart, ActorsHaveKeys
  <2> QED BY <2>1, <2>2, <2>3
<1>9. ASSUME NEW k \in Key, BecomesDue(k) PROVE WritesAreGuarded'
  <2>1. UNCHANGED <<edit, compact>> /\ StaysPending
    BY <1>9, <1>t DEF BecomesDue, TypeOK, CleanupRow
  <2> QED BY <1>t, <2>1 DEF ActorsHaveKeys
<1>10. ASSUME NEW c \in Cleaners, NEW k \in Key, ClaimCleanup(c, k) PROVE WritesAreGuarded'
  <2>1. UNCHANGED <<edit, compact>> /\ \A q \in Key : q # k => row'[q] = row[q]
    BY <1>10, <1>t DEF ClaimCleanup, TypeOK
  <2>2. ~InUse(k)
    BY <1>10, <1>t DEF ClaimCleanup, LifecycleInv, DueIsUnused
  <2> QED BY <1>t, <2>1, <2>2 DEF ActorsHaveKeys, InUse
<1>11. ASSUME NEW c \in Cleaners, NEW reported \in BOOLEAN,
              CompleteCleanup(c) \/ CleanupFails(c, reported)
       PROVE  WritesAreGuarded'
  <2>1. UNCHANGED <<edit, compact>> /\ StaysPending
    BY <1>11, <1>t DEF CompleteCleanup, CleanupFails, HoldsLease, TypeOK
  <2> QED BY <1>t, <2>1 DEF ActorsHaveKeys
<1> QED
  BY <1>1, <1>2, <1>3, <1>4, <1>5, <1>6, <1>7, <1>8, <1>9, <1>10, <1>11 DEF Next, vars, EditStep,
     ReadGeneration, ReadContext, CommitAcceptance, AcceptanceFails, EndExecution, CompactionStep,
     CleanerStep, CheckReferences, DeleteObject

(* A reference or a row that is still there keeps an object from being lost. *)
LEMMA GarbageKept ==
  ASSUME GarbageHasRow, problem'.alive => problem.alive,
         \A k \in object : Used(k) \/ Known(k) => Used(k)' \/ Known(k)',
         \A k \in object' : k \in object \/ Used(k)' \/ Known(k)'
  PROVE  GarbageHasRow'
BY DEF GarbageHasRow, Used, Known

LEMMA KnownKept ==
  ASSUME NEW k, cleaner' = cleaner, Known(k), row'[k] = row[k] \/ row'[k].status = "pending"
  PROVE  Known(k)'
BY DEF Known, HoldsLease

LEMMA PendingIsKnown ==
  ASSUME NEW k, row[k].status = "pending"
  PROVE  Known(k)
BY DEF Known, HoldsLease

LEMMA EditGarbage ==
  ASSUME WithinGrace, IInv, GarbageInv, NEW w \in Editors,
         (\E k \in Key : GuardWrite(w, k)) \/ PutVersion(w) \/ CommitEdit(w) \/ EditFails(w)
  PROVE  GarbageHasRow'
<1>t. TypeOK /\ ActorsHaveKeys /\ LifecycleInv /\ GarbageHasRow
  BY DEF IInv, KeyInv, GarbageInv
<1>1. ASSUME NEW k \in Key, GuardWrite(w, k) PROVE GarbageHasRow'
  <2>1. UNCHANGED <<problem, exec, object, cleaner>>
    BY <1>1 DEF GuardWrite
  <2>2. \A q \in Key : row'[q] = row[q] \/ row'[q].status = "pending"
    BY <1>1, <1>t DEF GuardWrite, Pending, TypeOK
  <2>3. \A q \in object : Used(q) \/ Known(q) => Used(q)' \/ Known(q)'
    BY <1>t, <2>1, <2>2, KnownKept DEF Used, TypeOK
  <2> QED BY <1>t, <2>1, <2>3, GarbageKept
<1>2. CASE PutVersion(w)
  <2> DEFINE k == edit[w].key
  <2>1. UNCHANGED <<problem, exec, row, cleaner>> /\ object' = object \cup {k}
    BY <1>2 DEF PutVersion
  <2>2. row[k].status = "pending"
    BY <1>2 DEF PutVersion, GarbageInv, WritesAreGuarded
  <2> HIDE DEF k
  <2>3. \A q \in object : Used(q) \/ Known(q) => Used(q)' \/ Known(q)'
    BY <2>1, KnownKept DEF Used
  <2>4. Known(k)
    BY <2>2, PendingIsKnown
  <2>5. \A q \in object' : q \in object \/ Used(q)' \/ Known(q)'
    BY <2>1, <2>4, KnownKept
  <2> QED BY <1>t, <2>1, <2>3, <2>5, GarbageKept
<1>3. CASE CommitEdit(w)
  <2> DEFINE k == edit[w].key
             swapped == [row EXCEPT ![k] = Cancelled]
  <2>1. UNCHANGED <<exec, object, cleaner>> /\ k \in Key /\ k # problem.key
    BY <1>3, <1>t DEF CommitEdit, ActorsHaveKeys, LifecycleInv, EditsAreFresh
  <2>2. \/ problem' = problem /\ row' = row
        \/ /\ problem.alive /\ problem' = [problem EXCEPT !.gen = @ + 1, !.key = k]
           /\ row' = WithRemoved(swapped, {problem.key})
    BY <1>3 DEF CommitEdit
  <2>3. CASE problem' = problem /\ row' = row
    BY <1>t, <2>1, <2>3, KnownKept, GarbageKept DEF Used
  <2>4. CASE /\ problem.alive /\ problem' = [problem EXCEPT !.gen = @ + 1, !.key = k]
             /\ row' = WithRemoved(swapped, {problem.key})
    <3>1. problem'.key = k /\ problem'.alive = problem.alive
      BY <2>4, <1>t DEF TypeOK, Problem
    <3>2. row[problem.key].status # "leased" /\ problem.key \in Key
      BY <2>4, <1>t, CurrentKey DEF LifecycleInv, CurrentIsQuiet
    <3>3. \A q \in Key : \/ q = k
                         \/ q = problem.key /\ row'[q].status = "pending"
                         \/ q # problem.key /\ row'[q] = row[q]
      BY <1>t, <2>1, <2>4, <3>2 DEF WithRemoved, Pending, TypeOK
    <3> HIDE DEF k
    <3>4. ASSUME NEW q \in object, Used(q) \/ Known(q) PROVE Used(q)' \/ Known(q)'
      <4>1. CASE q = k
        BY <3>1, <4>1 DEF Used
      <4>2. CASE q = problem.key
        <5>1. row'[q].status = "pending"
          BY <2>1, <3>2, <3>3, <4>2
        <5> QED BY <5>1, <2>1 DEF Known, HoldsLease
      <4>3. CASE q # k /\ q # problem.key
        BY <1>t, <2>1, <3>3, <3>4, <4>3, KnownKept DEF Used, TypeOK
      <4> QED BY <4>1, <4>2, <4>3
    <3> QED BY <1>t, <2>1, <3>1, <3>4, GarbageKept
  <2> QED BY <2>2, <2>3, <2>4
<1>4. CASE EditFails(w)
  <2>1. UNCHANGED <<problem, exec, object, row, cleaner>>
    BY <1>4 DEF EditFails
  <2> QED BY <1>t, <2>1, KnownKept, GarbageKept DEF Used
<1> QED BY <1>1, <1>2, <1>3, <1>4

LEMMA AcceptanceGarbage ==
  ASSUME WithinGrace, IInv, GarbageInv, NEW e \in Execs,
         \/ ReadGeneration(e) \/ ReadContext(e) \/ CommitAcceptance(e)
         \/ AcceptanceFails(e) \/ EndExecution(e)
  PROVE  GarbageHasRow'
<1>t. TypeOK /\ GarbageHasRow /\ PinsAreFinal
  BY DEF IInv, KeyInv, GarbageInv
<1>1. UNCHANGED <<problem, object, row, cleaner>>
  BY DEF ReadGeneration, ReadContext, CommitAcceptance, AcceptanceFails, EndExecution
<1>2. \A f \in Execs : exec[f].pins \subseteq exec'[f].pins
  <2>1. CASE CommitAcceptance(e)
    <3>1. exec[e].pins = {} /\ \A f \in Execs : f # e => exec'[f] = exec[f]
      BY <1>t, <2>1 DEF CommitAcceptance, PinsAreFinal, TypeOK
    <3> QED BY <3>1
  <2>2. CASE EndExecution(e)
    BY <1>t, <2>2 DEF EndExecution, TypeOK, Execution
  <2> QED BY <2>1, <2>2 DEF ReadGeneration, ReadContext, AcceptanceFails
<1>3. \A q \in object : Used(q) \/ Known(q) => Used(q)' \/ Known(q)'
  BY <1>1, <1>2, KnownKept DEF Used
<1> QED BY <1>t, <1>1, <1>3, GarbageKept

LEMMA CompactionGarbage ==
  ASSUME WithinGrace, IInv, GarbageInv, CompactionStep \/ CompactionFails
  PROVE  GarbageHasRow'
<1>t. TypeOK /\ ActorsHaveKeys /\ GarbageHasRow /\ PinsAreFinal
  BY DEF IInv, KeyInv, GarbageInv
<1>1. CASE CompactionFails \/ \E e \in Execs : ReadLegacy(e)
  <2>1. UNCHANGED <<problem, exec, object, row, cleaner>>
    BY <1>1 DEF ReadLegacy, CompactionFails
  <2> QED BY <1>t, <2>1, KnownKept, GarbageKept DEF Used
<1>2. CASE GuardPinned
  <2>1. UNCHANGED <<problem, exec, object, cleaner>>
    BY <1>2 DEF GuardPinned
  <2>2. \A q \in Key : row'[q] = row[q] \/ row'[q].status = "pending"
    BY <1>2, <1>t DEF GuardPinned, Pending, TypeOK
  <2>3. \A q \in object : Used(q) \/ Known(q) => Used(q)' \/ Known(q)'
    BY <1>t, <2>1, <2>2, KnownKept DEF Used, TypeOK
  <2> QED BY <1>t, <2>1, <2>3, GarbageKept
<1>3. CASE PutPinned
  <2>1. UNCHANGED <<problem, exec, row, cleaner>> /\ object' = object \cup {compact.key}
    BY <1>3 DEF PutPinned
  <2>2. Known(compact.key)
    BY <1>3, PendingIsKnown DEF PutPinned, GarbageInv, WritesAreGuarded
  <2>3. \A q \in object : Used(q) \/ Known(q) => Used(q)' \/ Known(q)'
    BY <2>1, KnownKept DEF Used
  <2>4. \A q \in object' : q \in object \/ Used(q)' \/ Known(q)'
    BY <2>1, <2>2, KnownKept
  <2> QED BY <1>t, <2>1, <2>3, <2>4, GarbageKept
<1>4. CASE CommitCompaction
  <2>1. UNCHANGED <<problem, object, cleaner>>
    BY <1>4 DEF CommitCompaction
  <2>2. CASE exec' = exec /\ row' = row
    BY <1>t, <2>1, <2>2, KnownKept, GarbageKept DEF Used
  <2>3. CASE ~(exec' = exec /\ row' = row)
    <3>1. /\ compact.exec \in Execs /\ exec'[compact.exec].pins = {compact.key}
          /\ row' = row \/ row' = [row EXCEPT ![compact.key] = Cancelled]
          /\ \A f \in Execs : f # compact.exec => exec'[f] = exec[f]
          /\ exec[compact.exec].legacy # NoText
      BY <1>4, <1>t, <2>3, CompactionPins
    <3>2. \A f \in Execs : exec[f].pins \subseteq exec'[f].pins
      BY <1>t, <3>1 DEF PinsAreFinal
    <3>3. \A q \in Key : q # compact.key => row'[q] = row[q]
      BY <1>t, <3>1 DEF TypeOK
    <3>4. \A q \in object : Used(q) \/ Known(q) => Used(q)' \/ Known(q)'
      BY <1>t, <2>1, <3>1, <3>2, <3>3, KnownKept DEF Used, TypeOK
    <3> QED BY <1>t, <2>1, <3>4, GarbageKept
  <2> QED BY <2>2, <2>3
<1> QED BY <1>1, <1>2, <1>3, <1>4 DEF CompactionStep

LEMMA CleanupGarbage ==
  ASSUME IInv, GarbageInv, NEW c \in Cleaners,
         CleanerStep(c) \/ CleanupFails(c, TRUE) \/ CleanupFails(c, FALSE)
  PROVE  GarbageHasRow'
<1> DEFINE k == cleaner[c].key
<1>t. TypeOK /\ ActorsHaveKeys /\ GarbageHasRow
  BY DEF IInv, KeyInv, GarbageInv
<1>u. UNCHANGED <<problem, exec>> /\ \A q \in Key : Used(q) => Used(q)'
  BY DEF CleanerStep, CheckReferences, DeleteObject, CompleteCleanup, CleanupFails, Used
<1>o. \A d \in Cleaners : d # c => cleaner'[d] = cleaner[d]
  BY <1>t DEF CleanerStep, CheckReferences, DeleteObject, CompleteCleanup, CleanupFails, TypeOK
<1>1. ASSUME NEW q \in Key, Known(q), row'[q] = row[q],
             cleaner'[c].pc = "finish" /\ cleaner'[c].key = q =>
               cleaner[c].pc = "finish" /\ cleaner[c].key = q
      PROVE  Known(q)'
  BY <1>o, <1>1 DEF Known, HoldsLease
<1>2. CASE CheckReferences(c)
  <2>1. UNCHANGED <<object, row>>
    BY <1>2 DEF CheckReferences
  <2>2. /\ cleaner'[c].key = k
        /\ cleaner'[c].pc = "finish" => Referenced(k)
    BY <1>2, <1>t DEF CheckReferences, TypeOK, Cleaner
  <2>3. \A q \in object : Used(q) \/ Known(q) => Used(q)' \/ Known(q)'
    <3>1. Referenced(k) => Used(k)
      BY DEF Referenced, Used
    <3> HIDE DEF k
    <3> QED BY <1>t, <1>u, <1>1, <2>1, <2>2, <3>1 DEF TypeOK
  <2> QED BY <1>t, <1>u, <2>1, <2>3, GarbageKept
<1>3. CASE DeleteObject(c)
  <2>1. row' = row /\ object' = object \ {k}
    BY <1>3 DEF DeleteObject
  <2>2. cleaner'[c].key = k
    BY <1>3, <1>t DEF DeleteObject, TypeOK, Cleaner
  <2>3. \A q \in object' : Used(q) \/ Known(q) => Used(q)' \/ Known(q)'
    BY <1>t, <1>u, <1>1, <2>1, <2>2 DEF TypeOK
  <2> HIDE DEF k
  <2>4. problem.alive => \A q \in object' : Used(q) \/ Known(q)
    BY <1>t, <2>1 DEF GarbageHasRow, Used, Known
  <2> QED BY <1>u, <2>3, <2>4 DEF GarbageHasRow, Used, Known
<1>4. CASE CompleteCleanup(c)
  <2>1. object' = object /\ cleaner[c].pc = "finish" /\ k \in Key
    BY <1>4, <1>t DEF CompleteCleanup, ActorsHaveKeys
  <2>2. cleaner'[c].pc = "idle"
    BY <1>4, <1>t DEF CompleteCleanup, NoCleanup, TypeOK
  <2>3. \A q \in Key : (q = k /\ HoldsLease(c)) \/ row'[q] = row[q]
    BY <1>4, <1>t DEF CompleteCleanup, TypeOK
  <2>4. HoldsLease(c) => ~Known(k)
    BY <2>1 DEF Known
  <2> HIDE DEF k
  <2>5. \A q \in object : Used(q) \/ Known(q) => Used(q)' \/ Known(q)'
    BY <1>t, <1>u, <1>1, <2>2, <2>3, <2>4 DEF TypeOK
  <2> QED BY <1>t, <1>u, <2>1, <2>5, GarbageKept
<1>5. ASSUME NEW reported \in BOOLEAN, CleanupFails(c, reported) PROVE GarbageHasRow'
  <2>1. object' = object
    BY <1>5 DEF CleanupFails
  <2>2. cleaner'[c].pc = "idle"
    BY <1>5, <1>t DEF CleanupFails, NoCleanup, TypeOK
  <2>3. \A q \in Key : row'[q].status = "pending" \/ row'[q] = row[q]
    BY <1>5, <1>t DEF CleanupFails, TypeOK
  <2>4. \A q \in Key : row'[q].status = "pending" => Known(q)'
    BY <1>o, <2>2 DEF Known, HoldsLease
  <2>5. \A q \in object : Used(q) \/ Known(q) => Used(q)' \/ Known(q)'
    BY <1>t, <1>u, <1>1, <2>2, <2>3, <2>4 DEF TypeOK
  <2> QED BY <1>t, <1>u, <2>1, <2>5, GarbageKept
<1> QED BY <1>2, <1>3, <1>4, <1>5 DEF CleanerStep

LEMMA ClaimGarbage ==
  ASSUME IInv, GarbageInv, NEW k \in Key, BecomesDue(k) \/ \E c \in Cleaners : ClaimCleanup(c, k)
  PROVE  GarbageHasRow'
<1>t. TypeOK /\ GarbageHasRow
  BY DEF IInv, KeyInv, GarbageInv
<1>1. CASE BecomesDue(k)
  <2>1. UNCHANGED <<problem, exec, object, cleaner>>
    BY <1>1 DEF BecomesDue
  <2>2. \A q \in Key : row'[q] = row[q] \/ row'[q].status = "pending"
    BY <1>1, <1>t DEF BecomesDue, TypeOK, CleanupRow
  <2>3. \A q \in object : Used(q) \/ Known(q) => Used(q)' \/ Known(q)'
    BY <1>t, <2>1, <2>2, KnownKept DEF Used, TypeOK
  <2> QED BY <1>t, <2>1, <2>3, GarbageKept
<1>2. ASSUME NEW c \in Cleaners, ClaimCleanup(c, k) PROVE GarbageHasRow'
  <2>1. UNCHANGED <<problem, exec, object>>
    BY <1>2 DEF ClaimCleanup
  <2>2. /\ \A q \in Key : q # k => row'[q] = row[q]
        /\ row'[k].status = "leased" /\ row'[k].owner = c
        /\ cleaner'[c].pc = "check"
        /\ \A d \in Cleaners : d # c => cleaner'[d] = cleaner[d]
    BY <1>2, <1>t DEF ClaimCleanup, TypeOK
  <2>3. \A q \in Key : Known(q) => Known(q)'
    BY <2>2 DEF Known, HoldsLease
  <2>4. \A q \in object : Used(q) \/ Known(q) => Used(q)' \/ Known(q)'
    BY <1>t, <2>1, <2>3 DEF Used, TypeOK
  <2> QED BY <1>t, <2>1, <2>4, GarbageKept
<1> QED BY <1>1, <1>2

LEMMA InitGarbage == Init => GarbageInv
<1> SUFFICES ASSUME Init PROVE GarbageInv
  OBVIOUS
<1>1. PICK first \in Key, old \in [Legacy -> Texts] :
        /\ first.version = 1
        /\ problem = [alive |-> TRUE, gen |-> 1, key |-> first]
        /\ exec = [e \in Execs |-> IF e \in Legacy
                                  THEN [state |-> "ended", pins |-> {}, legacy |-> old[e]]
                                  ELSE [state |-> "absent", pins |-> {}, legacy |-> NoText]]
        /\ object = {first}
  BY DEF Init
<1>2. /\ edit = [w \in Editors |-> NoEdit] /\ accept = [e \in Execs |-> NoAcceptance]
      /\ compact = NoCompaction
  BY DEF Init
<1>3. PinsAreFinal
  BY <1>1, <1>2 DEF PinsAreFinal, NoAcceptance
<1>4. VersionsAreApart /\ WritesAreGuarded
  BY <1>1, <1>2 DEF VersionsAreApart, WritesAreGuarded, NoEdit, NoCompaction
<1>5. GarbageHasRow
  BY <1>1 DEF GarbageHasRow
<1> QED BY <1>3, <1>4, <1>5 DEF GarbageInv

LEMMA GarbageStep ==
  ASSUME WithinGrace, IInv, GarbageInv, [Next]_vars
  PROVE  GarbageInv'
<1>1. PinsAreFinal' /\ VersionsAreApart' /\ WritesAreGuarded'
  BY PinsStep, VersionsStep, WritesStep DEF GarbageInv
<1>2. GarbageHasRow'
  <2>1. CASE DeleteProblem
    <3>1. ~problem'.alive
      BY <2>1 DEF DeleteProblem, IInv, KeyInv, TypeOK, Problem
    <3> QED BY <3>1 DEF GarbageHasRow
  <2>2. CASE UNCHANGED vars
    BY <2>2 DEF vars, GarbageInv, GarbageHasRow, HoldsLease
  <2> QED
    BY <2>1, <2>2, EditGarbage, AcceptanceGarbage, CompactionGarbage, ClaimGarbage,
       CleanupGarbage DEF Next, EditStep
<1> QED BY <1>1, <1>2 DEF GarbageInv

(* While the problem exists, every object without a reference has a cleanup  *)
(* row that no handler is about to complete in vain, so the outbox will      *)
(* remove it: as long as edits and compactions end within the grace hour.    *)
THEOREM GarbageIsKnown ==
  ASSUME WithinGrace
  PROVE  Spec => []GarbageHasRow
<1>1. IInv /\ GarbageInv /\ [Next]_vars => GarbageInv'
  BY GarbageStep
<1>2. GarbageInv => GarbageHasRow
  BY DEF GarbageInv
<1> QED BY <1>1, <1>2, InitGarbage, Invariant, PTL DEF Spec
=============================================================================
