---------------------------- MODULE JudgePromise ----------------------------
(***************************************************************************)
(* What judging promises about one submission, without leases, workflows,  *)
(* activities or recovery: at most one execution is open, a verdict is     *)
(* committed once, a committed verdict is finalized before anything else   *)
(* happens to the submission, and the visible result is the last committed *)
(* one.                                                                    *)
(***************************************************************************)
EXTENDS Naturals

CONSTANT MaxExecs

VARIABLES
  phase,  \* of each execution
  shown   \* the execution whose result the submission shows, 0 if none

vars == <<phase, shown>>

Execs == 1 .. MaxExecs
Phases == {"absent", "open", "committed", "finalized", "void"}

Init ==
  /\ phase = [e \in Execs |-> "absent"]
  /\ shown = 0

(* A new execution voids the open one, and waits for a committed one. *)
Open(e) ==
  /\ phase[e] = "absent"
  /\ \A i \in Execs : i < e => phase[i] # "absent"
  /\ \A i \in Execs : phase[i] # "committed"
  /\ phase' = [i \in Execs |-> CASE i = e -> "open"
                                 [] i # e /\ phase[i] = "open" -> "void"
                                 [] OTHER -> phase[i]]
  /\ UNCHANGED shown

Void(e) ==
  /\ phase[e] = "open"
  /\ phase' = [phase EXCEPT ![e] = "void"]
  /\ UNCHANGED shown

Commit(e) ==
  /\ phase[e] = "open"
  /\ phase' = [phase EXCEPT ![e] = "committed"]
  /\ shown' = e

Finalize(e) ==
  /\ phase[e] = "committed"
  /\ phase' = [phase EXCEPT ![e] = "finalized"]
  /\ UNCHANGED shown

Next == \E e \in Execs : Open(e) \/ Void(e) \/ Commit(e) \/ Finalize(e)

Spec == Init /\ [][Next]_vars
=============================================================================
