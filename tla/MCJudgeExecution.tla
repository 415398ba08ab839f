-------------------------- MODULE MCJudgeExecution --------------------------
(* Instances of JudgeExecution for TLC. *)
EXTENDS JudgeExecution, TLC

Symmetry == Permutations(Tokens) \cup Permutations(Tasks)
=============================================================================
