--------------------------- MODULE MCExamSession ---------------------------
(* Instances of ExamSession for TLC. *)
EXTENDS ExamSession, TLC

CONSTANTS x1, x2, p1, p2, r1, r2

Window(s, e) == [starts |-> s, ends |-> e]

\* An exam that may be moved or extended; one that goes on for ever.
Short == Window(1, 2)
Endless == Window(0, 9)

MovingWindows == {Short, Window(1, 3), Window(2, 3)}
ShortFirst == x1 :> Short

EntryWindows == {Short, Window(1, 3), Endless}
BothFirst == x1 :> Short @@ x2 :> Endless
=============================================================================
