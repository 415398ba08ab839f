----------------------- MODULE MCSubmissionAcceptance -----------------------
(* The exam has a session and a cooldown, the assignment counts the attempts. *)
EXTENDS SubmissionAcceptance

MCContexts == {"exam", "assignment"}
MCCooldown == [c \in MCContexts |-> IF c = "exam" THEN 1 ELSE 0]
MCDailyLimit == [c \in MCContexts |-> IF c = "assignment" THEN 1 ELSE 0]
=============================================================================
