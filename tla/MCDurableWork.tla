---------------------------- MODULE MCDurableWork ----------------------------
(* An instance of DurableWork for TLC. *)
EXTENDS DurableWork, TLC

CONSTANTS k1, k2, o1, o2

\* One row per kind.
OwnKind == (k1 :> 0) @@ (k2 :> 1)
=============================================================================
