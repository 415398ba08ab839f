--------------------------- MODULE MCDispatchGate ---------------------------
(* Instances of DispatchGate for TLC. *)
EXTENDS DispatchGate, TLC

CONSTANTS g1, g2
=============================================================================
