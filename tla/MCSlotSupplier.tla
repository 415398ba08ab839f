--------------------------- MODULE MCSlotSupplier ---------------------------
(* Instances of SlotSupplier for TLC. *)
EXTENDS SlotSupplier, TLC

CONSTANTS c1, c2, c3, c4, wallClockTimeout, unschedulable

Pauses == wallClockTimeout :> 4 @@ unschedulable :> 2
=============================================================================
