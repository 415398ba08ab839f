------------------------- MODULE MCStorageLifecycle -------------------------
(* Small instances of StorageLifecycle. *)
EXTENDS StorageLifecycle, TLC

Symmetry ==
  Permutations(Cleaners) \cup Permutations(Editors) \cup Permutations(Texts)
=============================================================================
