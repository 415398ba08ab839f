\* An edit, a deletion, an acceptance, a compaction and two cleanup handlers.
SPECIFICATION Spec
CONSTANTS
  Texts = {a, b}
  MaxVersions = 2
  Execs = {x, y}
  Legacy = {y}
  Editors = {w}
  Cleaners = {c1, c2}
  WithinGrace = TRUE
  Deletable = TRUE
SYMMETRY Symmetry
INVARIANTS ReferencedIsStored GarbageHasRow
PROPERTY AcceptedIsCurrent
CHECK_DEADLOCK FALSE
