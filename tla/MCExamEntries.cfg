\* Two exams and two entries that race with every way to leave.
SPECIFICATION FairSpec
CONSTANTS
  x1 = x1
  x2 = x2
  p1 = p1
  p2 = p2
  r1 = r1
  r2 = r2
  Exams = {x1, x2}
  Windows <- EntryWindows
  First <- BothFirst
  MaxTime = 2
  MaxRevision = 2
  MaxRounds = 3
  Recs = {p1}
  Reconciled = {x1}
  Reverts = FALSE
  Requests = {r1, r2}
  LateEntry = FALSE
INVARIANTS OneActiveSession ActiveMeansTakingPart
CHECK_DEADLOCK FALSE
