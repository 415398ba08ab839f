\* One exam that is moved and extended, two reconciliations that race.
SPECIFICATION FairSpec
CONSTANTS
  x1 = x1
  x2 = x2
  p1 = p1
  p2 = p2
  r1 = r1
  r2 = r2
  Exams = {x1}
  Windows <- MovingWindows
  First <- ShortFirst
  MaxTime = 3
  MaxRevision = 3
  MaxRounds = 3
  Recs = {p1, p2}
  Reconciled = {x1}
  Reverts = FALSE
  Requests = {r1}
  LateEntry = FALSE
PROPERTIES NotClosedEarly CurrentTimerSurvives EndedIsClosed
CHECK_DEADLOCK FALSE
