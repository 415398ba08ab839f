\* Crashes, timeouts and a recovery epoch of one execution of two stages, and
\* its end once failures stop.
SPECIFICATION FairSpec
CONSTANTS
  MaxExecs = 1
  MaxEpochs = 1
  NumStages = 2
  Tokens = {l1}
  Tasks = {t1, t2}
  LateClaims = FALSE
  LateCommits = FALSE
INVARIANT CompletedIsScored
PROPERTIES LeaseOutlivesSandbox ExecutionEndsOrLeftGuard
