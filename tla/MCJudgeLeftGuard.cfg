\* Violation: a failure between write guard and commit blocks every retry.
SPECIFICATION FairSpec
CONSTANTS
  MaxExecs = 1
  MaxEpochs = 1
  NumStages = 1
  Tokens = {l1}
  Tasks = {t1, t2}
  LateClaims = FALSE
  LateCommits = FALSE
PROPERTY ExecutionEnds
