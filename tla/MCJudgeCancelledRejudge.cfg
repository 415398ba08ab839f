\* Violation: a cancelled rejudge leaves a system_error that nobody retries.
SPECIFICATION Spec
CONSTANTS
  MaxExecs = 2
  MaxEpochs = 0
  NumStages = 1
  Tokens = {l1}
  Tasks = {t1}
  LateClaims = FALSE
  LateCommits = FALSE
SYMMETRY Symmetry
INVARIANT SystemErrorIsRetried
