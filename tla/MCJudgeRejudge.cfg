\* A rejudge that supersedes, commits or is cancelled, a recovery epoch of each
\* execution, and the leases they leave behind; one activity at a time.
SPECIFICATION CleanupSpec
CONSTANTS
  MaxExecs = 2
  MaxEpochs = 1
  NumStages = 1
  Tokens = {l1}
  Tasks = {t1}
  LateClaims = FALSE
  LateCommits = TRUE
INVARIANTS OpenExecutionOwnsSubmission ResultStaysVisible CompletedHasVerdict
PROPERTIES VerdictFromFinalizing KeepsPromise LeftLeaseIsReleased
