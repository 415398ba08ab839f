\* Two executions, two gate runs that race, a recovery epoch.
SPECIFICATION FairSpec
CONSTANTS
  g1 = g1
  g2 = g2
  N = 2
  Gates = {g1, g2}
  MaxEpochs = 1
  SweepLimit = 2
INVARIANT OneAtATime
PROPERTIES InAcceptanceOrder AcceptedIsJudged
CHECK_DEADLOCK FALSE
