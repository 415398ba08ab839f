\* Two rows of different kinds, two batches at a time, crashes and timeouts.
SPECIFICATION FairSpec
CONSTANTS
  k1 = k1
  k2 = k2
  o1 = o1
  o2 = o2
  Keys = {k1, k2}
  NumKinds = 2
  KindOf <- OwnKind
  Owners = {o1, o2}
  Concurrency = 2
  MaxAttempts = 2
INVARIANTS RunsAreCounted SucceededWasServed DeadWasTried
PROPERTIES TerminalIsStable WorkSettles
