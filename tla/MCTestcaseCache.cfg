\* Two stages and a set of two shards that is collected once.
SPECIFICATION FairSpec
CONSTANTS
  Runs = {r1, r2}
  Shards = {1, 2}
  Takeover = 1
  Timeout = 2
  Touch = 1
  Idle = 2
  Setup = 1
  MaxUids = 2
  MaxTime = 4
INVARIANTS ReadyIsComplete MountedIsThere
PROPERTY EnsureEnds
