SPECIFICATION Spec
CONSTANTS
  s = s
  a = a
  NoTx = NoTx
  NoMutation = NoMutation
  Starters = {s}
  Attachers = {}
  Attempts = 2
  CacheLife = 2
  MaxTx = 1
CHECK_DEADLOCK FALSE
INVARIANT FailedCommitPublishesNothing
