SPECIFICATION MCSpec
CONSTANTS
  s = s
  a = a
  NoTx = NoTx
  NoMutation = NoMutation
  Starters = {s}
  Attachers = {a}
  Attempts = 2
  CacheLife = 2
  MaxTx = 2
  Timeout = 15
  Second = 1
  DefaultTimeout = 120
  Latency = 1
  MaxSpent = 9
  Batches <- MCBatches
  Sizes = {1, 2, 3}
  BatchAttempts = 2
  NoOutcome = NoOutcome
CHECK_DEADLOCK FALSE
INVARIANT CommitAnswersAreTrue
INVARIANT OneTransactionPerStart
INVARIANT AttachedNeverAborts
INVARIANT KeepAliveIsTrue
INVARIANT OneLostPingIsSurvived
INVARIANT BatchIsSound
