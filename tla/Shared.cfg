SPECIFICATION MCSpec
CONSTANTS
  s = s
  NoTx = NoTx
  NoMutation = NoMutation
  Starters = {s}
  Attachers = {}
  Attempts = 3
  CacheLife = 2
  MaxTx = 1
  c1 = c1
  c2 = c2
  near = near
  far = far
  Clients = {c1, c2}
  Hosts = {near, far}
  Rules = {"SameDomain", "Anywhere"}
  Admits <- MCAdmits
  FirstRule = "Anywhere"
  Refresh <- MCRefresh
  RetryAfter = 1
  MaxAge = 3
  MaxCells = 2
  Base = Base
  NoHost = NoHost
  NoOne = NoOne
CHECK_DEADLOCK FALSE
INVARIANT PoolNeverEmpty
INVARIANT PoolIsAnswerMinusFailed
INVARIANT RoutedWithinRules
PROPERTY LookupsAreSpaced
PROPERTY RoutingRecovers
PROPERTY TransactionsEnd
PROPERTY CommandsReturn
