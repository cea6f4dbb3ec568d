SPECIFICATION Spec
CONSTANTS
  c1 = c1
  c2 = c2
  Callers = {c1, c2}
  Deadlined = {c1, c2}
  MaxInFlight = 1
  OutboundQueue = 1
  MaxCalls = 1
  MaxTotal = 2
  MayStall = FALSE
CHECK_DEADLOCK FALSE
INVARIANT ProxyLoadBounded
