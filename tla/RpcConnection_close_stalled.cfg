SPECIFICATION FairSpec
CONSTANTS
  c1 = c1
  c2 = c2
  Callers = {c1, c2}
  Deadlined = {}
  MaxInFlight = 2
  OutboundQueue = 1
  MaxCalls = 1
  MaxTotal = 2
  MayStall = TRUE
CHECK_DEADLOCK FALSE
PROPERTY CloseWakesCallers
