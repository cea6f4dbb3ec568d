SPECIFICATION Spec
CONSTANTS
  c1 = c1
  c2 = c2
  Callers = {c1, c2}
  Deadlined = {c1, c2}
  MaxInFlight = 1
  OutboundQueue = 1
  MaxCalls = 2
  MaxTotal = 3
  MayStall = FALSE
SYMMETRY Symmetry
CHECK_DEADLOCK FALSE
INVARIANTS
  TypeOK
  CancelHasRoom
  EntryHasOwner
  ClosingIsOrderly
  CancelsAreDue
PROPERTY ImplementsCalls
