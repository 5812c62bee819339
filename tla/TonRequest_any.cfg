\* Scripts that close, join and disconnect at any time.  ton_request_next without
\* a timeout may block for ever, and a step on released memory has no successor.
CONSTANTS
  r1 = r1
  r2 = r2
  NULL = NULL
  Requests = {r1, r2}
  Capacity = 1
  MaxEvents = 2
  Policy = {"abandon", "join", "disconnect", "block"}
  SpuriousWakeups = TRUE
  TonDebug = FALSE
SPECIFICATION Spec
SYMMETRY Symmetry
INVARIANTS
  ReleasedOnce
  EventsOnce
CHECK_DEADLOCK FALSE
