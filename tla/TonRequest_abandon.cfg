\* Requests closed at any time, none joined, a debug build.
CONSTANTS
  r1 = r1
  r2 = r2
  NULL = NULL
  Requests = {r1, r2}
  Capacity = 1
  MaxEvents = 2
  Policy = {"abandon", "poll"}
  SpuriousWakeups = TRUE
  TonDebug = TRUE
SPECIFICATION FairSpec
INVARIANTS
  FinishedIsFinal
PROPERTIES
  HandlerReturns
