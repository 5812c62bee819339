\* One request, closed at any time, in a debug build.
CONSTANTS
  r1 = r1
  NULL = NULL
  Requests = {r1}
  Capacity = 1
  MaxEvents = 2
  Policy = {"abandon"}
  SpuriousWakeups = FALSE
  TonDebug = TRUE
SPECIFICATION Spec
SYMMETRY Symmetry
INVARIANTS
  ReleasedAfterHandler
