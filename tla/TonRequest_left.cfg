\* A script that leaves a request open, unfinished, when it ends.
CONSTANTS
  r1 = r1
  NULL = NULL
  Requests = {r1}
  Capacity = 1
  MaxEvents = 2
  Policy = {"abandon", "leave"}
  SpuriousWakeups = FALSE
  TonDebug = FALSE
SPECIFICATION Spec
SYMMETRY Symmetry
INVARIANTS
  CleanupSafe
