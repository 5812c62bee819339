\* Requests joined in every way, also to each other and to themselves; a request
\* is closed once it and everything joined to it has been read.
CONSTANTS
  r1 = r1
  r2 = r2
  NULL = NULL
  Requests = {r1, r2}
  Capacity = 2
  MaxEvents = 2
  Policy = {"join"}
  SpuriousWakeups = TRUE
  TonDebug = FALSE
SPECIFICATION Spec
SYMMETRY Symmetry
INVARIANTS
  HandlerSafe
  ElementsSafe
