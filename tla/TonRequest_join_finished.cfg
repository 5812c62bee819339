\* A request joined to another, both read to the end.
CONSTANTS
  r1 = r1
  r2 = r2
  NULL = NULL
  Requests = {r1, r2}
  Capacity = 1
  MaxEvents = 2
  Policy = {"join", "ask"}
  SpuriousWakeups = FALSE
  TonDebug = FALSE
SPECIFICATION Spec
SYMMETRY Symmetry
INVARIANTS
  ToldOnlyIfFinal
