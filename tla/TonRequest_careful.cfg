\* Scripts that read every request to its end before they let go of it.  No
\* symmetry, because EventsArrive is a liveness property.
CONSTANTS
  r1 = r1
  r2 = r2
  NULL = NULL
  Requests = {r1, r2}
  Capacity = 2
  MaxEvents = 3
  Policy = {"ask", "leave"}
  SpuriousWakeups = FALSE
  TonDebug = FALSE
SPECIFICATION FairSpec
INVARIANTS
  TypeOK
  HandlerSafe
  NothingLeftBehind
PROPERTIES
  ImplementsEventStream
  EventsArrive
