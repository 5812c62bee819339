\* One pusher, one popper, and a thread that does both and terminates.
CONSTANTS
  p1 = p1  c1 = c1  x1 = x1
  v1 = v1
  Nobody = Nobody
  NoValue = NoValue
  Producers = {p1, x1}
  Consumers = {c1, x1}
  Controllers = {c1}
  Values = {v1}
  Capacity = 1
  SpuriousWakeups = FALSE
  LateTimeouts = FALSE
SPECIFICATION FairSpec
INVARIANTS
  NoLostWakeup
PROPERTIES
  TermReleasesEverybody
  BoundedCallsReturn
  NoStandstill
