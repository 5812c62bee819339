\* A pusher, a popper that may also terminate the queue, and a thread that
\* pushes and pops: two may sleep on either side.  Elements are told apart.
CONSTANTS
  p1 = p1  p2 = p2  c1 = c1
  v1 = v1  v2 = v2
  Nobody = Nobody
  NoValue = NoValue
  Producers = {p1, p2}
  Consumers = {p2, c1}
  Controllers = {c1}
  Values = {v1, v2}
  Capacity = 2
  SpuriousWakeups = TRUE
  LateTimeouts = TRUE
SPECIFICATION Spec
SYMMETRY Symmetry
INVARIANTS
  TypeOK
  RingConsistent
  CopyIsServed
  WaitersCounted
  NoSleepPastTerm
PROPERTIES
  ImplementsBoundedQueue
