\* Two PHP threads of a thread-safe build.
CONSTANTS
  w1 = w1
  w2 = w2
  r1 = r1
  r2 = r2
  NULL = NULL
  Workers = {w1, w2}
  Requests = {r1, r2}
SPECIFICATION Spec
INVARIANTS
  IdsUnique
