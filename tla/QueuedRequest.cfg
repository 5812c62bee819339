\* One request from its start to its release, each queue call in its steps.
\* The script may stop after its last event, or wait for ever for another:
\* no deadlock check.
CONSTANTS
  Sdk = Sdk
  Php = Php
  request = request
  Nobody = Nobody
  NoValue = NoValue
  NULL = NULL
  Capacity = 1
  MaxEvents = 3
  IntLimit = 4096
  Timeouts <- MCTimeouts
  Clocks <- MCClocks
  SpuriousWakeups = TRUE
  LateTimeouts = TRUE
SPECIFICATION FairSpec
INVARIANTS
  TypeOK
  QueueReleasedQuiet
  DeadlineExact
PROPERTIES
  ImplementsTonRequest
  EventsReachScript
CHECK_DEADLOCK FALSE
