SPECIFICATION ThreadsSpec
\* The processes end.
CHECK_DEADLOCK FALSE
CONSTANTS
  NumTests = 3
  Threads = {m, t1, t2}
  Main = m
  MaxFailures = 3
  UseValgrind = TRUE
  None = none
  Producers = 2
  Consumers = 3
  ITEMS_EACH = 2
  QSZ = 2
  Queues = {"placeholder", "finished"}
INVARIANTS
  VerdictHonest
  Accounting
  NoEarlyLeave
  SeenOnce
  NoUseAfterDestroy
PROPERTIES
  VerdictComes
  ThroughputDone
  ServerStops
