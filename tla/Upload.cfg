\* Retries, a failure budget, sizes, events that cannot be serialized, a late close.
CONSTANTS
  MaxEvents = 6
  MaxFlushes = 2
  MaxBatch = 2
  MaxBytes = 3
  MaxQueue = 2
  MaxFailures = 2
  Size <- Mixed
  Closes = TRUE
SPECIFICATION FairSpec
CHECK_DEADLOCK FALSE
INVARIANTS
  TypeOK
PROPERTIES
  StreamSpec
  ServerOrder
  FlushMeansSent
  FlushesEnd
