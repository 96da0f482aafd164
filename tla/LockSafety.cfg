\* Three processes, one of them a resumed session, with stops, exits and a crash.
CONSTANTS
  Procs = {"a", "b", "c"}
  Identity <- Resumed
  MaxCrashes = 1
  GracefulExits = TRUE
SPECIFICATION FairSpec
CHECK_DEADLOCK FALSE
INVARIANTS
  TypeOK
  OneOwnerUntilRobbed
  NoOrphanLock
PROPERTIES
  TakenOver
