\* Two sessions start at the same time.
CONSTANTS
  Procs = {"a", "b"}
  Identity <- TwoSessions
  MaxCrashes = 0
  GracefulExits = FALSE
SPECIFICATION Spec
CHECK_DEADLOCK FALSE
INVARIANTS
  OneDriver
