\* Creates and resets with claims and updates, under one crash: ids are unique, and nobody waits for ever.
CONSTANTS
  Procs = {a, b}
  MaxId = 4
  MaxOps = 4
  MaxCrashes = 1
  Ops = {"create", "reset", "setStatus", "claimBusy"}
  Initial <- OneTask
  None = None
  Absent = Absent
  Torn = Torn
SPECIFICATION FairSpec
INVARIANTS
  TypeOK
  UniqueIds
PROPERTIES
  OperationsEnd
