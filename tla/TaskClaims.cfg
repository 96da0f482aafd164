\* Claims, updates, dependencies, unassignments and deletes of two tasks under one crash.
CONSTANTS
  Procs = {a, b}
  MaxId = 2
  MaxOps = 3
  MaxCrashes = 1
  Ops = {"claim", "update", "setStatus", "unassign", "block", "delete"}
  Initial <- TwoTasks
  None = None
  Absent = Absent
  Torn = Torn
SPECIFICATION Spec
INVARIANTS
  ClaimStands
