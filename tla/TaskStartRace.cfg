\* A claim races with a TaskUpdate that starts the task.
CONSTANTS
  Procs = {a, b}
  MaxId = 1
  MaxOps = 2
  MaxCrashes = 0
  Ops = {"claim", "start"}
  Initial <- OneTask
  None = None
  Absent = Absent
  Torn = Torn
SPECIFICATION Spec
INVARIANTS
  StartedClaimStands
