\* A claim with and a claim without the busy check race for a task.
CONSTANTS
  Procs = {a, b}
  MaxId = 1
  MaxOps = 2
  MaxCrashes = 0
  Ops = {"claim", "claimBusy"}
  Initial <- OneTask
  None = None
  Absent = Absent
  Torn = Torn
SPECIFICATION Spec
INVARIANTS
  BusyClaimStands
