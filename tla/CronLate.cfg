\* One session, a one-shot task, no edit; the watcher may report after a tick.
SPECIFICATION CronSpec
CONSTANTS
  Sessions = {1}
  once = once
  later = later
  again = again
  Tasks = {once, later, again}
  Recurring = {again}
  Matches <- At
  Initially <- OneShot
  MaxAge = 0
  MaxTime = 2
  MaxEdits = 0
  MaxEnds = 0
  Absent = Absent
  Nobody = Nobody
INVARIANTS
  FiresOnceUnlessDisturbed
CHECK_DEADLOCK FALSE
