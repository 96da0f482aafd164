\* Two sessions that drive in turn, two tasks at a time, one edit or one end.
SPECIFICATION CronFairSpec
CONSTANTS
  Sessions = {1, 2}
  once = once
  later = later
  again = again
  Tasks = {once, later, again}
  Recurring = {again}
  Matches <- At
  Initially <- Mixed
  MaxAge = 2
  MaxTime = 2
  MaxEdits = 1
  MaxEnds = 1
  Absent = Absent
  Nobody = Nobody
INVARIANTS
  CronTypeOK
  FiresOnce
  NothingVanishes
PROPERTIES
  DueFires
CHECK_DEADLOCK FALSE
