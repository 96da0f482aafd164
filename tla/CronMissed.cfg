\* A session starts while another one is busy.
SPECIFICATION CronFairSpec
CONSTANTS
  Sessions = {1, 2}
  once = once
  later = later
  again = again
  Tasks = {once, later, again}
  Recurring = {again}
  Matches <- At
  Initially <- OneShot
  MaxAge = 0
  MaxTime = 2
  MaxEdits = 0
  MaxEnds = 0
  Absent = Absent
  Nobody = Nobody
PROPERTIES
  MissedMeansDown
CHECK_DEADLOCK FALSE
