\* Two requests of the main agent, one ESC, nobody else.
SPECIFICATION Spec
CONSTANTS
  m1 = m1
  m2 = m2
  t1 = t1
  Main <- Two
  Teammates <- NoTeammate
  Remotes <- Bridge
  MaxCancels = 1
  MaxSwitches = 0
INVARIANT Answerable
CHECK_DEADLOCK FALSE
