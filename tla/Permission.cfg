\* A request of the main agent and one of a teammate, claude.ai and a channel.
SPECIFICATION FairSpec
CONSTANTS
  m1 = m1
  m2 = m2
  t1 = t1
  Main <- One
  Teammates <- Teammate
  Remotes <- Both
  MaxCancels = 1
  MaxSwitches = 1
INVARIANTS
  TypeOK
  OneDecision
  RemoteDismissed
PROPERTIES
  Answered
CHECK_DEADLOCK FALSE
