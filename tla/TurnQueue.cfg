\* Three commands of six kinds, one turn cancelled or timed out.
SPECIFICATION FairSpec
CONSTANTS
  MaxCommands = 3
  MaxForced = 1
  Kinds <- MixedKinds
INVARIANTS
  TypeOK
  GuardIsOwned
  NoReentry
  NothingLost
PROPERTIES
  QueueServed
CHECK_DEADLOCK FALSE
