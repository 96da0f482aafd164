SPECIFICATION FairSpec
CONSTANTS
  MaxWrites = 1
  MaxEpochs = 2
  MaxCloses = 1
  MaxEvents = 3
PROPERTIES
  FailedIsDead
CHECK_DEADLOCK FALSE
