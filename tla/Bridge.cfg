\* Three messages, closes of the read stream and new epochs in all.
SPECIFICATION FairSpec
CONSTANTS
  MaxWrites = 2
  MaxEpochs = 3
  MaxCloses = 1
  MaxEvents = 3
INVARIANTS
  TypeOK
  ServerOrder
  LatestEpoch
  TornDownCloses
PROPERTIES
  GateOpens
  Arrives
CHECK_DEADLOCK FALSE
