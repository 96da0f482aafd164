\* The turn ends and the queue drains, when every tool is known.
CONSTANTS
  MaxTools = 2
  MaxProgress = 0
  MaxMessages = 1
  NoKind = NoKind
  Kinds = {read, bash}
  Unknown = {}
  ConcurrencySafe = {read}
  Bash = {bash}
  Cancellable = {read}
SPECIFICATION FairSpec
PROPERTIES
  TurnEnds
  QueueDrains
