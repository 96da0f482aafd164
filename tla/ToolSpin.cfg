\* An unknown tool behind a running unsafe one: the wait never ends.
CONSTANTS
  MaxTools = 2
  MaxProgress = 0
  MaxMessages = 1
  NoKind = NoKind
  Kinds = {edit, ghost}
  Unknown = {ghost}
  ConcurrencySafe = {ghost}
  Bash = {}
  Cancellable = {}
SPECIFICATION FairSpec
PROPERTIES
  TurnEnds
