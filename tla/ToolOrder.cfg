\* Three calls, safe, unsafe and unknown: the order of starts and of deliveries.
CONSTANTS
  MaxTools = 3
  MaxProgress = 0
  MaxMessages = 1
  NoKind = NoKind
  Kinds = {read, edit, ghost}
  Unknown = {ghost}
  ConcurrencySafe = {read, ghost}
  Bash = {}
  Cancellable = {}
SPECIFICATION Spec
INVARIANTS
  TypeOK
  Exclusive
  UnsafeBeforeLater
  ContextInOrder
