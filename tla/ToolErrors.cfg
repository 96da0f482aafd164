\* Two calls under Bash errors, rejections, interrupts and fallback.
CONSTANTS
  MaxTools = 2
  MaxProgress = 1
  MaxMessages = 2
  NoKind = NoKind
  Kinds = {read, look, bash, ghost}
  Unknown = {ghost}
  ConcurrencySafe = {read, look, ghost}
  Bash = {look, bash}
  Cancellable = {read}
SPECIFICATION Spec
INVARIANTS
  Answered
  DoneMeansDelivered
