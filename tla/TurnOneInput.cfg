\* Prompts and bash commands, one ESC.
SPECIFICATION Spec
CONSTANTS
  MaxCommands = 3
  MaxForced = 1
  Kinds <- UserKinds
INVARIANT OneInput
CHECK_DEADLOCK FALSE
