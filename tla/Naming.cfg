SPECIFICATION Spec
CONSTANTS
  Byte = {97, 58, 47, 42, 200}
  MaxLength = 6
INVARIANTS FragmentsArePaths ParseUndoesCompose
CHECK_DEADLOCK FALSE
