SPECIFICATION Spec
CONSTANTS
  Cmds <- SomeCmds
  Persisted = {5}
  CLIENT_ID = 7
  BUF_SIZE = 20
  STRUCT_SIZE = 2
  Splits = {9}
  MaxSent = 4
INVARIANT WireTypeOK
INVARIANT FileReadsBack
PROPERTY FirstIsHandled
CHECK_DEADLOCK FALSE
