\* A blocked transfer across fd_cleanup_process and a new pipe.
CONSTANTS
  Procs = {p1, p2, p3}
  Data = {a}
  NoByte = nobyte
  PIPE_MAX_OPEN = 1
  PIPE_BUF_SIZE = 1
  MaxLen = 2
  MaxGen = 2
  MayExit = {p1}
  MayBeKilled = {}
SPECIFICATION Spec
CHECK_DEADLOCK FALSE
INVARIANTS TransferKeepsItsPipe
