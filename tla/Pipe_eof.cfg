\* A process exits while another one waits for bytes.
CONSTANTS
  Procs = {p1, p2}
  Data = {a}
  NoByte = nobyte
  PIPE_MAX_OPEN = 1
  PIPE_BUF_SIZE = 1
  MaxLen = 1
  MaxGen = 1
  MayExit = {p2}
  MayBeKilled = {}
SPECIFICATION FairSpec
CHECK_DEADLOCK FALSE
PROPERTIES ReaderEndsWithItsPipe
