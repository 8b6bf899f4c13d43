\* Any process makes any call on any descriptor, at any time; two byte values
\* tell order and content of what is transferred.  Blocked transfers end once the
\* other end is gone.
CONSTANTS
  Procs = {p1, p2}
  Data = {a, b}
  NoByte = nobyte
  PIPE_MAX_OPEN = 1
  PIPE_BUF_SIZE = 2
  MaxLen = 2
  MaxGen = 2
  MayExit = {p1}
  MayBeKilled = {p2}
SPECIFICATION FairSpec
CHECK_DEADLOCK FALSE
INVARIANTS RingConsistent RefcountKeepsSlot
PROPERTIES ShortReadOnlyAtEof ShortWriteOnlyWhenFull ImplementsFifo ReaderSeesEof WriterNotStuck
