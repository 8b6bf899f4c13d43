\* Processes: every call, with kills, signals, a handler and slot reuse.
\* Files: two names on two levels, memory for two nodes, one descriptor.
\* Directory handles change no entry and are left to MCKernel_parts.cfg.
CONSTANTS
  MAX_PROCESSES = 3
  MaxPid = 4
  SIGCHLD = 17
  Sigs = {2}
  Codes = {1}
  CanKill = TRUE
  CanSignal = TRUE
  Handled <- Interrupt
  CanWait = TRUE
  Names = {"a", "b"}
  MaxDepth = 2
  NodeSlots = {1, 2}
  VFS_MAX_CHILDREN = 2
  Bytes = {"x"}
  MaxSize = 1
  Fds = {3}
  Handles = {}
  FsProcs = {10}
SPECIFICATION MCSpec
CHECK_DEADLOCK FALSE
INVARIANTS PidsUnique OrphansAdopted
PROPERTIES WaitReports ImplementsNamespace
