\* Exits of programs that were run by programs.
CONSTANTS
  HEAP_SIZE = 24
  HDR = 2
  ALIGN = 2
  PAGE = 4
  Requests = {0, 1, 4}
  MaxNest = 4
  MaxImages = 5
  StackLevels = 3
  total_frames = 10
  reserved = 2
  UserPages <- MCUserPages
  AsSlots = 3
  MaxForks = 2
  BUF_SIZE = 3
  Keys = {"x", "y"}
  MaxStdin = 1
  Names = {"a", "b"}
  MaxDepth = 2
  NodeSlots = {1, 2}
  VFS_MAX_CHILDREN = 2
  Bytes = {"x"}
  MaxSize = 1
  Fds = {3}
  Handles = {1}
  FsProcs = {10}
SPECIFICATION MCSpec
CHECK_DEADLOCK FALSE
INVARIANTS ExitReturnsToStarter
