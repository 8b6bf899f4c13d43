\* Heap: an arena that holds a page-aligned block beside others.  Programs
\* nested deeper than the stack areas.  Frames that run out during a fork.  A
\* ring that wraps and fills.  Two names on two levels and memory for two nodes.
CONSTANTS
  HEAP_SIZE = 24
  HDR = 2
  ALIGN = 2
  PAGE = 4
  Requests = {0, 1, 4}
  MaxNest = 4
  MaxImages = 5
  StackLevels = 3
  total_frames = 10
  reserved = 2
  UserPages <- MCUserPages
  AsSlots = 3
  MaxForks = 2
  BUF_SIZE = 3
  Keys = {"x", "y"}
  MaxStdin = 1
  Names = {"a", "b"}
  MaxDepth = 2
  NodeSlots = {1, 2}
  VFS_MAX_CHILDREN = 2
  Bytes = {"x"}
  MaxSize = 1
  Fds = {3}
  Handles = {1}
  FsProcs = {10}
SPECIFICATION MCSpec
CHECK_DEADLOCK FALSE
INVARIANTS
  KhTypeOK ListTilesHeap NoFreeNeighbours PointersOwnBlocks
  RunsAsItself ExitUnwindsOneCall StacksKept RedirectionsEnd
  DirsUnshared FramesCounted FramesAccounted
  KeysInOrder
  TreeSound ReferencesFollowPaths
PROPERTIES KeyReachesReader
