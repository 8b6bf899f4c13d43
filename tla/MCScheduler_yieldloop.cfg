\* A process waits in a yield loop of the kernel for another one.
CONSTANTS
  MAX_PROCESSES = 4
  PRIO_MIN <- BoundMinusTwo
  PRIO_MAX = 2
  PRIO_IDLE = 5
  MLFQ_BOOST_MIN <- BoundMinusOne
  MLFQ_BOOST_MAX = 1
  MLFQ_DEMOTE_AFTER = 2
  MLFQ_DECAY_TICKS = 5
  Q_BASE = 2
  Q_STEP = 1
  Q_LOW = 1
  Q_HIGH = 3
  TickMod = 3
  CountMod = 1
  Nices <- OnlyDefault
  SleepLens = {}
  CanYield = FALSE
  CanWait = TRUE
  CanExit = FALSE
  CanKill = FALSE
  CanKick = FALSE
  CanRenice = FALSE
  CanSpawn = TRUE
SPECIFICATION FairSpec
CHECK_DEADLOCK FALSE
PROPERTIES YieldLoopLetsOthersRun
