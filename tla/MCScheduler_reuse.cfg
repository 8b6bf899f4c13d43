\* Exits, kills, renices and reuse of slots, with CPU time.
CONSTANTS
  MAX_PROCESSES = 3
  PRIO_MIN <- BoundMinusTwo
  PRIO_MAX = 2
  PRIO_IDLE = 5
  MLFQ_BOOST_MIN = 0
  MLFQ_BOOST_MAX = 1
  MLFQ_DEMOTE_AFTER = 1
  MLFQ_DECAY_TICKS = 1
  Q_BASE = 1
  Q_STEP = 1
  Q_LOW = 1
  Q_HIGH = 1
  TickMod = 1
  CountMod = 2
  Nices <- OnlyDefault
  SleepLens = {}
  CanYield = FALSE
  CanWait = TRUE
  CanExit = TRUE
  CanKill = TRUE
  CanKick = FALSE
  CanRenice = TRUE
  CanSpawn = TRUE
SPECIFICATION Spec
CHECK_DEADLOCK FALSE
INVARIANTS TimeAddsUp LaunchedIsQueued
