\* Two processes of one base priority that yield, sleep and compute.
CONSTANTS
  MAX_PROCESSES = 4
  PRIO_MIN <- BoundMinusTwo
  PRIO_MAX = 2
  PRIO_IDLE = 5
  MLFQ_BOOST_MIN <- BoundMinusOne
  MLFQ_BOOST_MAX = 1
  MLFQ_DEMOTE_AFTER = 2
  MLFQ_DECAY_TICKS = 3
  Q_BASE = 2
  Q_STEP = 1
  Q_LOW = 1
  Q_HIGH = 2
  TickMod = 4
  CountMod = 1
  Nices <- OnlyDefault
  SleepLens = {2}
  CanYield = TRUE
  CanWait = FALSE
  CanExit = FALSE
  CanKill = FALSE
  CanKick = TRUE
  CanRenice = FALSE
  CanSpawn = TRUE
SPECIFICATION FairSpec
CHECK_DEADLOCK FALSE
INVARIANTS TypeOK RunningIsCurrent
PROPERTIES PicksBest EqualPriorityProgress SleeperWakes
