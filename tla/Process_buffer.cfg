\* A program of usermode_run ends while elf_exec waits for another one.
CONSTANTS
  MAX_PROCESSES = 3
  MaxPid = 4
  SIGCHLD = 17
  Sigs = {2}
  Codes = {1}
  CanKill = FALSE
  CanSignal = FALSE
  Handled = {}
  CanWait = TRUE
SPECIFICATION Spec
CHECK_DEADLOCK FALSE
PROPERTIES BufferIsOwn
