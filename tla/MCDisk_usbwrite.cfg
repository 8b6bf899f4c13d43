\* A write that is retried after an error, with a stick that answers in time.
CONSTANTS
  Files = {f, g}
  total_blocks = 2
  Data = {1}
  MaxLen = 2
  Chunks = 2
  Vals = {1}
  Attempts = 3
  Tags = 4
  MaxErrors = 1
  Late = FALSE
SPECIFICATION MCSpec
CHECK_DEADLOCK FALSE
PROPERTIES WriteStored
