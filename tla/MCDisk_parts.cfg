\* Blocks: two files on two blocks, one can take what the other left.
\* USB: one error, late answers, retries.
CONSTANTS
  Files = {f, g}
  total_blocks = 2
  Data = {1}
  MaxLen = 2
  Chunks = 2
  Vals = {1}
  Attempts = 3
  Tags = 4
  MaxErrors = 1
  Late = TRUE
SPECIFICATION MCSpec
SYMMETRY FileSymmetry
CHECK_DEADLOCK FALSE
INVARIANTS
  BlocksAccounted SavedFilesSurvive
  XhTypeOK
PROPERTIES ReadsAreTrue WritesAreTrue
