\* An instrument history longer than the history of the flags,
\* in memory that happens to be zero: the slots nobody clears do not matter.
CONSTANTS
  a = a
  b = b
  Workers = {w1}
  Instruments = {a, b}
  PriceSet = {1, 2, 3}
  VolumeSet = {0, 1, 2}
  Inputs <- InputsOfAsks
  FG <- MCFG
  Leftovers = {0}
  Unit = 100
  INT_MAX = 9
  HISTORY_SIZE = 4
  SPECIFIC_HISTORY_SIZE = 8
  UINT_RANGE = 8
  BUFFER_SIZE = 2
  Count = 6
SPECIFICATION ProcSpec
INVARIANT UsesLastValue
