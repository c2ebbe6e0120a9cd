\* Two workers on one instrument.
CONSTANTS
  a = a
  b = b
  Workers = {w1, w2}
  Instruments = {a, b}
  PriceSet = {1, 2, 3}
  VolumeSet = {0, 1, 2}
  Inputs <- InputsOfRace
  FG <- MCFG
  Leftovers = {0, 5}
  Unit = 100
  INT_MAX = 9
  HISTORY_SIZE = 4
  SPECIFIC_HISTORY_SIZE = 4
  UINT_RANGE = 8
  BUFFER_SIZE = 2
  Count = 4
SPECIFICATION ProcSpec
INVARIANT UsesLastValue
