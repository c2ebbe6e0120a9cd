\* Ten prices: every case of both loops, on either side, and on more
\* than one level. Five entries are the fewest that are enough for them.
CONSTANTS
  Prices = {1, 2, 3, 4, 5, 6, 7, 8, 9, 10}
  Volumes = {0, 1}
  RB_MAX_HEIGHT = 5
SPECIFICATION FairSpec
INVARIANTS TypeOK Linked Sorted RedRule BlackRule StackFits SiblingExists
PROPERTIES ImplementsPriceTree OperationEnds
