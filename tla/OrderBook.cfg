\* Three prices, so that a withdrawn best has two to choose from; the book
\* has finitely many states, so the sequences of updates are not bounded.
CONSTANTS
  PriceSet = {1, 2, 3}
  VolumeSet = {0, 1, 2}
  INT_MAX = 4
  HISTORY_SIZE = 2
  SPECIFIC_HISTORY_SIZE = 2
  UINT_RANGE = 4
SPECIFICATION Spec
INVARIANTS TypeOK BestIsCached IInv
PROPERTY ImplementsDepth
