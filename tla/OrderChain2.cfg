\* The shipped THREAD_COUNT = 2 on the smallest history it is correct for,
\* two and a half laps of the histories and one wrap of the unsigned counter.
CONSTANTS
  Workers = {w1, w2}
  HISTORY_SIZE = 4
  SPECIFIC_HISTORY_SIZE = 4
  UINT_RANGE = 8
  BUFFER_SIZE = 2
  Count = 10
SPECIFICATION FairSpec
INVARIANTS TypeOK InsertionInOrder SumInOrder NoLostRelease IInv
PROPERTIES ImplementsPipeline EveryUpdateSummed
