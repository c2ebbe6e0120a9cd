\* THREAD_COUNT = 3.
CONSTANTS
  Workers = {w1, w2, w3}
  HISTORY_SIZE = 8
  SPECIFIC_HISTORY_SIZE = 8
  UINT_RANGE = 8
  BUFFER_SIZE = 2
  Count = 12
SPECIFICATION Spec
INVARIANT InsertionInOrder
