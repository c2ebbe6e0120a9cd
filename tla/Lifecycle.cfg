\* Two workers, every file of up to four lines: one lap of the histories.
CONSTANTS
  Workers = {w1, w2}
  HISTORY_SIZE = 4
  SPECIFIC_HISTORY_SIZE = 4
  UINT_RANGE = 8
  BUFFER_SIZE = 2
  Count = 5
SPECIFICATION FairLifeSpec
INVARIANTS LifeTypeOK InitialisedBeforeUse LossIsTail ReplaysTheFile LifeIInv
PROPERTIES ImplementsChain ProcessEnds
