SPECIFICATION OrderedSpec
CONSTANTS
  fold = fold
  Fold = fold
  Producers <- MCProducers
  Calls <- SmallCalls
  Sizes <- SmallSizes
  W = 1
  SendBatch = 3
  ChanCap = 1
  Failing = {0}
  Foreign = {0}
INVARIANTS
  JoinIsLookup
