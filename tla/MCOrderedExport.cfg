SPECIFICATION OrderedSpec
CONSTANTS
  fold = fold
  Fold = fold
  Producers <- MCProducers
  Calls <- MixedCalls
  Sizes <- MixedSizes
  W = 1
  SendBatch = 3
  ChanCap = 1
  Failing = {0}
  Foreign = {2}
INVARIANTS
  OnlyOvertaken
  JoinIsExact
