SPECIFICATION FairSpec
CONSTANTS
  p1 = p1
  p2 = p2
  Producers <- MCProducers
  Sizes <- MCSizes
  W = 2
  SendBatch = 2
  ChanCap = 1
  Failing = {1}
INVARIANTS
  TypeOK
  Conserved
  Bounded
  LossIsReported
  CountIsExact
PROPERTIES
  ImplementsPromise
  Finishes
