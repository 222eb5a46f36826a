\* The promise to readers, in and out of order: three rows, batches of two, one
\* failure of any kind and one shutdown at any time.
CONSTANTS
  p1 = p1
  p2 = p2
  i1 = i1
  i2 = i2
  None = None
  Programs = {p1, p2}
  Instances = {i1, i2}
  BatchSize = 2
  MaxPosition = 3
  MaxFailures = 1
  MaxStops = 1
SPECIFICATION FairSpec
INVARIANTS
  TypeOK
  FirstSeenInOrder
  MarkedIsDelivered
  TwiceOnlyAfterFailure
PROPERTIES
  KeepsPromise
  EveryEventMarked
  ShutdownEnds
