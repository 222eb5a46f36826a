\* The order the architecture document claims: nothing fails.
CONSTANTS
  p1 = p1
  p2 = p2
  i1 = i1
  i2 = i2
  None = None
  Programs = {p1, p2}
  Instances = {i1, i2}
  BatchSize = 2
  MaxPosition = 2
  MaxFailures = 0
  MaxStops = 0
SPECIFICATION Spec
INVARIANT
  PublishedInPositionOrder
