SPECIFICATION Spec
CONSTANTS
  Nodes = {n1, n2, n3}
  Conns = {c1, c2}
  Capacity = 2
  Ids <- MCIds
  Delays = {d1, d2}
  Buckets = 3
  Seed = 80
  IntMax = 127
  Null = Null
INVARIANTS TypeOK ListIsIntact BucketsAgree
PROPERTIES Implements
