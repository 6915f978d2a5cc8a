SPECIFICATION FairSpec
CONSTANTS
  i1 = i1
  i2 = i2
  i3 = i3
  s1 = s1
  s2 = s2
  s3 = s3
  s4 = s4
  s5 = s5
  Initiators = {i1, i2, i3}
  Servers = {s1, s2, s3, s4, s5}
  Running = {s3}
  Request <- ThreeRequests
  Details = 2
  Length <- BlankAndLonger
  Buffer = 2
  None = None
CHECK_DEADLOCK FALSE
INVARIANTS TypeOK RequestArrives ReportIsComplete EmptyStringBlocks
PROPERTIES SessionEnds RequestIsRead
