SPECIFICATION FairSpec
CONSTANTS
  i1 = i1
  i2 = i2
  i3 = i3
  s1 = s1
  s2 = s2
  s3 = s3
  s4 = s4
  s5 = s5
  Initiators = {i1}
  Servers = {s1, s2}
  Running = {}
  Request <- OneRequest
  Details = 2
  Length <- AllFit
  Buffer = 2
  None = None
CHECK_DEADLOCK FALSE
PROPERTIES NotifiersExit
