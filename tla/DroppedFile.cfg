SPECIFICATION Spec
CONSTANTS
  Workers = {w1}
  Managers = {m1}
  f1 = f1
  Files = {f1, f2, f3, f4}
  Wanted = {f1, f2, f3, f4}
  SizeOf <- MCSizeOf
  JunkBytes <- MCJunk
  IntMax = 3
  Capacity = 2
  MaxSessions = 1
  None = None
CHECK_DEADLOCK FALSE
PROPERTIES MatchesAreQueued
