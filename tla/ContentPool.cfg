SPECIFICATION FairSpec
CONSTANTS
  Workers = {w1, w2}
  Conns = {c1, c2, c3, c4}
  Ids = {id1, id2}
  Refused = {id2}
  Capacity = 2
  None = None
CHECK_DEADLOCK FALSE
INVARIANTS TypeOK OneHolder NoLostWakeupEmpty NoLostWakeupFull
PROPERTIES AcceptedIsServed
