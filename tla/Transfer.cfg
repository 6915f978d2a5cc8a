SPECIFICATION FairSpec
CONSTANTS
  Listings <- MCListings
  FileLengths <- MCLengths
  Block = 4
  IntMax = 10
  Garbage <- MCGarbage
INVARIANTS TypeOK FileArrives NamesArrive ClosedIsReceived
PROPERTIES DialogueEnds
CHECK_DEADLOCK FALSE
