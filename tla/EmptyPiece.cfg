SPECIFICATION FairSpec
CONSTANTS
  Listings <- EmptyPieceListings
  FileLengths <- EmptyPieceLengths
  Block = 4
  IntMax = 10
  Garbage = {0}
PROPERTIES SentIsClosed
CHECK_DEADLOCK FALSE
