SPECIFICATION FairSpec
CONSTANTS
  None = None
  U64 = 6
  BodySizes = {0, 3, 4}
  ChunkSizes = {2, 3}
  Resize = FALSE
  Declared = {TRUE}
  MaxPiece = 3
  Capacity = 2
  MaxNumber = 5
INVARIANTS TypeOK TeeAgrees RangeIsServed
PROPERTIES PutIsWhole RequestsEnd
