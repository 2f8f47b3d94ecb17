SPECIFICATION FairSpec
CONSTANTS
  None = None
  Chunks = {c1, c2, c3}
  Sizes = {1, 2}
  MaxSize = 3
  Readers = {r1}
  MaxTime = 2
  MaxWrites = 5
INVARIANTS TypeOK
PROPERTIES PassFreesEnough LeastRecentlyUsed ShrinksToLimit
