SPECIFICATION FairSpec
CONSTANTS
  None = None
  Partial = Partial
  short = short
  long = long
  other = other
  Keys = {k1, k2}
  Versions = {long}
  MaxChunks = 2
  NumChunks <- MCNumChunks
  Reqs = {r1}
  Ops = {"GET", "HEAD", "PUT", "DELETE", "COPY"}
  Env = {"upfail", "diskfail", "crash"}
INVARIANTS WriteThrough HotInv
PROPERTIES PutCachesWhole CopyIsHot EveryRequestEnds
