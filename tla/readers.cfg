SPECIFICATION Spec
CONSTANTS
  None = None
  Partial = Partial
  short = short
  long = long
  other = other
  Keys = {k1}
  Versions = {long, other}
  MaxChunks = 1
  NumChunks <- MCNumChunks
  Reqs = {r1, r2}
  Ops = {"GET", "PUT", "DELETE"}
  Env = {"reads", "direct", "cancel", "evict"}
SYMMETRY Symmetric
INVARIANTS FreshReads
PROPERTIES CacheOnWriteOnly
