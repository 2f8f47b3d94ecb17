SPECIFICATION Spec
CONSTANTS
  None = None
  Partial = Partial
  short = short
  long = long
  other = other
  Keys = {k1}
  Versions = {short, long}
  MaxChunks = 2
  NumChunks <- MCNumChunks
  Reqs = {r1}
  Ops = {"GET", "HEAD", "PUT", "DELETE"}
  Env = {"direct", "upfail", "diskfail", "cancel", "evict"}
INVARIANTS TypeOK CoherentCache SerialInv
PROPERTIES DeleteDropsCache
