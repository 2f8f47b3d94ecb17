SPECIFICATION Spec
CONSTANTS
  None = None
  Partial = Partial
  short = short
  long = long
  other = other
  Keys = {k1}
  Versions = {short}
  MaxChunks = 1
  NumChunks <- MCNumChunks
  Reqs = {r1}
  Ops = {"GET", "PUT"}
  Env = {"upfail"}
INVARIANTS DiskIsAccounted
