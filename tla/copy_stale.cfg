SPECIFICATION Spec
CONSTANTS
  None = None
  Partial = Partial
  short = short
  long = long
  other = other
  Keys = {k1, k2}
  Versions = {long, other}
  MaxChunks = 2
  NumChunks <- MCNumChunks
  Reqs = {r1}
  Ops = {"GET", "PUT", "COPY"}
  Env = {}
INVARIANTS FreshReads
