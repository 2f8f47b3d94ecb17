SPECIFICATION Spec
CONSTANTS
  None = None
  a1 = a1
  a2 = a2
  s1 = s1
  s2 = s2
  b1 = b1
  b2 = b2
  n1 = n1
  v1 = v1
  Methods = {"GET", "HEAD", "PUT", "DELETE", "POST"}
  Buckets = {b1}
  Names = {n1}
  Queries <- MCQueries
  MaxName = 4
  Headers <- MCHeaders
  Copies <- MCCopies
  AccessKeys = {a1, a2}
  Secrets = {s1, s2}
  Configs <- MCConfigs
  MaxChunks = 2
INVARIANTS TypeOK OnlySignedReachUpstream RefusedClients  Transparent
