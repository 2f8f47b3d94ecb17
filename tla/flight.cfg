SPECIFICATION FairSpec
CONSTANTS
  None = None
  Tasks = {t1, t2, t3}
  Channels = {c1, c2, c3}
CHECK_DEADLOCK FALSE
INVARIANTS TypeOK OkMeansCached
PROPERTIES CallsReturn
