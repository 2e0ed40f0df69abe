SPECIFICATION FairSpec
CONSTANTS
  t1 = t1
  t2 = t2
  t3 = t3
  t4 = t4
  Transfers = {t1, t2, t3, t4}
  Variants = {0, 1}
  LogsOf <- ForkingLogs
  Malformed = {t4}
  Oversize = {t3}
  Depth = 1
  MaxRange = 2
  StartHead = 3
  MaxHead = 6
  MaxFaults = 1
  MaxRestarts = 1
INVARIANTS
  TypeOK
  StoredIsCanonical
  StoredOnce
  NoGap
  CheckpointBehind
PROPERTIES
  FeedSpec
  CatchesUp
