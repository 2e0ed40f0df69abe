SPECIFICATION FairSpec
CONSTANTS
  m1 = m1
  m2 = m2
  g1 = g1
  g2 = g2
  a1 = a1
  a2 = a2
  zero = zero
  c1 = c1
  c2 = c2
  NoCluster = NoCluster
  Conditions = {m1, m2}
  GammaId <- FallbackIds
  Addrs = {a1}
  SkipAddrs = {}
  Clusters = {a1}
  MinBuckets = 1
  MaxBuckets = 1
  ZScores = {0, 20}
  Corrs = {3}
  Cooldown = 2
  RefreshEvery = 1
  EvalEvery = 1
  StartTime = 2
  MaxTime = 4
  MaxFaults = 0
  MaxRuns = 1
PROPERTIES
  CollectedIsStored
