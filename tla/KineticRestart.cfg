SPECIFICATION FairSpec
CONSTANTS
  m1 = m1
  m2 = m2
  g1 = g1
  g2 = g2
  a1 = a1
  a2 = a2
  zero = zero
  c1 = c1
  c2 = c2
  NoCluster = NoCluster
  Conditions = {m1}
  GammaId <- OneFallback
  Addrs = {a1, zero}
  SkipAddrs = {zero}
  Clusters = {a1}
  MinBuckets = 1
  MaxBuckets = 1
  ZScores = {0, 20}
  Corrs = {3}
  Cooldown = 1
  RefreshEvery = 0
  EvalEvery = 1
  StartTime = 2
  MaxTime = 3
  MaxFaults = 1
  MaxRuns = 2
PROPERTIES
  EvaluationEnds
