SPECIFICATION FairSpec
CONSTANTS
  m1 = m1
  m2 = m2
  m3 = m3
  Markets = {m1, m2}
  Geo = {m1, m2}
  Figures <- Mixed
  Limit = 1
  LiqMin = 2
  VolMin = 1
  MaxChanges = 1
  MaxFaults = 1
  MaxRestarts = 1
INVARIANTS
  TypeOK
  BasketIsOneSelection
PROPERTIES
  BasketFollows
  TargetFollows
