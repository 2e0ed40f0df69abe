SPECIFICATION FairSpec
CONSTANTS
  m1 = m1
  m2 = m2
  m3 = m3
  Markets = {m1, m2}
  Geo = {m1, m2}
  Figures <- Good
  Limit = 2
  LiqMin = 2
  VolMin = 1
  MaxChanges = 1
  MaxFaults = 0
  MaxRestarts = 0
PROPERTIES
  ClosedLeavesBasket
