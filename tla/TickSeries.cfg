SPECIFICATION FairSpec
CONSTANTS
  Window = 3
  Bucket = 2
  MinSeries = 2
  MaxSeries = 3
  MaxLag = 1
  MinOverlap = 1
  Times = {2, 5, 6, 8}
  MaxClusters = 3
  MaxMessages = 2
  MaxDeaths = 1
INVARIANTS
  TypeOK
  WindowKept
  FrontIsFresh
  EveryLagTried
PROPERTIES
  AnnouncedIsHandled
