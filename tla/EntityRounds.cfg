SPECIFICATION FairSpec
CONSTANTS
  u1 = u1
  u2 = u2
  NoEntity = NoEntity
  Addrs = {1, 2, 3, 4, 5}
  Burn = {5}
  Uids = {u1, u2}
  SdnListings <- Listings
  AddListings = {}
  StartWallets = {1}
  LateWallets = {2, 3}
  Transfers <- Log
  Thresholds <- Tried
  Fallback = 2
  MinTx = 1
  MaxNegatives = 2
INVARIANTS
  TypeOK
  LatestRoundAgrees
  ClustersAreComponents
  LinkedWasListed
PROPERTIES
  TablesSpec
  RoundEnds
