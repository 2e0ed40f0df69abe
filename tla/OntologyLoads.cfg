SPECIFICATION FairSpec
CONSTANTS
  a1 = a1
  a2 = a2
  e1 = e1
  m1 = m1
  NoEntity = NoEntity
  NoAddr = NoAddr
  Addrs = {a1, a2}
  ClusterIds = {1}
  EntityIds = {e1}
  Markets = {m1}
  Fills <- Trades
  Txs <- Moved
  Alerts <- Raised
  StartTxs <- Old
  TxBatch = 1
  TxMax = 5
  MaxChanges = 3
  MaxFailures = 1
INVARIANTS
  TypeOK
  NothingHollow
  PagedThrough
PROPERTIES
  AlertsLinked
  NamesReachGraph
