SPECIFICATION FairSpec
CONSTANTS
  t1 = t1
  t2 = t2
  t4 = t4
  bad = bad
  h1 = h1
  k4 = k4
  w1 = w1
  Trades = {t1, t2, t4, bad}
  Hashed = {t1, t2, bad}
  KeyOf <- Keying
  Malformed = {bad}
  Undated = {t4}
  TakerOf <- Taking
  Wallets = {w1}
  NoWallet = NoWallet
  Amounts = {1}
  Window = 3
  SmartLimit = 1
  MaxFaults = 1
  MaxRestarts = 1
INVARIANTS
  TypeOK
  SeenIsHandled
  OneRowPerTx
  NoRepeat
  AnnouncedIsStored
PROPERTIES
  FeedIsStored
