SPECIFICATION FairSpec
CONSTANTS
  t1 = t1
  t2 = t2
  t4 = t4
  bad = bad
  h1 = h1
  k4 = k4
  w1 = w1
  Trades = {t1, t2}
  Hashed = {t1, t2}
  KeyOf <- Keying
  Malformed = {}
  Undated = {}
  TakerOf <- Taking
  Wallets = {w1}
  NoWallet = NoWallet
  Amounts = {}
  Window = 4
  SmartLimit = 1
  MaxFaults = 1
  MaxRestarts = 0
PROPERTIES
  NewFillsWritten
