SPECIFICATION Spec
CONSTANTS
  s1 = s1
  s2 = s2
  h1 = h1
  h2 = h2
  k1 = k1
  k2 = k2
  w1 = w1
  w2 = w2
  t1 = t1
  t2 = t2
  Sessions = {s1, s2}
  Requests = {h1, h2}
  Sweepers = {k1}
  Wallets = {w1}
  Txs = {t1, t2}
  Addresses <- MCAddresses
  Token = "token"
  Treasury = "treasury"
  From <- MCFrom
  Tx <- MCTx
  Price <- MCPrice
  TTL = 2
  Second = 2
  SweepBatch = 1
  MaxTries = 5
  Faults <- MCHangUp
  MaxTime = 2
  MaxFaults = 1
INVARIANTS
  NoOrphanedCheckout
CHECK_DEADLOCK FALSE
