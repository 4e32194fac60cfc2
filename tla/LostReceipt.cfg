SPECIFICATION Spec
CONSTANTS
  dep = dep
  wdr = wdr
  w1 = w1
  Requests = {d1}
  Txns = {dep}
  Deposits = {dep}
  TxnOf <- MCTxnOf
  MaxDbErrors = 0
  MaxCrashes = 0
  AmbiguousErrors = TRUE
  SubscriberKeepsUp = TRUE
INVARIANT
  NoReceiptLost
