SPECIFICATION FairSpec
CONSTANTS
  dep = dep
  wdr = wdr
  w1 = w1
  Requests = {d1, d2}
  Txns = {dep}
  Deposits = {dep}
  TxnOf <- MCTxnOf
  MaxDbErrors = 1
  MaxCrashes = 2
  AmbiguousErrors = FALSE
  SubscriberKeepsUp = TRUE
INVARIANTS
  TypeOK
  ReceiptInv
  NoReceiptLost
  SuccessHasReceipt
PROPERTIES
  ImplementsLedger
  FailureIsNotOnChain
  OnChainGetsReceipt
