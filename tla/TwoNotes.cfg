SPECIFICATION FairSpec
CONSTANTS
  dep = dep
  wdr = wdr
  w1 = w1
  Requests = {d1, w1}
  Txns = {dep, wdr}
  Deposits = {dep}
  TxnOf <- MCTxnOf
  MaxDbErrors = 0
  MaxCrashes = 0
  AmbiguousErrors = TRUE
  SubscriberKeepsUp = TRUE
INVARIANTS
  NotesFaithful
  TimeoutKeepsNote
PROPERTY
  EveryRowLeaves
