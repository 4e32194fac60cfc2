SPECIFICATION Spec
CONSTANTS
  Word = 1000
  Decimals = 2
  Forms = {f1, f2}
  Typed <- MCTyped
  Fee = 5
  DepositMinimumAmount = 100
  MinimumBalance = 10
  OptInBalance = 10
  WaitRounds = 1
  SessionTtl = 2
  CleanupInterval = 1
  LatePayments = FALSE
  Payments = {20}
  InitialBalances = {130}
  MaxBalance = 130
  MaxTime = 5
SYMMETRY FormSymmetry
INVARIANTS
  DepositInv
  VaultIsNotes
  AmountSurvives
  SessionOutlivesGroup
  SessionsLeave
PROPERTY
  MaximumIsRight
CHECK_DEADLOCK FALSE
