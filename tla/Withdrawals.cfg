SPECIFICATION FairSpec
CONSTANTS
  Word = 8
  Field = 17
  MinFee = 1
  Divisor = 0
  Requests = {r1, r2}
  RootsKept = 2
  DepositAmounts = {2, 5}
  WithdrawalAmounts = {1, 3, 7}
  MaxInsertions = 3
INVARIANTS
  TypeOK
  Solvent
PROPERTIES
  FailsForAReason
  Withdrawable
CHECK_DEADLOCK FALSE
